---------------------------- MODULE Invitations ----------------------------
(***************************************************************************)
(* What a PUT or a DELETE of an event with invitees does: internal/caldav's *)
(* invitation policy over proton's update, for one UID of one calendar.    *)
(*                                                                         *)
(* An event the account organizes is written first and announced next, one *)
(* iMIP message per invitee: REQUEST to those added and, if the when or the *)
(* where moved, to those kept; CANCEL to those removed.  An event organized *)
(* by somebody else is never rewritten: the owner's PARTSTAT is patched and *)
(* a REPLY sent, occurrences may be excluded, all else is refused.  Sending *)
(* is best effort, under a daily quota.                                    *)
(*                                                                         *)
(* The handler decides on rows it read before the write, which happens on  *)
(* the row as it is by then; other clients of the account, Proton's own    *)
(* clients and organizers act in between.                                  *)
(***************************************************************************)
EXTENDS Integers, FiniteSets, FiniteSetsExt

CONSTANTS
  Clients,      \* CalDAV clients of the account, one request at a time each
  Me,           \* the account owner
  Third,        \* an organizer that is no address of the account
  Nobody,       \* the organizer of an event without invitees
  Guests,       \* the other people an event may invite
  Replies,      \* the answers in use, of 1 = tentative, 2 = declined, 3 = accepted
  Whens,        \* bounds and rules of a series
  Places,       \* LOCATION
  Texts,        \* SUMMARY and DESCRIPTION
  Days, Past,   \* occurrences that may be excluded, and those before today
  MaxInvitees,  \* maxInviteesPerEvent
  MaxPerDay,    \* maxInvitesPerDay
  Day,          \* 24 hours, in ticks
  MaxNow,       \* bound: ticks
  MaxRequests,  \* bound: requests
  MaxEdits,     \* bound: changes that do not come from the gateway
  MaxFaults     \* bound: failed calls and messages

ASSUME PeopleAssumption ==
  Third # Me /\ Nobody # Me /\ Third # Nobody /\ Third \notin Guests /\ Me \notin Guests
ASSUME ValuesAssumption == Whens # {} /\ Places # {} /\ Texts # {}
ASSUME RepliesAssumption == Replies \subseteq 1..3
ASSUME DaysAssumption == Past \subseteq Days
ASSUME BoundsAssumption ==
  /\ MaxInvitees \in Nat /\ MaxPerDay \in Nat \ {0} /\ Day \in Nat \ {0}
  /\ MaxNow \in Nat /\ MaxNow >= Day - 1 /\ MaxRequests \in Nat /\ MaxEdits \in Nat /\ MaxFaults \in Nat

People == Guests \cup {Me}
Recipients == Guests \cup {Third}
Absent == -1
Status == {Absent, 0} \cup Replies
MaxSeq == MaxRequests + MaxEdits + 1

\* The master row of the UID: organizer, PARTSTAT of every invitee, bounds,
\* place, texts, whether it recurs, the excluded occurrences, STATUS:CANCELLED,
\* whether there is an exception row, SEQUENCE.  A payload has the same form
\* (its SEQUENCE is not read).
Event ==
  [org : {Me, Third, Nobody}, att : [People -> Status], when : Whens, place : Places,
   text : Texts, rule : BOOLEAN, ex : SUBSET Days, dead : BOOLEAN, over : BOOLEAN,
   seq : 0..MaxSeq]
None == [org |-> Nobody]

Listed(e) == IF e = None THEN {} ELSE {p \in People : e.att[p] # Absent}
NoInvitees == [p \in People |-> Absent]

VARIABLES
  proton,   \* the row in Proton
  mirror,   \* the row the gateway serves
  req,      \* the request of every client
  agenda,   \* what the messages told every guest
  heard,    \* the owner's answer as the organizer knows it
  quota,    \* inviteRateLimiter: window and count
  sent,     \* history: messages let through, by tick
  lost,     \* history: the last message meant for a recipient and lost (its stamp, or 0)
  raced,    \* history: a write was decided on another row than it met
  crossed,  \* history: a message's DTSTAMP was not in the order of the writes
  now, stamps, requests, edits, faults

counters == <<now, stamps, requests, edits, faults>>
vars == <<proton, mirror, req, agenda, heard, quota, sent, lost, raced, crossed, counters>>

Fault == faults < MaxFaults /\ faults' = faults + 1
NoFault == UNCHANGED faults

\* DTSTAMPs, as the writes they follow.
Stamps == 0..(MaxRequests + MaxEdits + 1)

Idle == [pc |-> "idle", pay |-> None, row |-> None, plan |-> FALSE, reply |-> 0,
         due |-> <<{}, {}, {}>>, seq |-> 0, stamp |-> 0]

RequestType ==
  [pc : {"idle", "answer", "drop", "delete", "create", "update", "mail"},
   pay : Event \cup {None}, row : Event \cup {None}, plan : BOOLEAN, reply : Status,
   due : [1..3 -> SUBSET Recipients], seq : 0..MaxSeq,
   stamp : Stamps]

-----------------------------------------------------------------------------
(* The policy: what a payload means for the row Proton holds.               *)

Foreign(row) == Listed(row) # {} /\ row.org # Me
CancelledByOrganizer(row) == row # None /\ row.org = Third /\ row.dead

\* The owner's PARTSTAT becomes an answer.  The lenient detection ignores what
\* else the payload changes, and so accepts whatever the strict one does.
Answers(p, row) ==
  /\ Me \in Listed(p) \cap Listed(row)
  /\ p.att[Me] \notin {0, row.att[Me]}

IsAnswer(p, row) ==
  Foreign(row) /\ ~p.over /\ ~row.over /\ Answers(p, row)

\* Mutant: any change of the excluded occurrences counts as deleting one.
OccurrenceChangeOnly(p, row) ==
  /\ row # None /\ p.rule /\ row.rule
  /\ p.when = row.when /\ p.place = row.place /\ p.text = row.text /\ p.dead = row.dead
  /\ p.ex # row.ex

\* More occurrences excluded, and nothing else -- of what the code compares:
\* neither the invitees nor the overrides are.
OccurrenceDeletionOnly(p, row) ==
  /\ row # None /\ p.rule /\ row.rule
  /\ p.when = row.when /\ p.place = row.place /\ p.text = row.text /\ p.dead = row.dead
  /\ Cardinality(p.ex) > Cardinality(row.ex) /\ row.ex \subseteq p.ex

\* Invitees of an event that somebody else organizes are left out.
Stripped(p) ==
  IF Listed(p) # {} /\ p.org # Me
  THEN [p EXCEPT !.att = NoInvitees, !.org = Nobody] ELSE p

Unconcerned(p, row) ==
  Listed(p) \cup Listed(row) = {} \/ OccurrenceDeletionOnly(p, row)

Refused(p, row) ==
  /\ ~Unconcerned(p, row)
  /\ \/ Foreign(row)
     \/ p.over \/ (row # None /\ row.over)
     \/ Cardinality(Listed(p)) > MaxInvitees

\* Past exclusions survive a payload without them.
Merged(p, row) ==
  IF p.rule THEN [p EXCEPT !.ex = @ \cup (row.ex \cap Past)] ELSE p

\* refreshSignificance
Structural(p, row) ==
  p.when # row.when \/ p.rule # row.rule \/ (p.rule /\ p.ex # row.ex)
Significant(p, row) == Structural(p, row) \/ p.place # row.place

\* Mutant: only the WHEN is significant.
PlanWithoutPlace(p, row) ==
  LET in == Merged(p, row)
      removed == Listed(row) \ Listed(in)
      added == Listed(in) \ Listed(row)
  IN  [due |-> <<removed, added, IF Structural(in, row) THEN Listed(in) \cap Listed(row) ELSE {}>>,
       seq |-> IF Structural(in, row) \/ removed \cup added # {} THEN row.seq + 1 ELSE row.seq]

\* Mutant: the plan is not refreshed on the merged exclusions.
PlanUnmerged(p, row) ==
  LET removed == Listed(row) \ Listed(p)
      added == Listed(p) \ Listed(row)
  IN  [due |-> <<removed, added, IF Significant(p, row) THEN Listed(p) \cap Listed(row) ELSE {}>>,
       seq |-> IF Structural(p, row) \/ removed \cup added # {} THEN row.seq + 1 ELSE row.seq]

\* Who is told of the update (CANCEL, REQUEST, REQUEST, in this order), and with
\* which SEQUENCE.
Plan(p, row) ==
  LET in == Merged(p, row)
      removed == Listed(row) \ Listed(in)
      added == Listed(in) \ Listed(row)
  IN  [due |-> <<removed, added, IF Significant(in, row) THEN Listed(in) \cap Listed(row) ELSE {}>>,
       seq |-> IF Structural(in, row) \/ removed \cup added # {} THEN row.seq + 1 ELSE row.seq]

-----------------------------------------------------------------------------
(* The update in Proton: diffPatches and planAttendeeUpdate, on the row as   *)
(* it is when the call runs.                                                 *)

Restructured(in, cur) ==
  \/ in.when # cur.when
  \/ in.rule # cur.rule
  \/ in.rule /\ in.ex # cur.ex

Patched(cur, in, replace) ==
  LET people == replace /\ Listed(in) # Listed(cur)
      org == IF Listed(in) = {} THEN Nobody ELSE IF cur.org = Nobody THEN in.org ELSE cur.org
      status(p) == IF p \in Listed(in) THEN IF p \in Listed(cur) THEN cur.att[p] ELSE 0
                   ELSE Absent
  IN  [cur EXCEPT
         !.when = in.when, !.place = in.place, !.text = in.text, !.dead = in.dead,
         !.rule = in.rule,
         !.ex = IF in.rule THEN in.ex ELSE IF cur.rule THEN {} ELSE @,
         !.att = IF people THEN [p \in People |-> status(p)] ELSE @,
         !.org = IF people THEN org ELSE @,
         !.seq = IF people \/ Restructured(in, cur) THEN @ + 1 ELSE @]

Created(in) ==
  [in EXCEPT !.att = [p \in People |-> IF p \in Listed(in) THEN 0 ELSE Absent],
             !.over = FALSE, !.seq = 0]

\* The row served when the re-read after a write fails.
Synthesized(in) ==
  [Created(in) EXCEPT !.dead = FALSE,
                      !.over = IF mirror = None THEN FALSE ELSE mirror.over,
                      !.seq = IF mirror = None THEN 0 ELSE mirror.seq + 1]

-----------------------------------------------------------------------------
(* The clock, and those who are not the gateway.                            *)

Tick ==
  /\ now < MaxNow /\ now' = now + 1
  /\ UNCHANGED <<proton, mirror, req, agenda, heard, quota, sent, lost, raced, crossed,
                 stamps, requests, edits, faults>>

\* A delta of the poller.
Poll ==
  /\ mirror # proton /\ mirror' = proton
  /\ UNCHANGED <<proton, req, agenda, heard, quota, sent, lost, raced, crossed, counters>>

\* What a message says of the event, and whether the guest's calendar takes it
\* over what it has: by SEQUENCE, then by DTSTAMP.
Says(e, live, seq, stamp) ==
  [live |-> live, when |-> e.when, place |-> e.place, seq |-> seq, stamp |-> stamp]
Newer(m, a) == m.seq > a.seq \/ (m.seq = a.seq /\ m.stamp > a.stamp)
Taken(a, m) == IF Newer(m, a) THEN m ELSE a

\* Somebody else writes the row.  Proton's own client, whose event it is, tells
\* the guests itself; what other organizers tell them is not the gateway's.
OtherWrites(new) ==
  /\ edits < MaxEdits /\ edits' = edits + 1
  /\ stamps' = stamps + 1
  /\ proton' = new
  /\ UNCHANGED <<mirror, req, quota, sent, raced, crossed, now, requests, faults>>

Told(e, people, seq) ==
  /\ agenda' = [p \in Guests |->
       IF e.org = Me /\ p \in people
       THEN Taken(agenda[p], Says(e, p \in Listed(proton'), seq, stamps')) ELSE agenda[p]]
  /\ lost' = [q \in Recipients |-> IF e.org = Me /\ q \in people THEN 0 ELSE lost[q]]

\* The organizer moves the event, in Proton or elsewhere, ...
OtherMoves(w) ==
  /\ proton # None /\ Listed(proton) # {} /\ w # proton.when
  /\ OtherWrites([proton EXCEPT !.when = w, !.seq = @ + 1])
  /\ Told(proton', Listed(proton), proton'.seq)
  /\ UNCHANGED heard

\* ... invites one more guest, ...
OtherInvites(p) ==
  /\ proton # None /\ proton.org = Me /\ p \notin Listed(proton)
  /\ OtherWrites([proton EXCEPT !.att[p] = 0, !.seq = @ + 1])
  /\ Told(proton', Listed(proton'), proton'.seq)
  /\ UNCHANGED heard

\* ... or cancels it: their own, or one the account was invited to.
OtherCancels ==
  /\ Foreign(proton) /\ ~proton.dead
  /\ OtherWrites([proton EXCEPT !.dead = TRUE, !.seq = @ + 1])
  /\ UNCHANGED <<agenda, lost, heard>>

OtherDeletes ==
  /\ proton # None
  /\ OtherWrites(None)
  /\ Told(proton, Listed(proton), proton.seq + 1)
  /\ UNCHANGED heard

\* An invitee answers; the owner, in Proton's own client, which sends the reply.
OtherAnswers(p, s) ==
  /\ p \in Listed(proton) /\ proton.att[p] # s
  /\ OtherWrites([proton EXCEPT !.att[p] = s])
  /\ heard' = IF p = Me THEN [status |-> s, stamp |-> stamps'] ELSE heard
  /\ lost' = IF p = Me THEN [lost EXCEPT ![Third] = 0] ELSE lost
  /\ UNCHANGED agenda

-----------------------------------------------------------------------------
(* PUT and DELETE.  A client sends the served resource with a change to the  *)
(* event and one to its invitees, or a resource of its own.                  *)

Changed(e) ==
  {e} \cup {[e EXCEPT !.when = w] : w \in Whens} \cup {[e EXCEPT !.place = l] : l \in Places}
      \cup {[e EXCEPT !.text = t] : t \in Texts}
      \cup (IF e.rule THEN {[e EXCEPT !.ex = x] : x \in SUBSET Days}
                           \cup {[e EXCEPT !.rule = FALSE, !.ex = {}], [e EXCEPT !.over = ~@]}
            ELSE {})

Invite(e, p, s) == [e EXCEPT !.att[p] = s, !.org = IF @ = Nobody THEN Me ELSE @]
Rsvp(e, s) == [e EXCEPT !.att[Me] = s]
Reinvited(e) ==
  {e} \cup {Invite(e, p, s) : p \in Guests, s \in {Absent, 0}}
      \cup (IF e.org = Third THEN {Rsvp(e, s) : s \in Status} ELSE {})

Payloads(e) == UNION {Reinvited(x) : x \in Changed(e)}

\* Events of one's own, or received by other means than Proton (a booking).
Draft(org, people, rule) ==
  [org |-> org, att |-> [p \in People |-> IF p \in people THEN 0 ELSE Absent],
   when |-> CHOOSE w \in Whens : TRUE, place |-> CHOOSE l \in Places : TRUE,
   text |-> CHOOSE t \in Texts : TRUE, rule |-> rule, ex |-> {}, dead |-> FALSE,
   over |-> FALSE, seq |-> 0]
Drafts == {Draft(Nobody, {}, FALSE), Draft(Third, {Me}, FALSE)}
          \cup {Draft(Me, g, r) : g \in SUBSET Guests, r \in BOOLEAN}

Announced(e) ==
  IF e = None THEN None
  ELSE [org |-> e.org, people |-> Listed(e), when |-> e.when, place |-> e.place,
        rule |-> e.rule, ex |-> e.ex, seq |-> e.seq]

\* The rows of the UID are read and the policy decides; 403 if it refuses.  A
\* resource the client has needs a row (If-Match), and a UID that was deleted
\* is not sent again (assumed of the clients).
PutStart(c) ==
  /\ req[c].pc = "idle"
  /\ requests < MaxRequests /\ requests' = requests + 1
  /\ proton = None => mirror = None /\ stamps = 0
  /\ \E raw \in IF mirror = None THEN Drafts ELSE Payloads(mirror) :
       LET p == Stripped(raw)
           pc == IF IsAnswer(raw, proton) THEN "answer"
                 ELSE IF CancelledByOrganizer(proton) THEN "drop"
                 ELSE IF Refused(p, proton) THEN "idle"
                 ELSE IF proton = None THEN "create" ELSE "update"
       IN  req' = [req EXCEPT ![c] =
             IF pc = "idle" THEN Idle
             ELSE [Idle EXCEPT !.pc = pc, !.row = proton,
                               !.pay = IF pc = "answer" THEN None ELSE p,
                               !.reply = IF pc = "answer" THEN raw.att[Me] ELSE 0,
                               !.plan = ~Unconcerned(p, proton)]]
  /\ UNCHANGED <<proton, mirror, agenda, heard, quota, sent, lost, raced, crossed,
                 now, stamps, edits, faults>>

DeleteStart(c) ==
  /\ req[c].pc = "idle"
  /\ requests < MaxRequests /\ requests' = requests + 1
  /\ mirror # None
  /\ req' = [req EXCEPT ![c] = [Idle EXCEPT !.pc = "delete", !.row = mirror]]
  /\ UNCHANGED <<proton, mirror, agenda, heard, quota, sent, lost, raced, crossed,
                 now, stamps, edits, faults>>

\* The DTSTAMP of the messages is the second in which they are written, after the
\* lock of the write is released: by then it may still be that of the write before,
\* or already that of the next one.  (What was known at the start is older.)
Dtstamp(due, s) ==
  /\ s = stamps' \/ (due # <<{}, {}, {}>> /\ s \in {stamps' - 1, stamps' + 1} /\ s > 0)
  /\ crossed' = (crossed \/ s # stamps')

\* A call reached Proton and left new there.  Its answer and the re-read come
\* back; or only its answer, and instead is served; or the answer is lost: the
\* request fails, and nobody is told.
Wrote(c, new, instead, due, seq) ==
  /\ proton' = new
  /\ stamps' = IF new = proton THEN stamps ELSE stamps + 1
  /\ \/ /\ (mirror' = new /\ NoFault) \/ (mirror' = instead /\ Fault)
        /\ \E s \in Stamps :
             /\ Dtstamp(due, s)
             /\ req' = [req EXCEPT ![c].pc = "mail", ![c].due = due, ![c].seq = seq, ![c].stamp = s]
        /\ UNCHANGED lost
     \/ /\ UNCHANGED <<mirror, crossed>> /\ Fault
        /\ req' = [req EXCEPT ![c] = Idle]
        /\ lost' = [q \in Recipients |->
             IF q \in due[1] \cup due[2] \cup due[3] THEN stamps' ELSE lost[q]]
  /\ UNCHANGED <<agenda, heard, quota, sent, now, requests, edits>>

\* The call does not reach Proton, or it is about a row that is gone: the
\* request fails with nothing written.
CallFails(c) ==
  /\ req[c].pc \notin {"idle", "mail"}
  /\ Fault
  /\ req' = [req EXCEPT ![c] = Idle]
  /\ UNCHANGED <<proton, mirror, agenda, heard, quota, sent, lost, raced, crossed,
                 now, stamps, requests, edits>>

NotFound(c) ==
  /\ req[c].pc \in {"answer", "update", "delete"} /\ proton = None
  /\ mirror' = IF req[c].pc = "delete" THEN None ELSE mirror
  /\ req' = [req EXCEPT ![c] = Idle]
  /\ UNCHANGED <<proton, agenda, heard, quota, sent, lost, raced, crossed, counters>>

\* CreateEvent, whose re-check takes a row of the UID for its own.
Create(c) ==
  /\ req[c].pc = "create"
  /\ LET due == <<{}, IF req[c].plan THEN Listed(req[c].pay) ELSE {}, {}>>
     IN  IF proton = None
         THEN /\ Wrote(c, Created(req[c].pay), Synthesized(req[c].pay), due, 0)
              /\ raced' = (raced \/ stamps > 0)
         ELSE /\ req' = [req EXCEPT ![c].pc = "mail", ![c].due = due, ![c].stamp = stamps]
              /\ raced' = TRUE
              /\ UNCHANGED <<proton, mirror, agenda, heard, quota, sent, lost, crossed, counters>>

Update(c) ==
  /\ req[c].pc = "update" /\ proton # None
  /\ LET in == Merged(req[c].pay, req[c].row)
         plan == Plan(req[c].pay, req[c].row)
     IN  IF req[c].plan
         THEN Wrote(c, Patched(proton, in, plan.due[1] \cup plan.due[2] # {}),
                    Synthesized(in), plan.due, plan.seq)
         ELSE Wrote(c, Patched(proton, in, FALSE), Synthesized(in), <<{}, {}, {}>>, 0)
  /\ raced' = (raced \/ Announced(proton) # Announced(req[c].row))

\* The owner's PARTSTAT alone is patched; a re-read that fails leaves the mirror.
Answer(c) ==
  /\ req[c].pc = "answer" /\ proton # None
  /\ Wrote(c, [proton EXCEPT !.att[Me] = req[c].reply], mirror,
           <<{}, {}, {Third}>>, req[c].row.seq)
  /\ UNCHANGED raced

\* A PUT of an event its organizer cancelled removes it, and tells nobody.
Drop(c) ==
  /\ req[c].pc = "drop"
  /\ Wrote(c, None, None, <<{}, {}, {}>>, 0)
  /\ UNCHANGED raced

\* DELETE: the guests of the row as it was served get a CANCEL.
Delete(c) ==
  /\ req[c].pc = "delete" /\ proton # None
  /\ LET row == req[c].row
     IN  IF row.org = Me
         THEN Wrote(c, None, None, <<Listed(row), {}, {}>>, row.seq + 1)
         ELSE Wrote(c, None, None, <<{}, {}, {}>>, 0)
  /\ raced' = (raced \/ Listed(proton) # Listed(req[c].row) \/ proton.seq > req[c].row.seq)

-----------------------------------------------------------------------------
(* Sending, and the end of a PUT.                                           *)

\* Mutant: the window is never moved.
AllowedForEver ==
  IF now - quota.window >= Day THEN [quota EXCEPT !.count = 1]
  ELSE [quota EXCEPT !.count = @ + 1]

\* inviteRateLimiter.allow: a window of 24 hours opens with the first message
\* after the last one has ended.
Allowed ==
  IF now - quota.window >= Day THEN [window |-> now, count |-> 1]
  ELSE [quota EXCEPT !.count = @ + 1]

\* Mutant: one message too many.
QuotaLeftOneMore == now - quota.window >= Day \/ quota.count <= MaxPerDay

QuotaLeft == now - quota.window >= Day \/ quota.count < MaxPerDay

\* Mutant: the reply carries the status of the row that was read.
ReplyStale(c) == req[c].row.att[Me]

Reply(c) == req[c].reply

\* The recipients left, of the first batch that has any.
Batch(c) == Min({i \in 1..3 : req[c].due[i] # {}} \cup {4})

Letter(c, batch) ==
  Says(IF req[c].pay = None THEN req[c].row ELSE req[c].pay,
       batch # 1, req[c].seq, req[c].stamp)

Delivered(c, p, batch) ==
  IF p = Third
  THEN /\ heard' = IF req[c].stamp > heard.stamp THEN [status |-> Reply(c), stamp |-> req[c].stamp]
                   ELSE heard
       /\ UNCHANGED agenda
  ELSE /\ agenda' = [agenda EXCEPT ![p] = Taken(@, Letter(c, batch))]
       /\ UNCHANGED heard

Missed(c, p) == lost' = [lost EXCEPT ![p] = Max({@, req[c].stamp})]

\* One message: let through and delivered, let through and failed, or cut.
Send(c, p) ==
  /\ req[c].pc = "mail" /\ Batch(c) # 4 /\ p \in req[c].due[Batch(c)]
  /\ req' = [req EXCEPT ![c].due[Batch(c)] = @ \ {p}]
  /\ IF QuotaLeft
     THEN /\ quota' = Allowed
          /\ sent' = [sent EXCEPT ![now] = @ + 1]
          /\ \/ /\ Delivered(c, p, Batch(c)) /\ NoFault
                /\ lost' = [lost EXCEPT ![p] = IF req[c].stamp < @ THEN @ ELSE 0]
             \/ Missed(c, p) /\ UNCHANGED <<agenda, heard>> /\ Fault
     ELSE /\ Missed(c, p)
          /\ UNCHANGED <<quota, sent, agenda, heard>> /\ NoFault
  /\ UNCHANGED <<proton, mirror, raced, crossed, now, stamps, requests, edits>>

\* What was sent is answered 2xx, once the exception rows follow the payload.
Finish(c) ==
  /\ req[c].pc = "mail" /\ Batch(c) = 4
  /\ IF req[c].pay = None \/ proton = None
     THEN UNCHANGED <<proton, mirror>>
     ELSE /\ proton' = [proton EXCEPT !.over = req[c].pay.over]
          /\ mirror' = IF mirror = None THEN None ELSE [mirror EXCEPT !.over = req[c].pay.over]
  /\ req' = [req EXCEPT ![c] = Idle]
  /\ UNCHANGED <<agenda, heard, quota, sent, lost, raced, crossed, counters>>

-----------------------------------------------------------------------------
(* The event as it is when the gateway starts: none yet, one's own series   *)
(* whose guests know of it, or an invitation received.  The window of the   *)
(* quota is about to end; none or all of its messages were sent just now.   *)

InitialRows ==
  {None, Draft(Nobody, {}, TRUE), Draft(Third, {Me} \cup Guests, TRUE)}
  \cup {[Draft(Me, g, TRUE) EXCEPT !.ex = Past] : g \in SUBSET Guests \ {{}}}

Init ==
  /\ proton \in InitialRows /\ mirror = proton
  /\ req = [c \in Clients |-> Idle]
  /\ LET first == Draft(Me, Guests, TRUE)
         informed == IF proton # None /\ proton.org = Me THEN Listed(proton) ELSE {}
     IN  agenda = [p \in Guests |-> Says(first, p \in informed, 0, 0)]
  /\ heard = [status |-> 0, stamp |-> 0]
  /\ \E n \in {0, MaxPerDay} :
       /\ quota = [window |-> 0, count |-> n]
       /\ sent = [t \in 0..MaxNow |-> IF t = Day - 1 THEN n ELSE 0]
  /\ lost = [q \in Recipients |-> 0] /\ raced = FALSE /\ crossed = FALSE
  /\ now = Day - 1 /\ stamps = 0 /\ requests = 0 /\ edits = 0 /\ faults = 0

Others ==
  \/ \E w \in Whens : OtherMoves(w)
  \/ \E p \in Guests : OtherInvites(p)
  \/ OtherCancels
  \/ OtherDeletes
  \/ \E p \in People, s \in Replies : OtherAnswers(p, s)

Handler(c) ==
  \/ CallFails(c) \/ NotFound(c)
  \/ Create(c) \/ Update(c) \/ Answer(c) \/ Drop(c) \/ Delete(c)
  \/ \E p \in Recipients : Send(c, p)
  \/ Finish(c)

Next ==
  \/ Tick \/ Poll \/ Others
  \/ \E c \in Clients : PutStart(c) \/ DeleteStart(c) \/ Handler(c)

Spec == Init /\ [][Next]_vars

-----------------------------------------------------------------------------
(* Properties. *)

TypeOK ==
  /\ proton \in Event \cup {None} /\ mirror \in Event \cup {None}
  /\ req \in [Clients -> RequestType]
  /\ agenda \in [Guests -> [live : BOOLEAN, when : Whens, place : Places, seq : 0..MaxSeq,
                           stamp : Stamps]]
  /\ heard \in [status : Status, stamp : Stamps]
  /\ quota \in [window : 0..MaxNow, count : 0..MaxPerDay]
  /\ sent \in [0..MaxNow -> Nat]
  /\ lost \in [Recipients -> Stamps] /\ raced \in BOOLEAN /\ crossed \in BOOLEAN
  /\ now \in 0..MaxNow /\ stamps \in 0..(MaxRequests + MaxEdits)
  /\ requests \in 0..MaxRequests /\ edits \in 0..MaxEdits /\ faults \in 0..MaxFaults

Quiet == \A c \in Clients : req[c].pc = "idle"

\* Each guest that no message to was lost knows the event as it is.
GuestsAgree ==
  \A p \in Guests :
    lost[p] = 0 =>
    IF p \in Listed(proton)
    THEN agenda[p].live /\ agenda[p].when = proton.when /\ agenda[p].place = proton.place
    ELSE ~agenda[p].live

\* When no request is in progress, every write met the row it was decided on and
\* the DTSTAMPs came in the order of the writes, each guest that no message to was
\* lost knows the event of the account as it is: those invited its when and where,
\* those not (or no longer) invited that they are not -- across updates that
\* announce different parts of it, and although a calendar takes a message by
\* SEQUENCE and then DTSTAMP only.
InviteesInformed ==
  Quiet /\ ~raced /\ ~crossed /\ (proton = None \/ proton.org # Third) => GuestsAgree

\* "the more recent DTSTAMP is enough for clients" (backend.go:819): the same of
\* every DTSTAMP the code sends.
DtstampIsEnough ==
  Quiet /\ ~raced /\ (proton = None \/ proton.org # Third) => GuestsAgree

\* The organizer knows the owner's answer that Proton holds, unless the reply was
\* lost, if the DTSTAMPs came in the order of the writes.
OrganizerKnows ==
  Quiet /\ ~crossed /\ lost[Third] = 0 /\ Foreign(proton) => heard.status = proton.att[Me]

\* "the iMIP carries the post-update SEQUENCE": what the plan computed from the
\* row that was read is what the patch of the row leaves, past exclusions merged.
CarriesWrittenSequence ==
  [][\A c \in Clients :
       Update(c) /\ ~raced' /\ req'[c].pc = "mail" /\ req'[c].due # <<{}, {}, {}>>
         => req'[c].seq = proton'.seq]_vars

\* A request leaves the master row of somebody else's event as it met it, the
\* owner's answer, further exclusions and the SEQUENCE aside, or removes it --
\* if it met the row it was decided on.
ForeignKept ==
  [][\A c \in Clients :
       req'[c] # req[c] /\ Foreign(proton) /\ req[c].row = proton /\ proton' # None =>
         /\ proton.ex \subseteq proton'.ex
         /\ proton' = [proton EXCEPT !.att[Me] = proton'.att[Me], !.ex = proton'.ex,
                                     !.seq = proton'.seq, !.over = proton'.over]]_vars

\* In 24 hours at most twice the quota is sent.
QuotaBound ==
  \A t \in 0..MaxNow :
    FoldSet(LAMBDA u, n : n + sent[u], 0, {u \in t..(t + Day - 1) : u <= MaxNow})
      <= 2 * MaxPerDay

\* "NO MORE no-op 2xx: every unsupported path answers an honest code"
\* (backend.go:315-316): an update of one's own event that goes through leaves it
\* with the invitees of the payload.
InviteesStored ==
  [][\A c \in Clients :
       Update(c) /\ req[c].row = proton /\ req[c].pay.org = Me /\ req'[c].pc = "mail"
         => Listed(proton') = Listed(req[c].pay)]_vars

\* "Any PUT on it now means 'remove it from MY calendar'" (backend.go:544), of an
\* event its organizer has cancelled: none of them is taken for an answer.
CancelledNeverAnswered ==
  \A c \in Clients : req[c].pc = "answer" => ~CancelledByOrganizer(req[c].row)

\* "so the 'never rewrite someone else's event' rule stands" (backend.go:586-587):
\* ForeignKept for the exception row, and whenever the write comes.
ForeignNeverRewritten ==
  [][\A c \in Clients :
       req'[c] # req[c] /\ Foreign(proton) /\ proton' # None =>
         proton' = [proton EXCEPT !.att[Me] = proton'.att[Me], !.ex = proton'.ex \cup @,
                                  !.seq = proton'.seq]]_vars
=============================================================================
