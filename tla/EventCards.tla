----------------------------- MODULE EventCards -----------------------------
(***************************************************************************)
(* One event through the conversions of the gateway: from the cards of its *)
(* Proton row (crypto.go, fragment.go) to the resource a CalDAV client is  *)
(* served (ics.go), and from what the client puts back to a patch of the   *)
(* cards (write.go, update.go, attendees.go, notifications.go).            *)
(*                                                                         *)
(* The client edits what it was served and sends all of it; Proton's own   *)
(* clients edit the row.  UpdateEvent fetches the row, patches the cards   *)
(* it could decrypt and puts them back, without a condition and without a  *)
(* key packet: the server keeps the packet it has.                         *)
(*                                                                         *)
(* A card is the set of the lines it has of every property.                *)
(***************************************************************************)
EXTENDS Alarms

CONSTANTS
  Zones,       \* zones of the time zone database, UTC aside
  Starts,      \* instants an event may start at; its bounds move together
  Occs,        \* occurrences to come
  Midnights,   \* those whose time is 00:00 UTC
  Texts,       \* titles and notes, not empty
  Guests,      \* invitees
  AlarmSets,   \* the sets of alarms a client may set
  Rows,        \* the rows the event may have at first
  Resources,   \* the resources a client may create it with
  ZoneChanges, \* a client may change the zone alone
  MaxPuts,     \* bound: changes by the client
  MaxEdits,    \* bound: changes by Proton's clients
  MaxFaults    \* bound: calls that fail or whose answer is lost

ASSUME NamesAssumption ==
  {"", "UTC", "DATE", "odd"} \cap Zones = {} /\ {"", "(no title)"} \cap Texts = {}
ASSUME MidnightsAssumption == Midnights \subseteq Occs
ASSUME BoundsAssumption ==
  /\ ZoneChanges \in BOOLEAN
  /\ MaxPuts \in Nat /\ MaxEdits \in Nat /\ MaxFaults \in Nat

VARIABLES
  row,     \* Proton's row
  mirror,  \* the row the clients are served
  w,       \* the update on its way
  ideal,   \* history: the event the changes made so far describe
  told,    \* history: the schedules of every SEQUENCE
  unseen,  \* whose changes are in the row and not in the mirror
  stale,   \* history: an update was computed from such a mirror
  raced,   \* history: the row changed between the fetch and the put
  puts, edits, faults

vars == <<row, mirror, w, ideal, told, unseen, stale, raced, puts, edits, faults>>
counters == <<puts, edits, faults>>

-----------------------------------------------------------------------------
(* The row.  A form is how a date is written: in a zone, in UTC (a bare Z),  *)
(* as a DATE; "odd" is a zone the database does not know.  X stands for the  *)
(* lines no CalDAV client sees.  key is the session key of a sealed card;    *)
(* packet is the one the row stores and whose key opens it: the calendar's,  *)
(* the address's, or one that is lost.                                       *)

Forms == Zones \cup {"UTC", "DATE", "odd"}
ClientForms == Forms \ {"odd"}
Lines(text) == IF text = "" THEN {} ELSE {text}

SignedCard(start, form, rule, ex, organizer, seq, x) ==
  [DTSTART |-> {<<start, form>>}, RRULE |-> IF rule THEN {"rule"} ELSE {},
   EXDATE |-> {<<o, form>> : o \in ex}, ORGANIZER |-> IF organizer THEN {"me"} ELSE {},
   SEQUENCE |-> {seq}, X |-> x]

TextCard(title, note, x) == [SUMMARY |-> Lines(title), DESCRIPTION |-> Lines(note), X |-> x]
NoText == TextCard("", "", {})

\* The line every invitee has on the attendees card: of the gateway's hand, of a
\* Proton client's, or none; and the cards it is split into.
Nobody == [g \in Guests |-> "none"]
Listed(lines) == {g \in Guests : lines[g] # "none"}

Gone == [packet |-> [key |-> 0, by |-> "nobody"]]
Exists(r) == r.packet.by # "nobody"

The(lines) == CHOOSE v \in lines : TRUE
TextOf(lines) == IF lines = {} THEN "" ELSE The(lines)

Words == Texts \cup {""}
Titles == Words \cup {"(no title)"}

Packets == [key : Nat, by : {"calendar", "address", "lost"}]
SignedLines ==
  [DTSTART : {{at} : at \in Starts \X Forms}, RRULE : SUBSET {"rule"},
   EXDATE : SUBSET (Occs \X Forms), ORGANIZER : SUBSET {"me", "them"},
   SEQUENCE : SUBSET Nat, X : SUBSET (0..MaxEdits)]
TextLines ==
  [SUMMARY : {Lines(t) : t \in Titles}, DESCRIPTION : {Lines(t) : t \in Words},
   X : SUBSET (0..MaxEdits)]
GuestLines == [Guests -> {"none", "own", "theirs"}]
Columns == [own : BOOLEAN, list : SUBSET Reminders]

Row ==
  [packet : Packets, signed : SignedLines, text : [key : Nat, lines : TextLines],
   list : [key : Nat, lines : GuestLines], split : BOOLEAN, rsvp : SUBSET Guests,
   status : SUBSET {"CONFIRMED", "CANCELLED", "TENTATIVE"}, alarms : Columns]

\* The instant of an occurrence left out, at its time or by its day: a DATE is
\* read as midnight UTC (parseICalExDates, parseExDateValues).
Instant(occ, day) == <<occ, day \/ occ \in Midnights>>

\* EXDATE e is at the instant of an occurrence of the event that starts at d.
Matches(d, e) == Instant(e[1], e[2] = "DATE") = Instant(e[1], d[2] = "DATE")

\* A row Proton can read: one SEQUENCE, no EXDATE without a rule or at another
\* instant than the occurrence it leaves out, no answer of somebody not invited.
Legible(r) ==
  /\ \E n \in r.signed.SEQUENCE : r.signed.SEQUENCE = {n}
  /\ r.signed.RRULE = {} => r.signed.EXDATE = {}
  /\ \A d \in r.signed.DTSTART, e \in r.signed.EXDATE : Matches(d, e)
  /\ r.rsvp \subseteq Listed(r.list.lines)
  /\ ~r.alarms.own => r.alarms.list = {}

-----------------------------------------------------------------------------
(* decryptEvent: what the gateway knows of a row. *)

\* decryptCardMessage: the calendar's key ring, then the addresses'.
Opens(r, card) == r.packet.by \in {"calendar", "address"} /\ card.key = r.packet.key

DecryptFailed(r) ==
  ~Opens(r, r.text) \/ (Listed(r.list.lines) # {} /\ ~Opens(r, r.list))

\* Whoever wrote the first row sealed its cards with the session key of its packet.
ASSUME RowsAssumption ==
  \A r \in Rows \ {Gone} : /\ r \in Row /\ Legible(r)
                           /\ r.packet.by # "lost" => ~DecryptFailed(r)
ASSUME ClientsAssumption ==
  /\ \A res \in Resources :
       res \in [start : Starts, form : ClientForms, rule : BOOLEAN, ex : SUBSET Occs,
               title : Titles, note : Words,
               status : {"", "CONFIRMED", "CANCELLED", "TENTATIVE"},
               guests : SUBSET Guests, alarms : SUBSET VAlarms]
  /\ \A set \in AlarmSets : set \subseteq VAlarms

\* mergeCards: a card that cannot be opened leaves its fields empty.
decryptEvent(r) ==
  LET at == The(r.signed.DTSTART)
      text == IF Opens(r, r.text) THEN r.text.lines ELSE NoText
  IN  [start |-> at[1], day |-> at[2] = "DATE",
       tz |-> IF at[2] = "DATE" THEN "UTC" ELSE at[2],
       rule |-> r.signed.RRULE # {}, ex |-> {Instant(e[1], e[2] = "DATE") : e \in r.signed.EXDATE},
       organizer |-> r.signed.ORGANIZER # {}, seq |-> The(r.signed.SEQUENCE),
       title |-> TextOf(text.SUMMARY), note |-> TextOf(text.DESCRIPTION),
       status |-> TextOf(r.status),
       guests |-> IF Opens(r, r.list) THEN Listed(r.list.lines) ELSE {},
       alarms |-> r.alarms.list]

-----------------------------------------------------------------------------
(* eventToVEvent and veventToInput: the resource a client is served, and     *)
(* what the gateway takes from one that comes in.                            *)

statusOrDefault(s) == IF s = "" THEN "CONFIRMED" ELSE s
titleOrDefault(t) == IF t = "" THEN "(no title)" ELSE t

\* icalDTProp, inServeZone: the database of zones decides.
DateForm(tz, day) ==
  CASE day -> "DATE" [] ~day /\ tz \in Zones -> tz [] OTHER -> "UTC"

eventToVEvent(ev) ==
  [start |-> ev.start, form |-> DateForm(ev.tz, ev.day), rule |-> ev.rule, ex |-> {e[1] : e \in ev.ex},
   title |-> titleOrDefault(ev.title), note |-> ev.note, status |-> ev.status,
   guests |-> ev.guests, alarms |-> {Served(n) : n \in ev.alarms}]

veventToInput(res) ==
  LET day == res.form = "DATE"
  IN  [replace |-> FALSE,
       start |-> res.start, day |-> day, tz |-> IF res.form \in Zones THEN res.form ELSE "",
       rule |-> res.rule, ex |-> {Instant(o, day) : o \in res.ex}, title |-> res.title, note |-> res.note,
       status |-> IF res.status \in {"CONFIRMED", "CANCELLED"} THEN res.status ELSE "",
       guests |-> res.guests,
       alarms |-> UNION {FromAlarm(a, day) : a \in res.alarms}]

-----------------------------------------------------------------------------
(* diffPatches and diffCalendarPatch: the new lines of every property that   *)
(* changes; patchCard leaves all others as they are.                         *)

patchCard(card, patch) ==
  [n \in DOMAIN card |-> IF n \in DOMAIN patch THEN patch[n] ELSE card[n]]

\* Mutant: the form is the client's.
writeTZClients(inTZ, curTZ) == inTZ

writeTZ(inTZ, curTZ) == CASE inTZ # "" -> inTZ [] inTZ = "" /\ curTZ # "UTC" -> curTZ [] OTHER -> ""

BoundsMove(cur, in) == in.start # cur.start \/ in.day # cur.day
ExdatesChange(cur, in) == in.rule /\ in.ex # cur.ex

\* Mutant: the EXDATEs outlive the rule.
ExdatesStay(cur, in) == FALSE

ExdatesOrphaned(cur, in) == cur.rule /\ ~in.rule

\* planAttendeeUpdate, for a list that differs from what the client was served
\* (AttendeesReplace) and from the row's.
GuestsChange(cur, in) == in.replace /\ in.guests # cur.guests

\* Mutant: only new bounds or a new rule count as a new schedule.
StructuralBounds(cur, in) == BoundsMove(cur, in) \/ in.rule # cur.rule

\* What raises SEQUENCE, once; a change of invitees does too (buildUpdateBody).
Structural(cur, in) ==
  BoundsMove(cur, in) \/ in.rule # cur.rule \/ ExdatesChange(cur, in) \/ GuestsChange(cur, in)

SignedPatch(cur, in) ==
  LET tz == writeTZ(in.tz, cur.tz)
      touched ==
        (IF BoundsMove(cur, in) THEN {"DTSTART"} ELSE {})
          \cup (IF in.rule # cur.rule THEN {"RRULE"} ELSE {})
          \cup (IF ExdatesChange(cur, in) \/ ExdatesOrphaned(cur, in) THEN {"EXDATE"} ELSE {})
          \cup (IF Structural(cur, in) THEN {"SEQUENCE"} ELSE {})
          \cup (IF GuestsChange(cur, in) THEN {"ORGANIZER"} ELSE {})
  IN  [n \in touched |->
         CASE n = "DTSTART" -> {<<in.start, DateForm(tz, in.day)>>}
           [] n = "RRULE" -> IF in.rule THEN {"rule"} ELSE {}
           [] n = "EXDATE" -> IF in.rule THEN {<<e[1], DateForm(tz, in.day)>> : e \in in.ex} ELSE {}
           [] n = "SEQUENCE" -> {cur.seq + 1}
           [] n = "ORGANIZER" -> IF in.guests # {} THEN {"me"} ELSE {}]

TextPatch(cur, in) ==
  LET touched == (IF in.title # cur.title THEN {"SUMMARY"} ELSE {})
                   \cup (IF in.note # cur.note THEN {"DESCRIPTION"} ELSE {})
  IN  [n \in touched |-> IF n = "SUMMARY" THEN Lines(in.title) ELSE Lines(in.note)]

-----------------------------------------------------------------------------
(* UpdateEvent *)

\* ErrEventDegraded: a card that cannot be opened, a session key that is not the
\* calendar's to open, an attendees card to rebuild that is not one.
Degraded(r, in) ==
  \/ DecryptFailed(r)
  \/ r.packet.by # "calendar"
  \/ r.split /\ GuestsChange(decryptEvent(r), in)

\* planAttendeeUpdate: who is kept keeps line and answer.
Invited(r, in) ==
  [r EXCEPT !.list.lines = [g \in Guests |->
                              CASE g \notin in.guests -> "none"
                                [] g \in in.guests /\ r.list.lines[g] # "none" -> r.list.lines[g]
                                [] OTHER -> "own"],
            !.list.key = r.packet.key,
            !.rsvp = {g \in in.guests : r.list.lines[g] # "none" /\ g \in r.rsvp}]

\* Mutant: the cards are sealed with a new session key.
ResealedFresh(r) == [r EXCEPT !.text.key = r.packet.key + 10, !.list.key = r.packet.key + 10]

\* resealParts: with the session key of the packet the server keeps.
Resealed(r) == [r EXCEPT !.text.key = r.packet.key, !.list.key = r.packet.key]

\* The row a body built from row r puts in place of it (buildUpdateBody).  A
\* calendar card is made where there is none to patch.
Updated(r, in) ==
  LET cur == decryptEvent(r)
      next == IF GuestsChange(cur, in) THEN Invited(r, in) ELSE r
      status == statusOrDefault(in.status)
  IN  Resealed([next EXCEPT
        !.signed = patchCard(@, SignedPatch(cur, in)),
        !.text.lines = patchCard(@, TextPatch(cur, in)),
        !.status = IF status # statusOrDefault(cur.status) THEN {status} ELSE @,
        !.alarms = notificationsPayload(@, in.alarms)])

\* CreateEvent: buildFragments and sealCards, one session key for both cards.
Created(in) ==
  [packet |-> [key |-> 1, by |-> "calendar"],
   signed |-> SignedCard(in.start, DateForm(in.tz, in.day), in.rule,
                         IF in.rule THEN {e[1] : e \in in.ex} ELSE {}, in.guests # {}, 0, {}),
   text |-> [key |-> 1, lines |-> TextCard(in.title, in.note, {})],
   list |-> [key |-> 1, lines |-> [g \in Guests |-> IF g \in in.guests THEN "own" ELSE "none"]],
   split |-> FALSE, rsvp |-> {}, status |-> {statusOrDefault(in.status)},
   alarms |-> OwnList(in.alarms)]

-----------------------------------------------------------------------------
(* What a client changes, one thing at a time.  z: it writes the dates that  *)
(* it leaves alone as a bare Z.                                              *)

Change(f) == [f |-> f, z |-> FALSE, start |-> 0, form |-> "UTC", ex |-> {}, text |-> "",
              guests |-> {}, alarms |-> {}]

Move(start, form) == [Change("move") EXCEPT !.start = start, !.form = form]
Once(z) == [Change("once") EXCEPT !.z = z]
Repeat(z, ex) == [Change("repeat") EXCEPT !.z = z, !.ex = ex]
Say(f, text) == [Change(f) EXCEPT !.text = text]
Invite(z, guests) == [Change("guests") EXCEPT !.z = z, !.guests = guests]
Bell(alarms) == [Change("alarms") EXCEPT !.alarms = alarms]

Moves == {Move(s, m) : s \in Starts, m \in ClientForms}
Repeats == {Repeat(z, ex) : z \in BOOLEAN, ex \in SUBSET Occs}
Wordings == {Say("title", t) : t \in Words} \cup {Say("note", t) : t \in Words}
Statuses == {Say("status", t) : t \in {"", "CANCELLED", "TENTATIVE"}}
Invites == {Invite(z, set) : z \in BOOLEAN, set \in SUBSET Guests}

Changes ==
  {Change("nothing")} \cup Moves \cup {Once(z) : z \in BOOLEAN} \cup Repeats
    \cup Wordings \cup Statuses \cup Invites \cup {Bell(set) : set \in AlarmSets}

\* The resource the client sends.
Sent(res, c) ==
  LET same == IF c.z /\ res.form # "DATE" THEN [res EXCEPT !.form = "UTC"] ELSE res
  IN  CASE c.f = "move" -> [res EXCEPT !.start = c.start, !.form = c.form]
        [] c.f = "once" -> [same EXCEPT !.rule = FALSE, !.ex = {}]
        [] c.f = "repeat" -> [same EXCEPT !.rule = TRUE, !.ex = c.ex]
        [] c.f = "title" -> [same EXCEPT !.title = c.text]
        [] c.f = "note" -> [same EXCEPT !.note = c.text]
        [] c.f = "status" -> [same EXCEPT !.status = c.text]
        [] c.f = "guests" -> [same EXCEPT !.guests = c.guests]
        [] c.f = "alarms" -> [same EXCEPT !.alarms = c.alarms]
        [] OTHER -> same

\* The client moves the event, or, where ZoneChanges, its zone alone.
Sensible(res, c) ==
  c.f = "move" => \/ c.start # res.start \/ (c.form = "DATE") # (res.form = "DATE")
                  \/ ZoneChanges

-----------------------------------------------------------------------------
(* The reference: an event as all see it, and what a change makes of it.  An *)
(* untitled event may be given the title clients are served for it.          *)

View(r) ==
  LET at == The(r.signed.DTSTART)
  IN  [start |-> at[1], form |-> IF at[2] = "odd" THEN "UTC" ELSE at[2],
       rule |-> r.signed.RRULE # {}, ex |-> {e[1] : e \in r.signed.EXDATE},
       organizer |-> r.signed.ORGANIZER # {}, seq |-> The(r.signed.SEQUENCE),
       title |-> titleOrDefault(TextOf(r.text.lines.SUMMARY)),
       note |-> TextOf(r.text.lines.DESCRIPTION),
       status |-> statusOrDefault(TextOf(r.status)),
       lines |-> r.list.lines, rsvp |-> r.rsvp,
       own |-> r.alarms.own, rings |-> Meaning(r.alarms.list),
       x |-> <<r.signed.X, r.text.lines.X>>]

Schedule(e) == <<e.start, e.form, e.rule, e.ex, Listed(e.lines)>>

\* A zone the client names is the event's; a bare Z is no reason to leave one.
FormAfter(old, c) ==
  IF c.form = "UTC" /\ old \in Zones THEN old ELSE c.form

\* No reminder after the start, but on the day itself.
RingsAt(rings, form) == {x \in rings : x[2] <= 0 \/ form = "DATE"}

\* Proton's events are on or cancelled.
StatusFor(status) == IF status = "CANCELLED" THEN status ELSE "CONFIRMED"

Apply(e, c) ==
  CASE c.f = "move" ->
         LET form == FormAfter(e.form, c)
         IN  [e EXCEPT !.start = c.start, !.form = form, !.rings = RingsAt(@, form)]
    [] c.f = "once" -> [e EXCEPT !.rule = FALSE, !.ex = {}]
    [] c.f = "repeat" -> [e EXCEPT !.rule = TRUE, !.ex = c.ex]
    [] c.f = "title" -> [e EXCEPT !.title = titleOrDefault(c.text)]
    [] c.f = "note" -> [e EXCEPT !.note = c.text]
    [] c.f = "status" -> [e EXCEPT !.status = StatusFor(c.text)]
    [] c.f = "guests" ->
         [e EXCEPT !.lines = [g \in Guests |-> IF g \in c.guests
                                               THEN (IF @[g] = "none" THEN "own" ELSE @[g])
                                               ELSE "none"],
                   !.organizer = c.guests # {}, !.rsvp = @ \cap c.guests]
    [] c.f = "alarms" ->
         LET rings == UNION {Rings(a, e.form = "DATE") : a \in c.alarms}
         IN  [e EXCEPT !.rings = rings, !.own = @ \/ rings # {}]
    [] OTHER -> e

\* SEQUENCE counts the schedules.
Changed(e, c) ==
  LET next == Apply(e, c)
  IN  IF Schedule(next) = Schedule(e) THEN next ELSE [next EXCEPT !.seq = @ + 1]

-----------------------------------------------------------------------------
(* Actions *)

NoChange == Change("nothing")
Idle == [pc |-> "idle", row |-> Gone, base |-> Gone, blind |-> FALSE, c |-> NoChange]

Fault == faults < MaxFaults /\ faults' = faults + 1

\* The schedule of row r is out under its SEQUENCE.
Tells(r) == told' = told \cup {<<View(r).seq, Schedule(View(r))>>}

\* What the gateway takes from a client that was served row base and makes change
\* c (decideInvitePolicy: the invitees are replaced when they are not the same).
Input(base, c) ==
  LET cur == decryptEvent(base)
      in == veventToInput(Sent(eventToVEvent(cur), c))
  IN  [in EXCEPT !.replace = in.guests # cur.guests]

\* An update starts: the row is fetched, and refused or kept in hand.
Fetches(c, blind) ==
  w' = IF Degraded(row, Input(mirror, c)) THEN Idle
       ELSE [pc |-> "put", row |-> row, base |-> mirror, blind |-> blind, c |-> c]

Update(c) ==
  /\ w.pc = "idle" /\ Exists(row) /\ Exists(mirror) /\ puts < MaxPuts
  /\ Sensible(eventToVEvent(decryptEvent(mirror)), c)
  /\ puts' = puts + 1
  /\ Fetches(c, unseen # {})
  /\ UNCHANGED <<row, mirror, ideal, told, unseen, stale, raced, edits, faults>>

\* After a failure the client sends the same again, unless a sync has shown it
\* another event: then it is refused by its ETag and starts afresh.
Retry ==
  /\ w.pc = "retry"
  /\ IF mirror = w.base THEN Fetches(w.c, w.blind \/ "theirs" \in unseen) ELSE w' = Idle
  /\ UNCHANGED <<row, mirror, ideal, told, unseen, stale, raced, counters>>

\* The body is built from the row in hand and put in place of Proton's.
Puts ==
  LET next == Updated(w.row, Input(w.base, w.c))
  IN  /\ w.pc = "put"
      /\ row' = next
      /\ ideal' = Changed(ideal, w.c)
      /\ Tells(next)
      /\ stale' = (stale \/ w.blind)
      /\ raced' = (raced \/ row # w.row)

Put ==
  /\ Puts
  /\ w' = Idle
  /\ mirror' = row' /\ unseen' = {}
  /\ UNCHANGED counters

PutLosesAnswer ==
  /\ Puts /\ Fault
  /\ w' = [w EXCEPT !.pc = "retry"]
  /\ unseen' = unseen \cup {"ours"}
  /\ UNCHANGED <<mirror, puts, edits>>

PutFails ==
  /\ w.pc = "put" /\ Fault
  /\ w' = [w EXCEPT !.pc = "retry"]
  /\ UNCHANGED <<row, mirror, ideal, told, unseen, stale, raced, puts, edits>>

Create(res) ==
  /\ w.pc = "idle" /\ ~Exists(row) /\ puts < MaxPuts
  /\ row' = Created(veventToInput(res))
  /\ mirror' = row' /\ puts' = puts + 1
  /\ ideal' = [start |-> res.start, form |-> res.form, rule |-> res.rule,
               ex |-> IF res.rule THEN res.ex ELSE {}, organizer |-> res.guests # {}, seq |-> 0,
               title |-> titleOrDefault(res.title), note |-> res.note,
               status |-> StatusFor(res.status),
               lines |-> [g \in Guests |-> IF g \in res.guests THEN "own" ELSE "none"],
               rsvp |-> {}, own |-> TRUE,
               rings |-> UNION {Rings(a, res.form = "DATE") : a \in res.alarms},
               x |-> <<{}, {}>>]
  /\ Tells(row')
  /\ UNCHANGED <<w, unseen, stale, raced, edits, faults>>

Poll ==
  /\ mirror # row
  /\ mirror' = row /\ unseen' = {}
  /\ UNCHANGED <<row, w, ideal, told, stale, raced, counters>>

-----------------------------------------------------------------------------
(* Proton's own clients and the invitees. *)

Edits(r, e) ==
  /\ edits < MaxEdits
  /\ edits' = edits + 1
  /\ row' = r /\ ideal' = e
  /\ Tells(r)
  /\ UNCHANGED <<mirror, w, stale, raced, puts, faults>>

AppMoves(start) ==
  /\ Exists(row) /\ start # View(row).start
  /\ LET cur == View(row)
     IN  Edits([row EXCEPT !.signed.DTSTART = {<<start, The(@)[2]>>},
                           !.signed.SEQUENCE = {cur.seq + 1}],
               Changed(ideal, Move(start, cur.form)))
  /\ unseen' = unseen \cup {"theirs"}

AppWrites(text) ==
  /\ Exists(row) /\ text # TextOf(row.text.lines.DESCRIPTION)
  /\ Edits([row EXCEPT !.text.lines.DESCRIPTION = {text}],
           Changed(ideal, Say("note", text)))
  /\ unseen' = unseen \cup {"theirs"}

\* A conference, a colour, a comment: lines the gateway does not know.
AppAdds ==
  /\ Exists(row)
  /\ Edits([row EXCEPT !.signed.X = @ \cup {edits}, !.text.lines.X = @ \cup {edits}],
           [ideal EXCEPT !.x = <<@[1] \cup {edits}, @[2] \cup {edits}>>])
  /\ UNCHANGED unseen

Answers(g) ==
  /\ Exists(row) /\ g \in Listed(row.list.lines) /\ g \notin row.rsvp
  /\ Edits([row EXCEPT !.rsvp = @ \cup {g}], [ideal EXCEPT !.rsvp = @ \cup {g}])
  /\ UNCHANGED unseen

Init ==
  /\ row \in Rows
  /\ mirror = row /\ w = Idle
  /\ ideal = IF Exists(row) THEN View(row) ELSE [start |-> 0]
  /\ told = IF Exists(row) THEN {<<View(row).seq, Schedule(View(row))>>} ELSE {}
  /\ unseen = {} /\ stale = FALSE /\ raced = FALSE
  /\ puts = 0 /\ edits = 0 /\ faults = 0

Next ==
  \/ \E c \in Changes : Update(c)
  \/ Retry \/ Put \/ PutLosesAnswer \/ PutFails
  \/ \E res \in Resources : Create(res)
  \/ Poll
  \/ \E s \in Starts : AppMoves(s)
  \/ \E t \in Texts : AppWrites(t)
  \/ AppAdds
  \/ \E g \in Guests : Answers(g)

Spec == Init /\ [][Next]_vars

-----------------------------------------------------------------------------
(* Ordinary rows and clients, of which Faithful is proved. *)

\* A reminder Proton has a form for, in whatever units it is written.
Fits(d) ==
  LET minutes == totalSeconds(d) \div 60
  IN  /\ d["seconds"] < 60 /\ d["minutes"] <= 9999 /\ d["hours"] <= 999
      /\ d["days"] + 7 * d["weeks"] <= 6993
      /\ minutes % 60 # 0 => minutes <= 9999
      /\ minutes % 1440 # 0 => minutes <= 60 * 999
      /\ minutes <= 10080 * 999

\* One beyond all its bounds.
TooLong(d) ==
  \/ d = Only("weeks", d["weeks"]) /\ d["weeks"] > 999
  \/ d = Only("days", d["days"]) /\ d["days"] > 6999

\* An entry of a column as Proton and the gateway write it.
Settled(n, day) == n.d["seconds"] = 0 /\ Fits(n.d) /\ InTime(n.negative, n.d, day)

\* The organizer is written with the invitees, and the event is on or cancelled.
Sound(r) ==
  /\ r.signed.ORGANIZER # {} <=> Listed(r.list.lines) # {}
  /\ "TENTATIVE" \notin r.status
  /\ \A n \in r.alarms.list : Settled(n, View(r).form = "DATE")

Ordinary ==
  /\ ~ZoneChanges
  /\ \A r \in Rows \ {Gone} : Sound(r)
  /\ \A set \in AlarmSets \cup {res.alarms : res \in Resources} :
       \A a \in set : Fits(a.d) \/ TooLong(a.d)

-----------------------------------------------------------------------------
(* Properties. *)

\* Every change asked for is in Proton's row and nothing else has changed: the
\* lines no CalDAV client sees, the invitees' lines and answers, the zone, the
\* way to say "the calendar's reminders", SEQUENCE one up per new schedule;
\* whatever is served and parsed back on the way, with calls that fail and
\* answers that are lost (the anti-loss rule of update.go).  Excepted are an update
\* computed from a mirror that is behind, and a row that changed between the
\* fetch and the put.
Faithful == stale \/ raced \/ ~Exists(row) \/ View(row) = ideal

\* A row of the calendar stays one whose owner can open every sealed card: no
\* update carries a key packet (sealCards, resealParts).
CardsOpen ==
  Exists(row) /\ row.packet.by # "lost" => ~DecryptFailed(row)

\* An invitee tells two schedules apart by SEQUENCE (diffPatches,
\* buildUpdateBody): a mirror that is behind is no exception.
SequenceTells == raced \/ \A s, t \in told : s[1] = t[1] => s[2] = t[2]

\* What diffPatches says of itself: "EXDATE follows the same zone as the written
\* DTSTART (RFC 5545 3.8.5.1)", a section that asks for one value type as well.
\* EXDATE is written when the instants differ, DTSTART when the bounds move: where
\* the occurrences are at midnight UTC, an event that becomes one of whole days,
\* or is one no longer, leaves its EXDATE lines in the other value type.
ExdatesFollow ==
  Exists(row) =>
    \A d \in row.signed.DTSTART, e \in row.signed.EXDATE : d[2] = "DATE" <=> e[2] = "DATE"

\* Rows and what is in hand are rows Proton can read (or there is none).
TypeOK ==
  /\ \A r \in {row, mirror} : Exists(r) => r \in Row /\ Legible(r)
  /\ w.pc \in {"idle", "put", "retry"}
  /\ w.pc # "idle" => \A r \in {w.row, w.base} : r \in Row /\ Legible(r)
  /\ unseen \subseteq {"ours", "theirs"} /\ stale \in BOOLEAN /\ raced \in BOOLEAN
  /\ puts \in 0..MaxPuts /\ edits \in 0..MaxEdits /\ faults \in 0..MaxFaults
=============================================================================
