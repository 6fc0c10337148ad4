------------------------- MODULE InvitationsProofs -------------------------
(***************************************************************************)
(* Theorems about Invitations.                                             *)
(*                                                                         *)
(* The types already need an invariant: a SEQUENCE or a DTSTAMP stays in    *)
(* bounds because each takes one of the changes that were begun (CountInv), *)
(* and what is written is a row because the policy let nothing else through *)
(* (Admitted).  One UID is either an event of the account's own or somebody *)
(* else's, until it is deleted (Ours, Theirs): the handlers a request can   *)
(* reach differ, and so does who is told.                                  *)
(*                                                                         *)
(* On top of that, who knows what is an invariant of the messages on their  *)
(* way together with what was received: the newest of them is right, unless *)
(* a newer one was lost (OrganizerInv, of the replies to the organizer;     *)
(* GuestInv, of the messages to the guests of the account's own event) --   *)
(* as long as the DTSTAMPs follow the writes; once two have crossed, that is *)
(* remembered (CrossedStays) and nothing is claimed any more.              *)
(*                                                                         *)
(* The quota is a sum over the ticks of a day: FoldSet is shown to add up   *)
(* in any order, by a smallest counterexample, and QuotaInv relates the     *)
(* window to all that was sent before each tick.                           *)
(***************************************************************************)
EXTENDS Invitations, FiniteSetTheorems, TLAPS

-----------------------------------------------------------------------------
(* The inductive invariant of the rows and the requests.                    *)

\* The writes that are still to come, and the SEQUENCEs and DTSTAMPs the changes
\* so far can have used: each change takes one of each.
Pending == {c \in Clients : req[c].pc \notin {"idle", "mail"}}
Room == requests + edits - Cardinality(Pending)

CountInv ==
  /\ IsFiniteSet(Pending)
  /\ stamps <= Room
  /\ proton # None => proton.seq <= Room
  /\ mirror # None => mirror.seq <= Room
  /\ \A c \in Clients : req[c].seq <= Room /\ (req[c].row # None => req[c].row.seq <= Room)
  /\ \A p \in Guests : agenda[p].seq <= Room

\* Whose event a row can be: somebody organizes one with invitees, and the owner
\* is an invitee of Third's only.
Kin(e) ==
  e # None => /\ Listed(e) # {} => e.org # Nobody
              /\ Me \in Listed(e) => e.org = Third

\* A payload is left with the invitees of the account's own event.
Own(e) == e # None => /\ Listed(e) # {} => e.org = Me
                      /\ Me \notin Listed(e)

\* What each request holds once the policy has let it through.
Admitted(r) ==
  /\ r.pc = "create" => r.pay # None /\ r.row = None
  /\ r.pc = "update" => r.pay # None /\ r.row # None
  /\ r.pc = "update" /\ r.plan => Listed(r.row) = {} \/ r.row.org = Me
  /\ r.pc = "update" /\ ~r.plan => Unconcerned(r.pay, r.row)
  /\ r.pc = "create" /\ ~r.plan => Listed(r.pay) = {}
  /\ r.pc = "answer" => r.row # None /\ r.reply # Absent
  /\ r.pc = "delete" => r.row # None
  /\ r.pc = "drop" => r.row.org = Third
  /\ r.pc # "idle" /\ r.pay = None => r.row # None
  /\ Own(r.pay) /\ Kin(r.row)

RequestInv == Kin(proton) /\ Kin(mirror) /\ \A c \in Clients : Admitted(req[c])

\* The UID is an event of the account's own, ...
Ours ==
  /\ proton.org # Third /\ mirror.org # Third
  /\ \A c \in Clients : /\ req[c].pc # "answer"
                        /\ req[c].pay.org # Third /\ req[c].row.org # Third

\* ... or one it was invited to, until it is deleted.
Theirs ==
  /\ proton = None => stamps > 0
  /\ proton # None => proton.org = Third /\ Listed(proton) # {}
  /\ \A c \in Clients : /\ req[c].pc # "create"
                        /\ req[c].pc = "update" => ~req[c].plan

InviteInv == TypeOK /\ CountInv /\ RequestInv /\ (Ours \/ Theirs)

-----------------------------------------------------------------------------
(* The organizer.                                                           *)

\* What the organizer has heard, or is going to.
Answered(stamp, status) ==
  \/ stamp = heard.stamp /\ status = heard.status
  \/ \E c \in Clients : /\ req[c].pc = "mail" /\ Third \in req[c].due[3]
                        /\ stamp = req[c].stamp /\ status = req[c].reply

Latest(s) == \A t \in 0..stamps, y \in Status : Answered(t, y) => t <= s

OrganizerInv ==
  Theirs /\ proton # None =>
    \A s \in 0..stamps, x \in Status :
      Answered(s, x) /\ Latest(s) /\ lost[Third] <= s => x = proton.att[Me]

PostInv ==
  /\ heard.stamp <= stamps
  /\ \A q \in Recipients : lost[q] <= stamps
  /\ \A c \in Clients : /\ req[c].stamp <= stamps
                        /\ Third \notin req[c].due[1] \cup req[c].due[2]

-----------------------------------------------------------------------------
(* The guests.                                                              *)

\* A message on its way to a guest, or what his calendar has.
Bound(m, p, c) ==
  req[c].pc = "mail" /\ \E i \in 1..3 : p \in req[c].due[i] /\ m = Letter(c, i)

Has(m, p) == m = agenda[p] \/ \E c \in Clients : Bound(m, p, c)

Right(m, p) ==
  IF p \in Listed(proton)
  THEN m.live /\ m.when = proton.when /\ m.place = proton.place ELSE ~m.live

Newest(m, p) == \A n : Has(n, p) => n.stamp <= m.stamp

\* The messages to a guest of the account's own event come in one order, by
\* DTSTAMP as by SEQUENCE, and the newest is right unless a newer one was lost.
Orderly(p) ==
  /\ \A m : Has(m, p) => /\ m.stamp <= stamps /\ (m.stamp = 0 => m.seq = 0)
                         /\ (proton # None => m.seq <= proton.seq)
  /\ \A m, n : Has(m, p) /\ Has(n, p) =>
       (m.stamp < n.stamp => m.seq <= n.seq) /\ (m.stamp = n.stamp => m = n)
  /\ \A m : Has(m, p) /\ Newest(m, p) /\ lost[p] <= m.stamp => Right(m, p)

\* Of somebody else's event a guest is told nothing, but perhaps that it is off.
Silent(p) ==
  /\ ~agenda[p].live
  /\ \A c \in Clients : p \notin req[c].due[2] \cup req[c].due[3]

GuestInv ==
  raced \/ crossed \/ \A p \in Guests : (Ours /\ Orderly(p)) \/ (Theirs /\ Silent(p))

-----------------------------------------------------------------------------
(* Rows and payloads.                                                       *)

\* A row is a record of its ten fields, and not the absent one.
LEMMA EventRow ==
  ASSUME NEW e \in Event
  PROVE  /\ e # None /\ e.org \in {Me, Third, Nobody} /\ e.att \in [People -> Status]
         /\ e.when \in Whens /\ e.place \in Places /\ e.text \in Texts
         /\ e.rule \in BOOLEAN /\ e.ex \in SUBSET Days
         /\ e.dead \in BOOLEAN /\ e.over \in BOOLEAN /\ e.seq \in 0..MaxSeq
         /\ e.seq \in Nat
         /\ Listed(e) = {p \in People : e.att[p] # Absent}
         /\ Listed(e) \subseteq People
<1>1. e # None
  <2>1. "seq" \in DOMAIN e BY DEF Event
  <2>2. "seq" \notin DOMAIN None BY DEF None
  <2> QED BY <2>1, <2>2
<1>2. e.rule \in BOOLEAN /\ e.dead \in BOOLEAN /\ e.over \in BOOLEAN BY DEF Event
<1>3. /\ e.org \in {Me, Third, Nobody} /\ e.att \in [People -> Status]
      /\ e.when \in Whens /\ e.place \in Places /\ e.text \in Texts
      /\ e.ex \in SUBSET Days
      /\ e.seq \in 0..MaxSeq
  BY DEF Event
<1>4. e.seq \in Nat BY <1>3
<1>5. Listed(e) = {p \in People : e.att[p] # Absent} BY <1>1 DEF Listed
<1> QED BY <1>1, <1>2, <1>3, <1>4, <1>5

LEMMA NoneRow == Listed(None) = {} /\ None.org = Nobody
BY DEF Listed, None

\* The numbers the invariant counts with.
LEMMA Bounds ==
  /\ MaxSeq \in Nat /\ MaxSeq = MaxRequests + MaxEdits + 1
  /\ MaxRequests \in Nat /\ MaxEdits \in Nat /\ MaxFaults \in Nat /\ MaxNow \in Nat
BY BoundsAssumption DEF MaxSeq

RowOf(o, a, w, l, t, r, x, d, v, s) ==
  [org |-> o, att |-> a, when |-> w, place |-> l, text |-> t, rule |-> r, ex |-> x,
   dead |-> d, over |-> v, seq |-> s]

LEMMA RowTyped ==
  ASSUME NEW o \in {Me, Third, Nobody}, NEW a \in [People -> Status], NEW w \in Whens,
         NEW l \in Places, NEW t \in Texts, NEW r \in BOOLEAN, NEW x \in SUBSET Days,
         NEW d \in BOOLEAN, NEW v \in BOOLEAN, NEW s \in 0..MaxSeq,
         NEW e, e = RowOf(o, a, w, l, t, r, x, d, v, s)
  PROVE  /\ e \in Event
         /\ e.org = o /\ e.att = a /\ e.when = w /\ e.place = l /\ e.text = t
         /\ e.rule = r /\ e.ex = x /\ e.dead = d /\ e.over = v /\ e.seq = s
BY DEF RowOf, Event

\* A row is what its fields say.
LEMMA RowIs ==
  ASSUME NEW e \in Event
  PROVE  e = RowOf(e.org, e.att, e.when, e.place, e.text, e.rule, e.ex, e.dead, e.over, e.seq)
BY DEF RowOf, Event

\* A row with a field changed is a row.
LEMMA RowChanged ==
  ASSUME NEW e \in Event
  PROVE  /\ \A w \in Whens : [e EXCEPT !.when = w] \in Event
         /\ \A l \in Places : [e EXCEPT !.place = l] \in Event
         /\ \A t \in Texts : [e EXCEPT !.text = t] \in Event
         /\ \A x \in SUBSET Days : [e EXCEPT !.ex = x] \in Event
         /\ [e EXCEPT !.rule = FALSE, !.ex = {}] \in Event
         /\ \A v \in BOOLEAN : [e EXCEPT !.over = v] \in Event
         /\ [e EXCEPT !.over = ~@] \in Event
         /\ \A a \in [People -> Status] : [e EXCEPT !.att = a] \in Event
         /\ \A s \in 0..MaxSeq : [e EXCEPT !.seq = s] \in Event
BY DEF Event

\* What a client makes of a row keeps its invitees ...
LEMMA ChangedTyped ==
  ASSUME NEW e \in Event, NEW x \in Changed(e)
  PROVE  x \in Event /\ x.org = e.org /\ x.att = e.att /\ x.seq = e.seq
<1>1. x \in Event BY RowChanged DEF Changed
<1>2. x.org = e.org /\ x.att = e.att /\ x.seq = e.seq BY DEF Changed, Event
<1> QED BY <1>1, <1>2

\* ... and who is invited to it: guests, and the owner to another's event.
LEMMA ReinvitedTyped ==
  ASSUME NEW e \in Event, NEW x \in Reinvited(e)
  PROVE  /\ x \in Event /\ x.seq = e.seq
         /\ e.org = Third => x.org = Third
         /\ e.org # Third => x.org # Third /\ x.att[Me] = e.att[Me]
<1>1. ASSUME NEW p \in Guests, NEW s \in {Absent, 0}, x = Invite(e, p, s)
      PROVE  /\ x \in Event /\ x.seq = e.seq
             /\ e.org = Third => x.org = Third
             /\ e.org # Third => x.org # Third /\ x.att[Me] = e.att[Me]
  <2>1. [e.att EXCEPT ![p] = s] \in [People -> Status] BY EventRow DEF People, Status
  <2>2. x.att = [e.att EXCEPT ![p] = s] /\ x.seq = e.seq
        /\ x.org = IF e.org = Nobody THEN Me ELSE e.org
    BY <1>1 DEF Event, Invite
  <2>3. x \in Event BY <1>1, <2>1 DEF Event, Invite
  <2>4. p # Me /\ Me \in People BY PeopleAssumption DEF People
  <2>5. x.att[Me] = e.att[Me] BY <2>2, <2>4, EventRow
  <2> QED BY <2>2, <2>3, <2>5, PeopleAssumption
<1>2. ASSUME e.org = Third, NEW s \in Status, x = Rsvp(e, s)
      PROVE  x \in Event /\ x.seq = e.seq /\ x.org = Third
  <2>1. [e.att EXCEPT ![Me] = s] \in [People -> Status] BY EventRow
  <2> QED BY <1>2, <2>1 DEF Event, Rsvp
<1>3. \/ x = e
      \/ \E p \in Guests, s \in {Absent, 0} : x = Invite(e, p, s)
      \/ e.org = Third /\ \E s \in Status : x = Rsvp(e, s)
  <2> DEFINE Inviting == {Invite(e, p, s) : p \in Guests, s \in {Absent, 0}}
             Replying == {Rsvp(e, s) : s \in Status}
  <2>1. x \in Inviting => \E p \in Guests, s \in {Absent, 0} : x = Invite(e, p, s)
    OBVIOUS
  <2>2. x \in Replying => \E s \in Status : x = Rsvp(e, s)
    OBVIOUS
  <2>3. Reinvited(e) = {e} \cup Inviting \cup (IF e.org = Third THEN Replying ELSE {})
    BY DEF Reinvited
  <2> HIDE DEF Inviting, Replying
  <2> QED BY <2>1, <2>2, <2>3
<1> QED BY <1>1, <1>2, <1>3

\* A draft is what it is made of.
LEMMA DraftIs ==
  ASSUME NEW o \in {Me, Third, Nobody}, NEW g \in SUBSET People, NEW r \in BOOLEAN
  PROVE  /\ Draft(o, g, r) \in Event /\ Draft(o, g, r).seq = 0
         /\ Draft(o, g, r).org = o /\ Listed(Draft(o, g, r)) = g
         /\ Draft(o, g, r).ex = {}
         /\ \A h \in SUBSET People :
              /\ Draft(o, h, r).when = Draft(o, g, r).when
              /\ Draft(o, h, r).place = Draft(o, g, r).place
<1> DEFINE d == Draft(o, g, r)
           att == [p \in People |-> IF p \in g THEN 0 ELSE Absent]
           w == CHOOSE w \in Whens : TRUE
           l == CHOOSE l \in Places : TRUE
           t == CHOOSE t \in Texts : TRUE
<1>1. w \in Whens /\ l \in Places /\ t \in Texts
  BY ValuesAssumption, Zenon
<1>2. att \in [People -> Status] /\ 0 \in 0..MaxSeq BY Bounds DEF Status
<1>3. d = RowOf(o, att, w, l, t, r, {}, FALSE, FALSE, 0)
  BY DEF Draft, RowOf
<1> HIDE DEF d, att, w, l, t
<1>4. d \in Event /\ d.org = o /\ d.att = att /\ d.seq = 0 /\ d.ex = {}
  BY <1>1, <1>2, <1>3 DEF RowOf, Event
<1> USE DEF att
<1>5. Listed(d) = {p \in People : att[p] # Absent} BY <1>4, EventRow
<1>6. Listed(d) = g BY <1>5 DEF Absent
<1>7. \A h \in SUBSET People : /\ Draft(o, h, r).when = Draft(o, g, r).when
                               /\ Draft(o, h, r).place = Draft(o, g, r).place
  BY DEF Draft
<1> QED BY <1>4, <1>6, <1>7 DEF d

LEMMA DraftTyped ==
  ASSUME NEW x \in Drafts
  PROVE  /\ x \in Event /\ x.seq = 0
         /\ x.org = Third => Listed(x) # {}
         /\ x.org # Third => Me \notin Listed(x)
<1>1. ASSUME NEW o \in {Me, Third, Nobody}, NEW g \in SUBSET People, NEW r \in BOOLEAN
      PROVE  /\ Draft(o, g, r) \in Event /\ Draft(o, g, r).seq = 0
             /\ Draft(o, g, r).org = o /\ Listed(Draft(o, g, r)) = g
  BY DraftIs
<1>2. Guests \subseteq People /\ Me \in People /\ Me \notin Guests
  BY PeopleAssumption DEF People
<1>3. \/ x = Draft(Nobody, {}, FALSE) \/ x = Draft(Third, {Me}, FALSE)
      \/ \E g \in SUBSET Guests, r \in BOOLEAN : x = Draft(Me, g, r)
  <2> DEFINE Mine == {Draft(Me, g, r) : g \in SUBSET Guests, r \in BOOLEAN}
  <2>1. x \in Mine => \E g \in SUBSET Guests, r \in BOOLEAN : x = Draft(Me, g, r)
    OBVIOUS
  <2>2. Drafts = {Draft(Nobody, {}, FALSE), Draft(Third, {Me}, FALSE)} \cup Mine
    BY DEF Drafts
  <2> HIDE DEF Mine
  <2> QED BY <2>1, <2>2
<1>4. CASE x = Draft(Nobody, {}, FALSE)
  <2>1. Nobody \in {Me, Third, Nobody} /\ {} \in SUBSET People /\ FALSE \in BOOLEAN
    OBVIOUS
  <2>2. x \in Event /\ x.seq = 0 /\ x.org = Nobody /\ Listed(x) = {}
    BY <1>1, <1>4, <2>1, Zenon
  <2> QED BY <2>2, PeopleAssumption
<1>5. CASE x = Draft(Third, {Me}, FALSE)
  <2>1. Third \in {Me, Third, Nobody} /\ {Me} \in SUBSET People /\ FALSE \in BOOLEAN
    BY <1>2
  <2>2. x \in Event /\ x.seq = 0 /\ x.org = Third /\ Listed(x) = {Me}
    BY <1>1, <1>5, <2>1, Zenon
  <2> QED BY <2>2
<1>6. ASSUME NEW g \in SUBSET Guests, NEW r \in BOOLEAN, x = Draft(Me, g, r)
      PROVE  x \in Event /\ x.seq = 0 /\ x.org = Me /\ Listed(x) = g
  <2>1. g \in SUBSET People /\ Me \in {Me, Third, Nobody} BY <1>2
  <2> QED BY <1>1, <1>6, <2>1, Zenon
<1> QED BY <1>2, <1>3, <1>4, <1>5, <1>6, PeopleAssumption

\* Who is listed depends on the statuses alone.
LEMMA ListedOf ==
  ASSUME NEW e \in Event, NEW f \in Event, e.att = f.att
  PROVE  Listed(e) = Listed(f)
BY EventRow

LEMMA StrippedOwn ==
  ASSUME NEW e \in Event, e.org # Third => Me \notin Listed(e)
  PROVE  /\ Stripped(e) \in Event /\ Own(Stripped(e)) /\ Stripped(e).seq = e.seq
         /\ Stripped(e).org = Third => e.org = Third /\ Listed(e) = {}
<1>1. CASE Listed(e) # {} /\ e.org # Me
  <2> DEFINE q == [e EXCEPT !.att = NoInvitees, !.org = Nobody]
  <2>1. NoInvitees \in [People -> Status] BY DEF NoInvitees, Status
  <2>2. q \in Event /\ q.att = NoInvitees /\ q.org = Nobody /\ q.seq = e.seq
    BY <2>1 DEF Event
  <2> HIDE DEF q
  <2>3. Listed(q) = {} BY <2>2, EventRow DEF NoInvitees
  <2>4. Stripped(e) = q BY <1>1 DEF Stripped, q
  <2> QED BY <2>2, <2>3, <2>4, PeopleAssumption DEF Own
<1>2. CASE ~(Listed(e) # {} /\ e.org # Me)
  <2>1. Stripped(e) = e BY <1>2 DEF Stripped
  <2> QED BY <1>2, <2>1, PeopleAssumption DEF Own
<1> QED BY <1>1, <1>2

\* What a client sends, once it is stripped.
LEMMA PayloadOwn ==
  ASSUME mirror \in Event \cup {None}, Kin(mirror),
         NEW raw \in IF mirror = None THEN Drafts ELSE Payloads(mirror)
  PROVE  /\ raw \in Event
         /\ Stripped(raw) \in Event /\ Own(Stripped(raw))
         /\ mirror.org # Third => Stripped(raw).org # Third
<1>1. CASE mirror = None
  <2>1. raw \in Drafts BY <1>1
  <2> QED BY <2>1, DraftTyped, StrippedOwn
<1>2. CASE mirror # None
  <2>1. PICK x \in Changed(mirror) : raw \in Reinvited(x) BY <1>2 DEF Payloads
  <2>2. mirror \in Event BY <1>2
  <2>3. x \in Event /\ x.org = mirror.org /\ x.att = mirror.att /\ x.seq = mirror.seq
    BY <2>1, <2>2, ChangedTyped
  <2>4. /\ raw \in Event /\ (x.org = Third => raw.org = Third)
        /\ x.org # Third => raw.org # Third /\ raw.att[Me] = x.att[Me]
    BY <2>1, <2>3, ReinvitedTyped
  <2>5. raw.org # Third => Me \notin Listed(raw)
    <3>1. raw.org # Third => Me \notin Listed(mirror) /\ raw.att[Me] = mirror.att[Me]
      BY <1>2, <2>3, <2>4 DEF Kin
    <3> QED BY <2>2, <2>4, <3>1, EventRow DEF People
  <2> QED BY <2>3, <2>4, <2>5, StrippedOwn
<1> QED BY <1>1, <1>2

\* Past exclusions are all that a merge adds.
LEMMA MergedTyped ==
  ASSUME NEW p \in Event, NEW row \in Event
  PROVE  LET in == Merged(p, row)
         IN  /\ in \in Event /\ in.org = p.org /\ in.att = p.att /\ Listed(in) = Listed(p)
             /\ in.when = p.when /\ in.place = p.place /\ in.text = p.text
             /\ in.rule = p.rule /\ in.dead = p.dead /\ in.over = p.over
             /\ p.ex \subseteq in.ex
             /\ p.rule => in.ex = p.ex \cup (row.ex \cap Past)
<1>1. p.ex \cup (row.ex \cap Past) \in SUBSET Days BY EventRow
<1>2. Merged(p, row) \in Event BY <1>1, RowChanged DEF Merged
<1>3. Merged(p, row).org = p.org /\ Merged(p, row).att = p.att
  BY DEF Merged, Event
<1>4. /\ Merged(p, row).when = p.when /\ Merged(p, row).place = p.place
      /\ Merged(p, row).text = p.text
  BY DEF Merged, Event
<1>5. /\ Merged(p, row).rule = p.rule
      /\ Merged(p, row).dead = p.dead /\ Merged(p, row).over = p.over
  BY DEF Merged, Event
<1>6. /\ p.ex \subseteq Merged(p, row).ex
      /\ p.rule => Merged(p, row).ex = p.ex \cup (row.ex \cap Past)
  BY DEF Merged, Event
<1>7. Listed(Merged(p, row)) = Listed(p) BY <1>2, <1>3, ListedOf
<1> QED BY <1>2, <1>3, <1>4, <1>5, <1>6, <1>7

\* The row after an update: all of the payload but its invitees, which replace
\* the others where that is asked for, and one SEQUENCE more if it matters.
LEMMA PatchedTyped ==
  ASSUME NEW cur \in Event, NEW in \in Event, NEW replace \in BOOLEAN, cur.seq < MaxSeq
  PROVE  LET q == Patched(cur, in, replace)
             people == replace /\ Listed(in) # Listed(cur)
         IN  /\ q \in Event
             /\ q.when = in.when /\ q.place = in.place /\ q.text = in.text
             /\ q.dead = in.dead /\ q.rule = in.rule /\ q.over = cur.over
             /\ in.rule => q.ex = in.ex
             /\ q.seq = IF people \/ Restructured(in, cur) THEN cur.seq + 1 ELSE cur.seq
             /\ ~people => q.att = cur.att /\ q.org = cur.org
             /\ people => /\ Listed(q) = Listed(in)
                          /\ q.org = IF Listed(in) = {} THEN Nobody
                                     ELSE IF cur.org = Nobody THEN in.org ELSE cur.org
<1> DEFINE q == Patched(cur, in, replace)
           people == replace /\ Listed(in) # Listed(cur)
           org == IF Listed(in) = {} THEN Nobody ELSE IF cur.org = Nobody THEN in.org ELSE cur.org
           status(p) == IF p \in Listed(in) THEN IF p \in Listed(cur) THEN cur.att[p] ELSE 0
                        ELSE Absent
           att == [p \in People |-> status(p)]
           ex == IF in.rule THEN in.ex ELSE IF cur.rule THEN {} ELSE cur.ex
           seq == IF people \/ Restructured(in, cur) THEN cur.seq + 1 ELSE cur.seq
<1>1. att \in [People -> Status] BY EventRow DEF Status
<1>2. org \in {Me, Third, Nobody} /\ ex \in SUBSET Days /\ seq \in 0..MaxSeq
  BY EventRow, Bounds
<1>3. q = [cur EXCEPT
         !.when = in.when, !.place = in.place, !.text = in.text, !.dead = in.dead,
         !.rule = in.rule, !.ex = ex,
         !.att = IF people THEN att ELSE @,
         !.org = IF people THEN org ELSE @,
         !.seq = seq]
  BY DEF Patched
<1> DEFINE att2 == IF people THEN att ELSE cur.att
           org2 == IF people THEN org ELSE cur.org
<1>4. att2 \in [People -> Status] /\ org2 \in {Me, Third, Nobody} BY <1>1, <1>2, EventRow
<1>5. q = RowOf(org2, att2, in.when, in.place, in.text, in.rule, ex, in.dead, cur.over, seq)
  <2>1. q = [cur EXCEPT
         !.when = in.when, !.place = in.place, !.text = in.text, !.dead = in.dead,
         !.rule = in.rule, !.ex = ex, !.att = att2, !.org = org2, !.seq = seq]
    BY <1>3
  <2> HIDE DEF q, people, org, att, ex, seq, att2, org2
  <2> QED BY <2>1 DEF Event, RowOf
<1>6. /\ q \in Event /\ q.org = org2 /\ q.att = att2 /\ q.seq = seq /\ q.ex = ex
      /\ q.when = in.when /\ q.place = in.place /\ q.text = in.text
      /\ q.dead = in.dead /\ q.rule = in.rule /\ q.over = cur.over
  <2>1. /\ in.when \in Whens /\ in.place \in Places /\ in.text \in Texts
        /\ in.rule \in BOOLEAN /\ in.dead \in BOOLEAN /\ cur.over \in BOOLEAN
    BY EventRow
  <2> HIDE DEF q, people, org, att, ex, seq, att2, org2
  <2> QED BY <1>2, <1>4, <1>5, <2>1, RowTyped
<1>7. people => Listed(q) = Listed(in)
  <2>1. \A p \in Listed(cur) : cur.att[p] # Absent BY EventRow
  <2>2. people => q.att = att BY <1>6
  <2> HIDE DEF q
  <2>3. people => Listed(q) = {p \in People : att[p] # Absent} BY <1>6, <2>2, EventRow
  <2>4. \A p \in People : att[p] # Absent <=> p \in Listed(in) BY <2>1 DEF Absent
  <2> QED BY <2>3, <2>4, EventRow
<1> HIDE DEF q
<1>8. /\ q \in Event
      /\ q.when = in.when /\ q.place = in.place /\ q.text = in.text
      /\ q.dead = in.dead /\ q.rule = in.rule /\ q.over = cur.over
      /\ in.rule => q.ex = in.ex
      /\ q.seq = IF people \/ Restructured(in, cur) THEN cur.seq + 1 ELSE cur.seq
  BY <1>6
<1>9. /\ ~people => q.att = cur.att /\ q.org = cur.org
      /\ people => q.org = org
  BY <1>6
<1> QED BY <1>7, <1>8, <1>9, Zenon DEF q

LEMMA CreatedTyped ==
  ASSUME NEW in \in Event
  PROVE  LET q == Created(in)
         IN  /\ q \in Event /\ Listed(q) = Listed(in) /\ q.org = in.org /\ q.seq = 0
             /\ q.when = in.when /\ q.place = in.place
<1> DEFINE q == Created(in)
           att == [p \in People |-> IF p \in Listed(in) THEN 0 ELSE Absent]
<1>1. att \in [People -> Status] BY DEF Status
<1>2. q = [in EXCEPT !.att = att, !.over = FALSE, !.seq = 0] BY DEF Created
<1> HIDE DEF att, q
<1>3. q \in Event
  <2> DEFINE x == [in EXCEPT !.att = att]
             y == [x EXCEPT !.over = FALSE]
  <2>1. x \in Event BY <1>1, RowChanged
  <2>2. q = [y EXCEPT !.seq = 0] BY <1>2
  <2> HIDE DEF x
  <2>3. y \in Event BY <2>1, RowChanged
  <2> HIDE DEF y
  <2>4. \A s \in 0..MaxSeq : [y EXCEPT !.seq = s] \in Event BY <2>3, RowChanged
  <2>5. 0 \in 0..MaxSeq BY Bounds
  <2> QED BY <2>2, <2>4, <2>5
<1>4. q.att = att /\ q.org = in.org /\ q.seq = 0 /\ q.when = in.when /\ q.place = in.place
  BY <1>2 DEF Event
<1>5. Listed(q) = {p \in People : att[p] # Absent} BY <1>3, <1>4, EventRow
<1>6. Listed(q) = Listed(in) BY <1>5, EventRow DEF att, Absent
<1> QED BY <1>3, <1>4, <1>6 DEF q

\* What is served instead of the row that could not be read again.
LEMMA SynthesizedTyped ==
  ASSUME NEW in \in Event, mirror \in Event \cup {None}, mirror # None => mirror.seq < MaxSeq
  PROVE  LET q == Synthesized(in)
         IN  /\ q \in Event /\ Listed(q) = Listed(in) /\ q.org = in.org
             /\ q.seq = IF mirror = None THEN 0 ELSE mirror.seq + 1
<1> DEFINE q == Synthesized(in)
           over == IF mirror = None THEN FALSE ELSE mirror.over
           seq == IF mirror = None THEN 0 ELSE mirror.seq + 1
<1>1. over \in BOOLEAN /\ seq \in 0..MaxSeq
  <2>1. mirror # None => mirror.over \in BOOLEAN BY EventRow
  <2>2. over \in BOOLEAN BY <2>1
  <2>3. mirror # None => mirror.seq \in Nat BY EventRow
  <2>4. seq \in 0..MaxSeq BY <2>3, Bounds
  <2> QED BY <2>2, <2>4
<1>2. q = [Created(in) EXCEPT !.dead = FALSE, !.over = over, !.seq = seq]
  BY DEF Synthesized
<1>3. Created(in) \in Event /\ Listed(Created(in)) = Listed(in) /\ Created(in).org = in.org
  BY CreatedTyped
<1> HIDE DEF q, over, seq
<1>4. q \in Event BY <1>1, <1>2, <1>3 DEF Event
<1>5. q.att = Created(in).att /\ q.org = Created(in).org /\ q.seq = seq
  BY <1>2, <1>3 DEF Event
<1>6. Listed(q) = Listed(in) BY <1>3, <1>4, <1>5, ListedOf
<1> QED BY <1>3, <1>4, <1>5, <1>6 DEF q, seq

\* An update is announced to those removed, to those added, and to those kept if
\* its when or its where moved; with one SEQUENCE more if it is restructured or
\* its invitees change.
LEMMA PlanIs ==
  ASSUME NEW p \in Event, NEW row \in Event
  PROVE  /\ Plan(p, row).due[1] = Listed(row) \ Listed(p)
         /\ Plan(p, row).due[2] = Listed(p) \ Listed(row)
         /\ Plan(p, row).due[3]
              = IF Significant(Merged(p, row), row) THEN Listed(p) \cap Listed(row) ELSE {}
         /\ Plan(p, row).due \in [1..3 -> SUBSET People]
         /\ Plan(p, row).due[1] \cup Plan(p, row).due[2] # {} <=> Listed(p) # Listed(row)
         /\ Plan(p, row).seq = IF Structural(Merged(p, row), row) \/ Listed(p) # Listed(row)
                               THEN row.seq + 1 ELSE row.seq
<1> DEFINE in == Merged(p, row)
           kept == IF Significant(in, row) THEN Listed(p) \cap Listed(row) ELSE {}
           due == <<Listed(row) \ Listed(p), Listed(p) \ Listed(row), kept>>
           seq == IF Structural(in, row) \/ (Listed(row) \ Listed(p)) \cup (Listed(p) \ Listed(row)) # {}
                  THEN row.seq + 1 ELSE row.seq
<1>1. Listed(in) = Listed(p) BY MergedTyped
<1>2. Plan(p, row) = [due |-> due, seq |-> seq] BY <1>1 DEF Plan
<1>3. Listed(p) \subseteq People /\ Listed(row) \subseteq People BY EventRow
<1>4. due \in [1..3 -> SUBSET People]
  <2>1. /\ Listed(row) \ Listed(p) \in SUBSET People
        /\ Listed(p) \ Listed(row) \in SUBSET People /\ kept \in SUBSET People
    BY <1>3
  <2> HIDE DEF kept
  <2> QED BY <2>1
<1>5. (Listed(row) \ Listed(p)) \cup (Listed(p) \ Listed(row)) # {} <=> Listed(p) # Listed(row)
  OBVIOUS
<1>6. /\ due[1] = Listed(row) \ Listed(p) /\ due[2] = Listed(p) \ Listed(row) /\ due[3] = kept
  OBVIOUS
<1>7. seq = IF Structural(in, row) \/ Listed(p) # Listed(row) THEN row.seq + 1 ELSE row.seq
  BY <1>5
<1> HIDE DEF seq, due
<1>8. Plan(p, row).due = due /\ Plan(p, row).seq = seq BY <1>2
<1> QED BY <1>4, <1>5, <1>6, <1>7, <1>8

\* On the row it was decided on, an update is written with the SEQUENCE it is
\* announced with.
LEMMA SameBump ==
  ASSUME NEW in \in Event, NEW row \in Event, NEW cur \in Event,
         cur.when = row.when, cur.rule = row.rule, cur.ex = row.ex
  PROVE  Structural(in, row) <=> Restructured(in, cur)
BY DEF Structural, Restructured

-----------------------------------------------------------------------------
(* Requests.                                                                *)

RequestOf(pc, p, r, b, y, d, s, t) ==
  [pc |-> pc, pay |-> p, row |-> r, plan |-> b, reply |-> y, due |-> d, seq |-> s, stamp |-> t]

Phases == {"idle", "answer", "drop", "delete", "create", "update", "mail"}

LEMMA RequestTyped ==
  ASSUME NEW pc \in Phases, NEW p \in Event \cup {None}, NEW r \in Event \cup {None},
         NEW b \in BOOLEAN, NEW y \in Status, NEW d \in [1..3 -> SUBSET Recipients],
         NEW s \in 0..MaxSeq, NEW t \in Stamps,
         NEW q, q = RequestOf(pc, p, r, b, y, d, s, t)
  PROVE  /\ q \in RequestType
         /\ q.pc = pc /\ q.pay = p /\ q.row = r /\ q.plan = b /\ q.reply = y /\ q.due = d
         /\ q.seq = s /\ q.stamp = t
BY DEF RequestOf, RequestType, Phases, Stamps

LEMMA RequestFields ==
  ASSUME NEW q \in RequestType
  PROVE  /\ q.pc \in Phases /\ q.pay \in Event \cup {None} /\ q.row \in Event \cup {None}
         /\ q.plan \in BOOLEAN /\ q.reply \in Status
         /\ q.due \in [1..3 -> SUBSET Recipients]
         /\ q.due[1] \subseteq Recipients /\ q.due[2] \subseteq Recipients
         /\ q.due[3] \subseteq Recipients
         /\ q.seq \in 0..MaxSeq /\ q.stamp \in Stamps /\ q.seq \in Nat /\ q.stamp \in Nat
<1>1. q.plan \in BOOLEAN BY DEF RequestType
<1>2. /\ q.pc \in Phases /\ q.pay \in Event \cup {None} /\ q.row \in Event \cup {None}
      /\ q.reply \in Status /\ q.due \in [1..3 -> SUBSET Recipients]
      /\ q.seq \in 0..MaxSeq /\ q.stamp \in Stamps
  BY DEF RequestType, Phases, Stamps
<1>3. q.seq \in Nat /\ q.stamp \in Nat BY <1>2 DEF Stamps
<1>4. /\ q.due[1] \subseteq Recipients /\ q.due[2] \subseteq Recipients
      /\ q.due[3] \subseteq Recipients
  BY <1>2
<1> QED BY <1>1, <1>2, <1>3, <1>4

LEMMA IdleTyped ==
  /\ Idle \in RequestType /\ Idle.pc = "idle" /\ Idle.pay = None /\ Idle.row = None
  /\ Idle.plan = FALSE /\ Idle.due = <<{}, {}, {}>> /\ Idle.seq = 0 /\ Idle.stamp = 0
  /\ Admitted(Idle)
<1>1. /\ <<{}, {}, {}>> \in [1..3 -> SUBSET Recipients] /\ 0 \in Stamps /\ 0 \in 0..MaxSeq
      /\ 0 \in Status /\ "idle" \in Phases
  BY Bounds DEF Stamps, Status, Phases
<1>2. /\ Idle \in RequestType /\ Idle.pc = "idle" /\ Idle.pay = None /\ Idle.row = None
      /\ Idle.due = <<{}, {}, {}>> /\ Idle.seq = 0 /\ Idle.stamp = 0
  BY <1>1 DEF Idle, RequestType, Phases, Stamps
<1>3. Idle.plan = FALSE BY DEF Idle
<1>4. Admitted(Idle) BY <1>2 DEF Admitted, Own, Kin
<1> QED BY <1>2, <1>3, <1>4

\* One request changes, the others stay.
LEMMA RequestSet ==
  ASSUME req \in [Clients -> RequestType], NEW c \in Clients, NEW q \in RequestType,
         req' = [req EXCEPT ![c] = q]
  PROVE  /\ req' \in [Clients -> RequestType]
         /\ req'[c] = q /\ \A d \in Clients \ {c} : req'[d] = req[d]
OBVIOUS

\* A DTSTAMP is that of the write, or it is remembered that one was not.
LEMMA DtstampIs ==
  ASSUME NEW due, NEW s, Dtstamp(due, s)
  PROVE  (crossed' \/ s = stamps') /\ (crossed => crossed') /\ crossed' \in BOOLEAN
<1>1. crossed' = (crossed \/ s # stamps') BY DEF Dtstamp
<1> QED BY <1>1, Zenon

\* What the request of c is once its write came back: messages to send.
Posted(c, due, seq) ==
  /\ req'[c].pc = "mail" /\ req'[c].due = due /\ req'[c].seq = seq
  /\ crossed' \/ req'[c].stamp = stamps'
  /\ req'[c].pay = req[c].pay /\ req'[c].row = req[c].row
  /\ req'[c].plan = req[c].plan /\ req'[c].reply = req[c].reply

LEMMA PostedTyped ==
  ASSUME req \in [Clients -> RequestType], NEW c \in Clients,
         NEW s \in Stamps, crossed' \/ s = stamps',
         NEW due \in [1..3 -> SUBSET Recipients], NEW seq \in 0..MaxSeq,
         \/ req' = [req EXCEPT ![c].pc = "mail", ![c].due = due, ![c].seq = seq, ![c].stamp = s]
         \/ /\ req' = [req EXCEPT ![c].pc = "mail", ![c].due = due, ![c].stamp = s]
            /\ req[c].seq = seq
  PROVE  /\ req' \in [Clients -> RequestType]
         /\ Posted(c, due, seq) /\ \A d \in Clients \ {c} : req'[d] = req[d]
<1> DEFINE q == RequestOf("mail", req[c].pay, req[c].row, req[c].plan, req[c].reply, due, seq, s)
<1>1. req[c] \in RequestType OBVIOUS
<1>2. q \in RequestType /\ q.pc = "mail" /\ q.due = due /\ q.seq = seq /\ q.stamp = s
      /\ q.pay = req[c].pay /\ q.row = req[c].row /\ q.plan = req[c].plan
      /\ q.reply = req[c].reply
  <2> HIDE DEF q
  <2>2. q = RequestOf("mail", req[c].pay, req[c].row, req[c].plan, req[c].reply, due, seq, s)
    BY DEF q
  <2>3. q \in RequestType BY <1>1, <2>2 DEF RequestOf, RequestType, Stamps
  <2>4. /\ q.pc = "mail" /\ q.due = due /\ q.seq = seq /\ q.stamp = s
        /\ q.pay = req[c].pay /\ q.row = req[c].row /\ q.reply = req[c].reply
    BY <2>2 DEF RequestOf
  <2>5. q.plan = req[c].plan BY <2>2 DEF RequestOf
  <2> QED BY <2>3, <2>4, <2>5
<1>3. req' = [req EXCEPT ![c] = q]
  <2>1. req' = [req EXCEPT ![c] = req'[c]] OBVIOUS
  <2>2. req'[c] = q BY <1>1 DEF RequestOf, RequestType
  <2> QED BY <2>1, <2>2
<1> HIDE DEF q
<1>4. /\ req' \in [Clients -> RequestType]
      /\ req'[c] = q /\ \A d \in Clients \ {c} : req'[d] = req[d]
  BY <1>2, <1>3
<1> QED BY <1>2, <1>4 DEF Posted

-----------------------------------------------------------------------------
(* Counting the changes.                                                    *)

LEMMA RoomBound ==
  ASSUME TypeOK, CountInv
  PROVE  /\ Cardinality(Pending) \in Nat /\ Room \in Nat /\ Room <= MaxRequests + MaxEdits
         /\ Room + 1 <= MaxSeq
         /\ requests \in Nat /\ edits \in Nat /\ stamps \in Nat
<1>1. Cardinality(Pending) \in Nat BY FS_CardinalityType DEF CountInv
<1>2. /\ requests \in 0..MaxRequests /\ edits \in 0..MaxEdits
      /\ stamps \in 0..(MaxRequests + MaxEdits) /\ stamps <= Room
  BY DEF TypeOK, CountInv
<1> QED BY <1>1, <1>2, Bounds DEF Room

\* A write that comes back, or fails, makes room for the change it was counted for.
LEMMA WriteDone ==
  ASSUME IsFiniteSet(Pending), NEW c \in Clients, req[c].pc \notin {"idle", "mail"},
         req'[c].pc \in {"idle", "mail"}, \A d \in Clients \ {c} : req'[d] = req[d]
  PROVE  IsFiniteSet(Pending') /\ Cardinality(Pending') = Cardinality(Pending) - 1
<1>1. Pending' = Pending \ {c} /\ c \in Pending BY DEF Pending
<1>2. IsFiniteSet(Pending \ {c}) /\ Cardinality(Pending \ {c}) = Cardinality(Pending) - 1
  BY <1>1, FS_RemoveElement
<1> QED BY <1>1, <1>2

LEMMA WriteBegun ==
  ASSUME IsFiniteSet(Pending), NEW c \in Clients, req[c].pc \in {"idle", "mail"},
         req'[c].pc \notin {"idle", "mail"}, \A d \in Clients \ {c} : req'[d] = req[d]
  PROVE  IsFiniteSet(Pending') /\ Cardinality(Pending') = Cardinality(Pending) + 1
<1>1. Pending' = Pending \cup {c} /\ c \notin Pending BY DEF Pending
<1>2. IsFiniteSet(Pending \cup {c}) /\ Cardinality(Pending \cup {c}) = Cardinality(Pending) + 1
  BY <1>1, FS_AddElement
<1> QED BY <1>1, <1>2

LEMMA NoWrite ==
  ASSUME NEW c \in Clients, req[c].pc \in {"idle", "mail"}, req'[c].pc \in {"idle", "mail"},
         \A d \in Clients \ {c} : req'[d] = req[d]
  PROVE  Pending' = Pending
BY DEF Pending

\* A row as the counters allow it, with n to spare.
Within(e, n) == e \in Event \cup {None} /\ (e # None => e.seq <= Room + n)

\* A call that reached Proton: what it left, and what became of its request.
LEMMA WroteKeeps ==
  ASSUME TypeOK, CountInv, NEW c \in Clients, req[c].pc \notin {"idle", "mail"},
         NEW new, NEW instead, Within(new, 1), Within(instead, 1),
         NEW due \in [1..3 -> SUBSET Recipients], NEW seq \in 0..(Room + 1),
         Wrote(c, new, instead, due, seq), raced' \in BOOLEAN
  PROVE  /\ TypeOK' /\ CountInv'
         /\ proton' = new /\ mirror' \in {new, instead, mirror}
         /\ Posted(c, due, seq) \/ req'[c] = Idle
         /\ \A d \in Clients \ {c} : req'[d] = req[d]
         /\ stamps' = IF new = proton THEN stamps ELSE stamps + 1
<1>1. Room \in Nat /\ Room + 1 <= MaxSeq /\ stamps \in Nat
  BY RoomBound
<1>2. stamps' \in {stamps, stamps + 1} /\ stamps' = IF new = proton THEN stamps ELSE stamps + 1
  BY DEF Wrote
<1>3. /\ stamps' <= Room + 1 /\ stamps' \in Stamps /\ stamps' \in Nat /\ stamps <= stamps'
      /\ stamps' \in 0..(MaxRequests + MaxEdits)
  <2>1. stamps <= Room BY DEF CountInv
  <2>2. Cardinality(Pending) \in Nat /\ Cardinality(Pending) >= 1
    <3>1. c \in Pending BY DEF Pending
    <3> QED BY <3>1, FS_CardinalityType, FS_EmptySet DEF CountInv
  <2>3. /\ requests \in Nat /\ requests <= MaxRequests
        /\ edits \in Nat /\ edits <= MaxEdits
    BY Bounds DEF TypeOK
  <2>4. Room + 1 <= MaxRequests + MaxEdits BY <2>2, <2>3, Bounds DEF Room
  <2> QED BY <1>1, <1>2, <2>1, <2>4, Bounds DEF Stamps
<1>4. seq \in 0..MaxSeq BY <1>1, Bounds
<1>5. req \in [Clients -> RequestType] BY DEF TypeOK
<1>6. /\ req' \in [Clients -> RequestType]
      /\ Posted(c, due, seq) \/ req'[c] = Idle
      /\ \A d \in Clients \ {c} : req'[d] = req[d]
  <2>1. ASSUME NEW s \in Stamps, Dtstamp(due, s),
               req' = [req EXCEPT ![c].pc = "mail", ![c].due = due, ![c].seq = seq, ![c].stamp = s]
        PROVE  Posted(c, due, seq) /\ req' \in [Clients -> RequestType]
               /\ \A d \in Clients \ {c} : req'[d] = req[d]
    <3>1. crossed' \/ s = stamps' BY <2>1, DtstampIs
    <3> QED BY <1>4, <1>5, <2>1, <3>1, PostedTyped
  <2>2. CASE req' = [req EXCEPT ![c] = Idle]
    BY <1>5, <2>2, RequestSet, IdleTyped
  <2> QED BY <2>1, <2>2 DEF Wrote
<1>7. IsFiniteSet(Pending') /\ Room' = Room + 1
  <2>1. req'[c].pc \in {"idle", "mail"} BY <1>6, IdleTyped DEF Posted
  <2>2. IsFiniteSet(Pending) /\ Cardinality(Pending) \in Nat BY RoomBound DEF CountInv
  <2>3. IsFiniteSet(Pending') /\ Cardinality(Pending') = Cardinality(Pending) - 1
    BY <1>6, <2>1, <2>2, WriteDone
  <2>4. requests' = requests /\ edits' = edits BY DEF Wrote
  <2> QED BY <2>2, <2>3, <2>4, RoomBound DEF Room
<1>8. proton' = new /\ mirror' \in {new, instead, mirror} BY DEF Wrote
<1>9. lost' \in [Recipients -> Stamps]
  <2>1. lost \in [Recipients -> Stamps] BY DEF TypeOK, Stamps
  <2> QED BY <1>3, <2>1 DEF Wrote
<1>10. TypeOK'
  <2>1. proton' \in Event \cup {None} /\ mirror' \in Event \cup {None}
    BY <1>8 DEF Within, TypeOK
  <2>2. faults' \in 0..MaxFaults
    <3>1. faults \in 0..MaxFaults BY DEF TypeOK
    <3>2. Fault \/ NoFault BY DEF Wrote
    <3> QED BY <3>1, <3>2, Bounds DEF Fault, NoFault
  <2>3. UNCHANGED <<agenda, heard, quota, sent, now, requests, edits>> BY DEF Wrote
  <2>4. crossed' \in BOOLEAN
    <3>1. crossed \in BOOLEAN BY DEF TypeOK
    <3>2. crossed' = crossed \/ \E s \in Stamps : Dtstamp(due, s) BY DEF Wrote
    <3> QED BY <3>1, <3>2, DtstampIs
  <2> QED BY <1>3, <1>6, <1>9, <2>1, <2>2, <2>3, <2>4 DEF TypeOK, Stamps
<1>11. CountInv'
  <2>1. stamps' <= Room' BY <1>3, <1>7
  <2>2. proton' # None => proton'.seq <= Room' BY <1>7, <1>8 DEF Within
  <2>3. mirror' # None => mirror'.seq <= Room'
    <3>1. mirror # None => mirror.seq <= Room /\ mirror.seq \in Nat
      BY EventRow DEF CountInv, TypeOK
    <3> QED BY <1>1, <1>7, <1>8, <3>1 DEF Within
  <2>4. ASSUME NEW d \in Clients
        PROVE  req'[d].seq <= Room' /\ (req'[d].row # None => req'[d].row.seq <= Room')
    <3>1. req[d].seq <= Room /\ (req[d].row # None => req[d].row.seq <= Room) BY DEF CountInv
    <3>2. req[d].seq \in Nat /\ (req[d].row # None => req[d].row.seq \in Nat)
      BY <1>5, RequestFields, EventRow
    <3>3. CASE d # c BY <1>1, <1>6, <1>7, <3>1, <3>2, <3>3
    <3>4. CASE d = c /\ req'[c] = Idle BY <1>1, <1>7, <3>4, IdleTyped
    <3>5. CASE d = c /\ Posted(c, due, seq)
      BY <1>1, <1>7, <3>1, <3>2, <3>5 DEF Posted
    <3> QED BY <1>6, <3>3, <3>4, <3>5
  <2>5. ASSUME NEW p \in Guests PROVE agenda'[p].seq <= Room'
    <3>1. agenda' = agenda BY DEF Wrote
    <3>2. agenda[p].seq \in Nat BY Bounds DEF TypeOK
    <3> QED BY <1>1, <1>7, <3>1, <3>2 DEF CountInv
  <2> QED BY <1>7, <2>1, <2>2, <2>3, <2>4, <2>5 DEF CountInv
<1> QED BY <1>2, <1>6, <1>8, <1>10, <1>11

AgendaType ==
  [Guests -> [live : BOOLEAN, when : Whens, place : Places, seq : 0..MaxSeq, stamp : Stamps]]

\* Somebody else's change, whatever the guests are told of it.
LEMMA OthersKeep ==
  ASSUME TypeOK, CountInv, NEW new, Within(new, 1), OtherWrites(new),
         agenda' \in AgendaType, \A p \in Guests : agenda'[p].seq <= Room + 1,
         heard' \in [status : Status, stamp : Stamps], lost' \in [Recipients -> Stamps]
  PROVE  TypeOK' /\ CountInv' /\ proton' = new
<1>1. Room \in Nat /\ Room + 1 <= MaxSeq /\ stamps \in Nat /\ stamps <= Room
  BY RoomBound DEF CountInv
<1>2. req' = req /\ Pending' = Pending BY DEF OtherWrites, Pending
<1>3. Room' = Room + 1 /\ stamps' = stamps + 1
  <2>1. requests' = requests /\ edits' = edits + 1 BY DEF OtherWrites
  <2> QED BY <1>2, <2>1, RoomBound DEF Room, OtherWrites
<1>4. stamps' \in Stamps /\ stamps' \in 0..(MaxRequests + MaxEdits)
  <2>1. /\ requests \in Nat /\ requests <= MaxRequests
        /\ edits \in Nat /\ edits < MaxEdits /\ Cardinality(Pending) \in Nat
    BY Bounds, RoomBound DEF TypeOK, OtherWrites
  <2>2. Room + 1 <= MaxRequests + MaxEdits BY <2>1, Bounds DEF Room
  <2> QED BY <1>1, <1>3, <2>2, Bounds DEF Stamps
<1>5. proton' = new /\ new \in Event \cup {None} BY DEF OtherWrites, Within
<1>6. TypeOK'
  <2>1. UNCHANGED <<mirror, req, quota, sent, raced, crossed, now, requests, faults>> BY DEF OtherWrites
  <2>2. edits' \in 0..MaxEdits
    <3>1. edits \in 0..MaxEdits BY DEF TypeOK
    <3> QED BY <3>1, Bounds DEF OtherWrites
  <2> QED BY <1>4, <1>5, <2>1, <2>2 DEF TypeOK, AgendaType, Stamps
<1>7. CountInv'
  <2>1. IsFiniteSet(Pending') BY <1>2 DEF CountInv
  <2>2. proton' # None => proton'.seq <= Room' BY <1>3, <1>5 DEF Within
  <2>3. mirror' # None => mirror'.seq <= Room'
    <3>1. mirror # None => mirror.seq <= Room /\ mirror.seq \in Nat
      BY EventRow DEF CountInv, TypeOK
    <3> QED BY <1>1, <1>3, <3>1 DEF OtherWrites
  <2>4. ASSUME NEW d \in Clients
        PROVE  req'[d].seq <= Room' /\ (req'[d].row # None => req'[d].row.seq <= Room')
    <3>1. req[d].seq <= Room /\ (req[d].row # None => req[d].row.seq <= Room) BY DEF CountInv
    <3>2. req[d].seq \in Nat /\ (req[d].row # None => req[d].row.seq \in Nat)
      BY RequestFields, EventRow DEF TypeOK
    <3> QED BY <1>1, <1>2, <1>3, <3>1, <3>2
  <2> QED BY <1>1, <1>3, <2>1, <2>2, <2>3, <2>4 DEF CountInv
<1> QED BY <1>5, <1>6, <1>7

\* Messages that arrive: of their fields, and of what a calendar makes of them.
LEMMA SaysTyped ==
  ASSUME NEW e \in Event, NEW live \in BOOLEAN, NEW seq \in 0..MaxSeq, NEW stamp \in Stamps,
         NEW m, m = Says(e, live, seq, stamp)
  PROVE  /\ m \in [live : BOOLEAN, when : Whens, place : Places, seq : 0..MaxSeq, stamp : Stamps]
         /\ m.live = live /\ m.when = e.when /\ m.place = e.place /\ m.seq = seq
         /\ m.stamp = stamp
<1>1. e.when \in Whens /\ e.place \in Places BY EventRow
<1>2. m \in [live : BOOLEAN, when : Whens, place : Places, seq : 0..MaxSeq, stamp : Stamps]
  BY <1>1 DEF Says
<1>3. m.when = e.when /\ m.place = e.place /\ m.seq = seq /\ m.stamp = stamp BY DEF Says
<1>4. m.live = live BY DEF Says
<1> QED BY <1>2, <1>3, <1>4

LEMMA ToldTyped ==
  ASSUME TypeOK, CountInv, NEW e \in Event, NEW people, NEW seq \in 0..(Room + 1),
         stamps' \in Stamps, Told(e, people, seq)
  PROVE  /\ agenda' \in AgendaType /\ \A p \in Guests : agenda'[p].seq <= Room + 1
         /\ lost' \in [Recipients -> Stamps]
<1>1. Room \in Nat /\ Room + 1 <= MaxSeq BY RoomBound
<1>2. seq \in 0..MaxSeq BY <1>1, Bounds
<1> DEFINE Msg(p) == Says(e, p \in Listed(proton'), seq, stamps')
<1>3. ASSUME NEW p \in Guests
      PROVE  /\ agenda'[p] \in [live : BOOLEAN, when : Whens, place : Places, seq : 0..MaxSeq,
                                stamp : Stamps]
             /\ agenda'[p].seq <= Room + 1
  <2>1. agenda'[p] = agenda[p] \/ agenda'[p] = Msg(p) BY DEF Told, Taken
  <2>2. /\ Msg(p) \in [live : BOOLEAN, when : Whens, place : Places, seq : 0..MaxSeq,
                       stamp : Stamps]
        /\ Msg(p).seq = seq
    <3>1. e.when \in Whens /\ e.place \in Places BY EventRow
    <3> QED BY <1>2, <3>1 DEF Says
  <2>3. /\ agenda[p] \in [live : BOOLEAN, when : Whens, place : Places, seq : 0..MaxSeq,
                          stamp : Stamps]
        /\ agenda[p].seq <= Room /\ agenda[p].seq \in Nat
    BY Bounds DEF TypeOK, CountInv, Stamps
  <2> HIDE DEF Msg
  <2> QED BY <1>1, <2>1, <2>2, <2>3
<1>4. agenda' \in AgendaType
  <2>1. agenda' = [p \in Guests |-> agenda'[p]] BY DEF Told
  <2> QED BY <1>3, <2>1 DEF AgendaType
<1>5. lost' \in [Recipients -> Stamps]
  <2>1. lost \in [Recipients -> Stamps] /\ 0 \in Stamps BY Bounds DEF TypeOK, Stamps
  <2> QED BY <2>1 DEF Told
<1> QED BY <1>3, <1>4, <1>5

\* What others make of a row.
LEMMA RowTouched ==
  ASSUME NEW e \in Event, e.seq < MaxSeq
  PROVE  /\ \A w \in Whens : LET q == [e EXCEPT !.when = w, !.seq = @ + 1]
                             IN  /\ q \in Event /\ q.org = e.org /\ q.att = e.att
                                 /\ q.seq = e.seq + 1 /\ q.when = w /\ q.place = e.place
         /\ LET q == [e EXCEPT !.dead = TRUE, !.seq = @ + 1]
            IN  q \in Event /\ q.org = e.org /\ q.att = e.att /\ q.seq = e.seq + 1
         /\ \A p \in People :
              LET q == [e EXCEPT !.att[p] = 0, !.seq = @ + 1]
              IN  /\ q \in Event /\ q.org = e.org /\ Listed(q) = Listed(e) \cup {p}
                  /\ q.seq = e.seq + 1 /\ q.when = e.when /\ q.place = e.place
<1>1. e.seq + 1 \in 0..MaxSeq BY EventRow, Bounds
<1>2. ASSUME NEW w \in Whens
      PROVE  LET q == [e EXCEPT !.when = w, !.seq = @ + 1]
             IN  /\ q \in Event /\ q.org = e.org /\ q.att = e.att
                 /\ q.seq = e.seq + 1 /\ q.when = w /\ q.place = e.place
  BY <1>1 DEF Event
<1>3. LET q == [e EXCEPT !.dead = TRUE, !.seq = @ + 1]
      IN  q \in Event /\ q.org = e.org /\ q.att = e.att /\ q.seq = e.seq + 1
  BY <1>1 DEF Event
<1>4. ASSUME NEW p \in People
      PROVE  LET q == [e EXCEPT !.att[p] = 0, !.seq = @ + 1]
             IN  /\ q \in Event /\ q.org = e.org /\ Listed(q) = Listed(e) \cup {p}
                 /\ q.seq = e.seq + 1 /\ q.when = e.when /\ q.place = e.place
  <2> DEFINE q == [e EXCEPT !.att[p] = 0, !.seq = @ + 1]
             a == [e.att EXCEPT ![p] = 0]
  <2>1. a \in [People -> Status] /\ a[p] = 0 /\ \A r \in People \ {p} : a[r] = e.att[r]
    BY EventRow DEF Status
  <2>2. q.att = a /\ q.org = e.org /\ q.seq = e.seq + 1 /\ q.when = e.when /\ q.place = e.place
    BY DEF Event
  <2>3. q \in Event
    <3>1. q = [e EXCEPT !.att = a, !.seq = e.seq + 1] OBVIOUS
    <3> HIDE DEF q, a
    <3> QED BY <1>1, <2>1, <3>1 DEF Event
  <2> HIDE DEF q
  <2>4. Listed(q) = Listed(e) \cup {p} BY <2>1, <2>2, <2>3, EventRow DEF Absent
  <2> QED BY <2>2, <2>3, <2>4 DEF q
<1> QED BY <1>2, <1>3, <1>4

\* An answer is written: the status of one, and nothing else.
WithStatus(e, p, s) == [e EXCEPT !.att[p] = s]

LEMMA RowAnswered ==
  ASSUME NEW e \in Event, NEW p \in People, NEW s \in Status
  PROVE  /\ WithStatus(e, p, s) \in Event /\ WithStatus(e, p, s).org = e.org
         /\ WithStatus(e, p, s).seq = e.seq
         /\ WithStatus(e, p, s).when = e.when /\ WithStatus(e, p, s).place = e.place
         /\ s # Absent => Listed(WithStatus(e, p, s)) = Listed(e) \cup {p}
         /\ WithStatus(e, p, s).att = [e.att EXCEPT ![p] = s]
<1> DEFINE a == [e.att EXCEPT ![p] = s]
           q == WithStatus(e, p, s)
<1>1. a \in [People -> Status] /\ a[p] = s /\ \A r \in People \ {p} : a[r] = e.att[r]
  BY EventRow
<1>2. q.att = a /\ q.org = e.org /\ q.seq = e.seq /\ q.when = e.when /\ q.place = e.place
  BY DEF Event, WithStatus
<1>3. q \in Event BY <1>1, RowChanged DEF WithStatus
<1> HIDE DEF a, q
<1>4. s # Absent => Listed(q) = Listed(e) \cup {p} BY <1>1, <1>2, <1>3, EventRow
<1> QED BY <1>2, <1>3, <1>4 DEF a, q

\* What others leave of a row is a row of the same people.
LEMMA OthersRow ==
  ASSUME InviteInv, Others
  PROVE  /\ proton \in Event /\ Within(proton', 1) /\ OtherWrites(proton')
         /\ proton' # None => proton'.org = proton.org /\ Listed(proton) \subseteq Listed(proton')
         /\ Kin(proton')
<1> DEFINE Goal == /\ proton \in Event /\ Within(proton', 1) /\ OtherWrites(proton')
                   /\ proton' # None => /\ proton'.org = proton.org
                                        /\ Listed(proton) \subseteq Listed(proton')
                   /\ Kin(proton')
<1>1. Room \in Nat /\ Room + 1 <= MaxSeq /\ (proton # None => proton.seq <= Room)
  BY RoomBound DEF InviteInv, CountInv
<1>2. proton \in Event \cup {None} /\ Kin(proton) BY DEF InviteInv, TypeOK, RequestInv
<1>3. proton # None => proton.seq \in Nat /\ proton.seq < MaxSeq
  BY <1>1, <1>2, EventRow, Bounds
<1>4. ASSUME NEW w \in Whens, OtherMoves(w) PROVE Goal
  <2>1. proton \in Event /\ OtherWrites([proton EXCEPT !.when = w, !.seq = @ + 1])
    BY <1>2, <1>4 DEF OtherMoves
  <2>2. proton' = [proton EXCEPT !.when = w, !.seq = @ + 1] BY <2>1 DEF OtherWrites
  <2>3. /\ proton' \in Event /\ proton'.org = proton.org /\ proton'.att = proton.att
        /\ proton'.seq = proton.seq + 1
    BY <1>3, <2>1, <2>2, EventRow, RowTouched
  <2>4. Listed(proton') = Listed(proton) BY <2>1, <2>3, ListedOf
  <2> QED BY <1>1, <1>2, <2>1, <2>2, <2>3, <2>4, EventRow DEF Within, Kin
<1>5. ASSUME NEW p \in Guests, OtherInvites(p) PROVE Goal
  <2>1. /\ proton \in Event /\ proton.org = Me
        /\ OtherWrites([proton EXCEPT !.att[p] = 0, !.seq = @ + 1])
    BY <1>2, <1>5 DEF OtherInvites
  <2>2. proton' = [proton EXCEPT !.att[p] = 0, !.seq = @ + 1] BY <2>1 DEF OtherWrites
  <2>3. p \in People /\ p # Me BY PeopleAssumption DEF People
  <2>4. /\ proton' \in Event /\ proton'.org = proton.org
        /\ proton'.seq = proton.seq + 1 /\ Listed(proton') = Listed(proton) \cup {p}
    BY <1>3, <2>1, <2>2, <2>3, EventRow, RowTouched
  <2> QED BY <1>1, <1>2, <2>1, <2>2, <2>3, <2>4, EventRow, PeopleAssumption DEF Within, Kin
<1>6. ASSUME OtherCancels PROVE Goal
  <2>1. proton \in Event /\ OtherWrites([proton EXCEPT !.dead = TRUE, !.seq = @ + 1])
    BY <1>2, <1>6, NoneRow DEF OtherCancels, Foreign
  <2>2. proton' = [proton EXCEPT !.dead = TRUE, !.seq = @ + 1] BY <2>1 DEF OtherWrites
  <2>3. /\ proton' \in Event /\ proton'.org = proton.org /\ proton'.att = proton.att
        /\ proton'.seq = proton.seq + 1
    BY <1>3, <2>1, <2>2, EventRow, RowTouched
  <2>4. Listed(proton') = Listed(proton) BY <2>1, <2>3, ListedOf
  <2> QED BY <1>1, <1>2, <2>1, <2>2, <2>3, <2>4, EventRow DEF Within, Kin
<1>7. ASSUME OtherDeletes PROVE Goal
  <2>1. proton \in Event /\ OtherWrites(None) /\ proton' = None
    BY <1>2, <1>7 DEF OtherDeletes, OtherWrites
  <2> QED BY <2>1 DEF Within, Kin
<1>8. ASSUME NEW p \in People, NEW s \in Replies, OtherAnswers(p, s) PROVE Goal
  <2>1. p \in Listed(proton) BY <1>8 DEF OtherAnswers
  <2>2. proton \in Event /\ OtherWrites([proton EXCEPT !.att[p] = s])
    BY <1>2, <1>8, <2>1, NoneRow DEF OtherAnswers
  <2>3. proton' = WithStatus(proton, p, s) BY <2>2 DEF OtherWrites, WithStatus
  <2>4. s \in Status /\ s # Absent BY RepliesAssumption DEF Status, Absent
  <2>5. /\ proton' \in Event /\ proton'.org = proton.org
        /\ proton'.seq = proton.seq /\ Listed(proton') = Listed(proton) \cup {p}
    BY <2>2, <2>3, <2>4, RowAnswered
  <2>6. Listed(proton') = Listed(proton) BY <2>1, <2>5
  <2>7. proton # None /\ proton' # None BY <2>2, <2>5, EventRow
  <2>8. Within(proton', 1)
    <3>1. proton.seq \in Nat /\ proton.seq <= Room BY <1>1, <2>2, <2>7, EventRow
    <3> QED BY <1>1, <2>5, <3>1 DEF Within
  <2>9. Kin(proton') BY <1>2, <2>5, <2>6, <2>7 DEF Kin
  <2>10. OtherWrites(proton') BY <2>2 DEF OtherWrites
  <2> QED BY <2>2, <2>5, <2>6, <2>8, <2>9, <2>10
<1> HIDE DEF Goal
<1>9. Goal BY <1>4, <1>5, <1>6, <1>7, <1>8 DEF Others
<1> QED BY <1>9 DEF Goal

\* Others keep the invariant, and the UID whose it is.
LEMMA OthersKept ==
  ASSUME InviteInv, Others
  PROVE  TypeOK' /\ CountInv' /\ RequestInv' /\ (Ours => Ours') /\ (Theirs => Theirs')
<1>1. /\ proton \in Event /\ Within(proton', 1) /\ OtherWrites(proton')
      /\ proton' # None => proton'.org = proton.org /\ Listed(proton) \subseteq Listed(proton')
      /\ Kin(proton')
  BY OthersRow
<1>2. TypeOK /\ CountInv /\ RequestInv BY DEF InviteInv
<1>3. /\ Room \in Nat /\ stamps \in Nat /\ stamps <= Room /\ stamps' = stamps + 1
      /\ stamps' \in Stamps /\ proton.seq \in Nat /\ proton.seq <= Room
  <2>1. edits \in Nat /\ edits < MaxEdits /\ requests \in Nat /\ requests <= MaxRequests
    BY <1>1, <1>2, Bounds DEF OtherWrites, TypeOK
  <2>2. Room + 1 <= MaxRequests + MaxEdits BY <1>2, <2>1, RoomBound, Bounds DEF Room
  <2> QED BY <1>1, <1>2, <2>2, RoomBound, EventRow, Bounds DEF CountInv, Stamps, OtherWrites
<1>4. /\ agenda \in AgendaType /\ \A p \in Guests : agenda[p].seq <= Room + 1
      /\ heard \in [status : Status, stamp : Stamps] /\ lost \in [Recipients -> Stamps]
  <2>1. agenda \in AgendaType /\ heard \in [status : Status, stamp : Stamps]
        /\ lost \in [Recipients -> Stamps]
    BY <1>2 DEF TypeOK, AgendaType, Stamps
  <2>2. \A p \in Guests : agenda[p].seq \in Nat /\ agenda[p].seq <= Room
    BY <1>2, Bounds DEF TypeOK, CountInv
  <2> QED BY <1>3, <2>1, <2>2
<1>5. /\ agenda' \in AgendaType /\ \A p \in Guests : agenda'[p].seq <= Room + 1
      /\ heard' \in [status : Status, stamp : Stamps] /\ lost' \in [Recipients -> Stamps]
  <2> DEFINE Goal == /\ agenda' \in AgendaType /\ \A p \in Guests : agenda'[p].seq <= Room + 1
                     /\ heard' \in [status : Status, stamp : Stamps]
                     /\ lost' \in [Recipients -> Stamps]
  <2>1. ASSUME NEW e \in Event, NEW people, NEW seq \in 0..(Room + 1), Told(e, people, seq),
               heard' = heard
        PROVE  Goal
    BY <1>2, <1>3, <1>4, <2>1, ToldTyped
  <2>2. proton' # None => proton' \in Event /\ proton'.seq \in 0..(Room + 1)
    BY <1>1, <1>3, EventRow DEF Within
  <2>3. proton.seq + 1 \in 0..(Room + 1) BY <1>3
  <2>4. ASSUME NEW w \in Whens, OtherMoves(w) PROVE Goal
    <3>1. proton' # None
      <4>1. proton' = [proton EXCEPT !.when = w, !.seq = @ + 1]
        BY <2>4 DEF OtherMoves, OtherWrites
      <4>2. "seq" \in DOMAIN proton' BY <1>1, <4>1 DEF Event
      <4>3. "seq" \notin DOMAIN None BY DEF None
      <4> QED BY <4>2, <4>3
    <3> QED BY <2>1, <2>2, <2>4, <3>1 DEF OtherMoves
  <2>5. ASSUME NEW p \in Guests, OtherInvites(p) PROVE Goal
    <3>1. proton' # None
      <4>1. proton' = [proton EXCEPT !.att[p] = 0, !.seq = @ + 1]
        BY <2>5 DEF OtherInvites, OtherWrites
      <4>2. "seq" \in DOMAIN proton' BY <1>1, <4>1 DEF Event
      <4>3. "seq" \notin DOMAIN None BY DEF None
      <4> QED BY <4>2, <4>3
    <3> QED BY <2>1, <2>2, <2>5, <3>1 DEF OtherInvites
  <2>6. ASSUME OtherCancels PROVE Goal BY <1>4, <2>6 DEF OtherCancels
  <2>7. ASSUME OtherDeletes PROVE Goal BY <1>1, <2>1, <2>3, <2>7 DEF OtherDeletes
  <2>8. ASSUME NEW p \in People, NEW s \in Replies, OtherAnswers(p, s) PROVE Goal
    <3>1. s \in Status /\ 0 \in Stamps BY RepliesAssumption, Bounds DEF Status, Stamps
    <3>2. heard' \in [status : Status, stamp : Stamps]
      BY <1>3, <1>4, <2>8, <3>1 DEF OtherAnswers
    <3>3. lost' \in [Recipients -> Stamps] BY <1>4, <2>8, <3>1 DEF OtherAnswers
    <3>4. agenda' = agenda BY <2>8 DEF OtherAnswers
    <3> QED BY <1>4, <3>2, <3>3, <3>4
  <2> HIDE DEF Goal
  <2>9. Goal BY <2>4, <2>5, <2>6, <2>7, <2>8 DEF Others
  <2> QED BY <2>9 DEF Goal
<1>6. TypeOK' /\ CountInv' BY <1>1, <1>2, <1>5, OthersKeep
<1>7. mirror' = mirror /\ req' = req BY <1>1 DEF OtherWrites
<1>8. RequestInv' BY <1>1, <1>2, <1>7 DEF RequestInv
<1>9. Ours => Ours' BY <1>1, <1>7, NoneRow, PeopleAssumption DEF Ours
<1>10. Theirs => Theirs' BY <1>1, <1>3, <1>7, EventRow DEF Theirs
<1> QED BY <1>6, <1>8, <1>9, <1>10

-----------------------------------------------------------------------------
(* Requests begin and end.                                                  *)

\* A step of one request that leaves the room there was.
LEMMA CountKept ==
  ASSUME TypeOK, CountInv, NEW c \in Clients, NEW q \in RequestType,
         req' = [req EXCEPT ![c] = q], q.seq <= Room, q.row # None => q.row.seq <= Room,
         IsFiniteSet(Pending'), Room' \in Nat, Room <= Room', stamps' = stamps,
         Within(proton', 0), Within(mirror', 0),
         \A p \in Guests : agenda'[p].seq \in Nat /\ agenda'[p].seq <= Room
  PROVE  CountInv'
<1>1. Room \in Nat /\ stamps \in Nat /\ stamps <= Room BY RoomBound DEF CountInv
<1>2. req \in [Clients -> RequestType] BY DEF TypeOK
<1>3. /\ req' \in [Clients -> RequestType]
      /\ req'[c] = q /\ \A d \in Clients \ {c} : req'[d] = req[d]
  BY <1>2, RequestSet
<1>4. ASSUME NEW d \in Clients
      PROVE  req'[d].seq <= Room' /\ (req'[d].row # None => req'[d].row.seq <= Room')
  <2>1. req[d].seq <= Room /\ (req[d].row # None => req[d].row.seq <= Room) BY DEF CountInv
  <2>2. req[d].seq \in Nat /\ (req[d].row # None => req[d].row.seq \in Nat)
    BY <1>2, RequestFields, EventRow
  <2>3. q.seq \in Nat /\ (q.row # None => q.row.seq \in Nat) BY RequestFields, EventRow
  <2>4. CASE d # c BY <1>1, <1>3, <2>1, <2>2, <2>4
  <2>5. CASE d = c BY <1>1, <1>3, <2>3, <2>5
  <2> QED BY <2>4, <2>5
<1>5. proton' # None => proton'.seq <= Room'
  <2>1. proton' # None => proton'.seq \in Nat /\ proton'.seq <= Room + 0
    BY EventRow DEF Within
  <2> QED BY <1>1, <2>1
<1>6. mirror' # None => mirror'.seq <= Room'
  <2>1. mirror' # None => mirror'.seq \in Nat /\ mirror'.seq <= Room + 0
    BY EventRow DEF Within
  <2> QED BY <1>1, <2>1
<1>7. stamps' <= Room' BY <1>1
<1>8. \A p \in Guests : agenda'[p].seq <= Room' BY <1>1
<1> QED BY <1>4, <1>5, <1>6, <1>7, <1>8 DEF CountInv

\* What is kept for the rows and the agendas.
LEMMA WithinNow ==
  ASSUME TypeOK, CountInv
  PROVE  /\ Within(proton, 0) /\ Within(mirror, 0) /\ Within(None, 0)
         /\ \A p \in Guests : agenda[p].seq \in Nat /\ agenda[p].seq <= Room
         /\ \A c \in Clients : /\ req[c] \in RequestType /\ req[c].seq \in 0..Room
                               /\ Within(req[c].row, 0)
<1>1. Room \in Nat BY RoomBound
<1>2. ASSUME NEW e \in Event \cup {None}, e # None => e.seq <= Room PROVE Within(e, 0)
  <2>1. e # None => e.seq \in Nat BY EventRow
  <2> QED BY <1>1, <1>2, <2>1 DEF Within
<1>3. Within(proton, 0) /\ Within(mirror, 0) BY <1>2 DEF TypeOK, CountInv
<1>4. \A p \in Guests : agenda[p].seq \in Nat /\ agenda[p].seq <= Room
  BY Bounds DEF TypeOK, CountInv
<1>5. ASSUME NEW c \in Clients
      PROVE  req[c] \in RequestType /\ req[c].seq \in 0..Room /\ Within(req[c].row, 0)
  <2>1. req[c] \in RequestType BY DEF TypeOK
  <2>2. req[c].seq \in Nat /\ req[c].row \in Event \cup {None} BY <2>1, RequestFields
  <2> QED BY <1>1, <1>2, <2>1, <2>2 DEF CountInv
<1> QED BY <1>2, <1>3, <1>4, <1>5 DEF Within

\* A request begins, with what it holds then.
LEMMA BeginKeeps ==
  ASSUME TypeOK, CountInv, NEW c \in Clients, req[c].pc = "idle",
         requests < MaxRequests, requests' = requests + 1,
         NEW q \in RequestType, q.pc # "mail", q.seq = 0, Within(q.row, 0),
         req' = [req EXCEPT ![c] = q],
         UNCHANGED <<proton, mirror, agenda, heard, quota, sent, lost, raced, crossed,
                     now, stamps, edits, faults>>
  PROVE  /\ TypeOK' /\ CountInv' /\ req'[c] = q
         /\ \A d \in Clients \ {c} : req'[d] = req[d]
<1>1. Room \in Nat /\ requests \in Nat /\ edits \in Nat /\ Cardinality(Pending) \in Nat
      /\ IsFiniteSet(Pending)
  BY RoomBound DEF CountInv
<1>2. req \in [Clients -> RequestType] BY DEF TypeOK
<1>3. /\ req' \in [Clients -> RequestType]
      /\ req'[c] = q /\ \A d \in Clients \ {c} : req'[d] = req[d]
  BY <1>2, RequestSet
<1>4. IsFiniteSet(Pending') /\ Room' \in Nat /\ Room <= Room'
  <2>1. CASE q.pc = "idle"
    <3>1. Pending' = Pending BY <1>3, <2>1, NoWrite
    <3> QED BY <1>1, <3>1 DEF Room
  <2>2. CASE q.pc # "idle"
    <3>1. IsFiniteSet(Pending') /\ Cardinality(Pending') = Cardinality(Pending) + 1
      BY <1>1, <1>3, <2>2, WriteBegun
    <3> QED BY <1>1, <3>1 DEF Room
  <2> QED BY <2>1, <2>2
<1>5. requests' \in 0..MaxRequests BY <1>1, Bounds
<1>6. TypeOK' BY <1>3, <1>5 DEF TypeOK
<1>7. q.row # None => q.row.seq <= Room
  <2>1. q.row # None => q.row.seq \in Nat /\ q.row.seq <= Room + 0 BY EventRow DEF Within
  <2> QED BY <1>1, <2>1
<1>8. CountInv'
  <2>1. /\ Within(proton', 0) /\ Within(mirror', 0)
        /\ \A p \in Guests : agenda'[p].seq \in Nat /\ agenda'[p].seq <= Room
    BY WithinNow
  <2>2. q.seq <= Room BY <1>1
  <2> QED BY <1>4, <1>7, <2>1, <2>2, CountKept
<1> QED BY <1>3, <1>6, <1>8

\* A request ends, with nothing written.
LEMMA EndKeeps ==
  ASSUME TypeOK, CountInv, NEW c \in Clients, req[c].pc \notin {"idle", "mail"},
         req' = [req EXCEPT ![c] = Idle], mirror' \in {mirror, None},
         faults' \in 0..MaxFaults,
         UNCHANGED <<proton, agenda, heard, quota, sent, lost, raced, crossed, now, stamps,
                     requests, edits>>
  PROVE  /\ TypeOK' /\ CountInv' /\ req'[c] = Idle
         /\ \A d \in Clients \ {c} : req'[d] = req[d]
<1>1. Room \in Nat /\ requests \in Nat /\ edits \in Nat /\ Cardinality(Pending) \in Nat
      /\ IsFiniteSet(Pending)
  BY RoomBound DEF CountInv
<1>2. req \in [Clients -> RequestType] BY DEF TypeOK
<1>3. /\ req' \in [Clients -> RequestType]
      /\ req'[c] = Idle /\ \A d \in Clients \ {c} : req'[d] = req[d]
  BY <1>2, RequestSet, IdleTyped
<1>4. IsFiniteSet(Pending') /\ Room' \in Nat /\ Room <= Room'
  <2>1. IsFiniteSet(Pending') /\ Cardinality(Pending') = Cardinality(Pending) - 1
    BY <1>1, <1>3, IdleTyped, WriteDone
  <2> QED BY <1>1, <2>1 DEF Room
<1>5. TypeOK' BY <1>3 DEF TypeOK
<1>6. CountInv'
  <2>1. /\ Within(proton', 0) /\ Within(mirror', 0)
        /\ \A p \in Guests : agenda'[p].seq \in Nat /\ agenda'[p].seq <= Room
    BY WithinNow
  <2>2. Idle \in RequestType /\ Idle.seq <= Room /\ Idle.row = None BY <1>1, IdleTyped
  <2> QED BY <1>4, <2>1, <2>2, CountKept
<1> QED BY <1>3, <1>5, <1>6

\* A request that a PUT lets through, for payload p after raw, of which the policy
\* says pc.
Entered(pc, raw) ==
  [Idle EXCEPT !.pc = pc, !.row = proton,
               !.pay = IF pc = "answer" THEN None ELSE Stripped(raw),
               !.reply = IF pc = "answer" THEN raw.att[Me] ELSE 0,
               !.plan = ~Unconcerned(Stripped(raw), proton)]

PolicyOf(raw) ==
  IF IsAnswer(raw, proton) THEN "answer"
  ELSE IF CancelledByOrganizer(proton) THEN "drop"
  ELSE IF Refused(Stripped(raw), proton) THEN "idle"
  ELSE IF proton = None THEN "create" ELSE "update"

LEMMA PutStartIs ==
  ASSUME NEW c \in Clients, PutStart(c)
  PROVE  \E raw \in IF mirror = None THEN Drafts ELSE Payloads(mirror) :
           req' = [req EXCEPT ![c] = IF PolicyOf(raw) = "idle" THEN Idle
                                     ELSE Entered(PolicyOf(raw), raw)]
BY DEF PutStart, PolicyOf, Entered

\* What the policy lets through.
LEMMA PolicyAdmits ==
  ASSUME InviteInv, NEW raw \in IF mirror = None THEN Drafts ELSE Payloads(mirror),
         NEW pc, pc = PolicyOf(raw), pc # "idle", NEW q, q = Entered(pc, raw)
  PROVE  /\ q \in RequestType /\ q.pc = pc /\ pc # "mail" /\ q.seq = 0 /\ q.row = proton
         /\ Admitted(q)
         /\ q.due = <<{}, {}, {}>> /\ q.stamp = 0
         /\ q.pc = "answer" => Foreign(proton)
         /\ q.pc = "create" => proton = None
         /\ q.pc = "drop" => proton.org = Third
         /\ Foreign(proton) /\ q.pc = "update" => ~q.plan
         /\ mirror.org # Third => q.pay.org # Third
<1> DEFINE p == Stripped(raw)
           pay == IF pc = "answer" THEN None ELSE p
           reply == IF pc = "answer" THEN raw.att[Me] ELSE 0
<1>1. mirror \in Event \cup {None} /\ proton \in Event \cup {None} /\ Kin(mirror) /\ Kin(proton)
  BY DEF InviteInv, TypeOK, RequestInv
<1>2. /\ raw \in Event /\ p \in Event /\ Own(p)
      /\ mirror.org # Third => p.org # Third
  BY <1>1, PayloadOwn
<1>3. pc \in {"answer", "drop", "create", "update"} BY DEF PolicyOf
<1>4. pc = "answer" => /\ Foreign(proton) /\ reply \in Status /\ reply # Absent
  <2>1. ASSUME pc = "answer" PROVE IsAnswer(raw, proton) BY <2>1 DEF PolicyOf
  <2>2. ASSUME pc = "answer" PROVE Me \in Listed(raw) BY <2>1, <2>2 DEF IsAnswer, Answers
  <2>3. ASSUME pc = "answer" PROVE Foreign(proton) BY <2>1, <2>3 DEF IsAnswer
  <2>4. ASSUME pc = "answer" PROVE reply = raw.att[Me] /\ reply \in Status /\ reply # Absent
    BY <1>2, <2>2, <2>4, EventRow
  <2> QED BY <2>3, <2>4
<1>5. reply \in Status /\ pay \in Event \cup {None}
  <2>1. 0 \in Status BY DEF Status
  <2> QED BY <1>2, <1>4, <2>1
<1>6. q = [pc |-> pc, pay |-> pay, row |-> proton, plan |-> ~Unconcerned(p, proton),
           reply |-> reply, due |-> <<{}, {}, {}>>, seq |-> 0, stamp |-> 0]
  BY DEF Entered, Idle
<1>7. /\ q.pc = pc /\ q.pay = pay /\ q.row = proton /\ q.reply = reply
      /\ q.due = <<{}, {}, {}>> /\ q.seq = 0 /\ q.stamp = 0
  <2> HIDE DEF p, pay, reply
  <2> QED BY <1>6
<1>8. q.plan <=> ~Unconcerned(p, proton)
  <2> DEFINE planned == ~Unconcerned(p, proton)
  <2>1. q = [pc |-> pc, pay |-> pay, row |-> proton, plan |-> planned,
             reply |-> reply, due |-> <<{}, {}, {}>>, seq |-> 0, stamp |-> 0]
    BY <1>6
  <2> HIDE DEF p, pay, reply, planned
  <2>2. q.plan = planned BY <2>1
  <2>3. q.plan <=> planned BY <2>2, Zenon
  <2> QED BY <2>3 DEF planned
<1>9. q \in RequestType
  <2>1. /\ <<{}, {}, {}>> \in [1..3 -> SUBSET Recipients] /\ 0 \in Stamps /\ 0 \in 0..MaxSeq
    BY Bounds DEF Stamps
  <2> HIDE DEF p, pay, reply
  <2> QED BY <1>1, <1>3, <1>5, <1>6, <2>1 DEF RequestType, Stamps
<1>10. pc = "create" => proton = None BY DEF PolicyOf
<1>11. pc = "update" => proton # None /\ ~Refused(p, proton)
  BY DEF PolicyOf
<1>12. pc = "drop" => proton.org = Third
  <2>1. pc = "drop" => CancelledByOrganizer(proton) BY DEF PolicyOf
  <2> QED BY <2>1 DEF CancelledByOrganizer
<1>13. pc = "update" /\ ~Unconcerned(p, proton) => ~Foreign(proton)
  BY <1>11 DEF Refused
<1>14. Foreign(proton) => proton # None BY NoneRow DEF Foreign
<1>15. p # None BY <1>2, EventRow
<1>16. pc = "create" /\ Unconcerned(p, proton) => Listed(p) = {}
  BY <1>10 DEF Unconcerned, OccurrenceDeletionOnly
<1> HIDE DEF p, reply
<1>17. Admitted(q)
  <2>1. Own(q.pay) BY <1>2, <1>7 DEF Own
  <2>2. Kin(q.row) BY <1>1, <1>7
  <2>3. q.pc = "create" => q.pay # None /\ q.row = None BY <1>7, <1>10, <1>15
  <2>4. q.pc = "update" => q.pay # None /\ q.row # None BY <1>7, <1>11, <1>15
  <2>5. q.pc = "update" /\ q.plan => Listed(q.row) = {} \/ q.row.org = Me
    BY <1>7, <1>8, <1>13 DEF Foreign
  <2>6. q.pc = "update" /\ ~q.plan => Unconcerned(q.pay, q.row) BY <1>7, <1>8
  <2>7. q.pc = "create" /\ ~q.plan => Listed(q.pay) = {} BY <1>7, <1>8, <1>16
  <2>8. q.pc = "answer" => q.row # None /\ q.reply # Absent BY <1>4, <1>7, <1>14
  <2>9. q.pc # "delete" /\ (q.pc = "drop" => q.row.org = Third) BY <1>3, <1>7, <1>12
  <2>10. q.pc # "idle" /\ q.pay = None => q.row # None
    BY <1>4, <1>7, <1>14, <1>15
  <2> QED BY <2>1, <2>2, <2>3, <2>4, <2>5, <2>6, <2>7, <2>8, <2>9, <2>10 DEF Admitted
<1>18. Foreign(proton) /\ q.pc = "update" => ~q.plan BY <1>7, <1>8, <1>13
<1>19. mirror.org # Third => q.pay.org # Third
  BY <1>2, <1>7, NoneRow, PeopleAssumption
<1> QED BY <1>3, <1>4, <1>7, <1>9, <1>10, <1>12, <1>17, <1>18, <1>19

LEMMA PutStarts ==
  ASSUME InviteInv, NEW c \in Clients, PutStart(c)
  PROVE  /\ TypeOK' /\ CountInv' /\ RequestInv' /\ (Ours => Ours') /\ (Theirs => Theirs')
         /\ \A d \in Clients \ {c} : req'[d] = req[d]
         /\ req'[c].pc # "mail" /\ req'[c].due = <<{}, {}, {}>> /\ req'[c].stamp = 0
<1>1. PICK raw \in IF mirror = None THEN Drafts ELSE Payloads(mirror) :
        req' = [req EXCEPT ![c] = IF PolicyOf(raw) = "idle" THEN Idle
                                  ELSE Entered(PolicyOf(raw), raw)]
  BY PutStartIs
<1> DEFINE q == IF PolicyOf(raw) = "idle" THEN Idle ELSE Entered(PolicyOf(raw), raw)
<1>2. TypeOK /\ CountInv /\ RequestInv BY DEF InviteInv
<1>3. /\ q \in RequestType /\ q.pc # "mail" /\ q.seq = 0 /\ Within(q.row, 0) /\ Admitted(q)
      /\ q.due = <<{}, {}, {}>> /\ q.stamp = 0
      /\ q.pc = "answer" => Foreign(proton)
      /\ q.pc = "create" => proton = None
      /\ Foreign(proton) /\ q.pc = "update" => ~q.plan
      /\ mirror.org # Third => q.pay.org # Third
      /\ q.row \in {proton, None}
  <2>1. CASE PolicyOf(raw) = "idle"
    <3>1. q = Idle BY <2>1
    <3>2. Within(None, 0) BY <1>2, WithinNow
    <3> HIDE DEF q
    <3>3. q.pc = "idle" /\ q.pay.org # Third BY <3>1, IdleTyped, NoneRow, PeopleAssumption
    <3>4. /\ q \in RequestType /\ q.seq = 0 /\ Within(q.row, 0) /\ Admitted(q)
          /\ q.due = <<{}, {}, {}>> /\ q.stamp = 0 /\ q.row = None
      BY <3>1, <3>2, IdleTyped
    <3> QED BY <3>3, <3>4
  <2>2. CASE PolicyOf(raw) # "idle"
    <3>1. q = Entered(PolicyOf(raw), raw) BY <2>2
    <3>2. Within(proton, 0) BY <1>2, WithinNow
    <3> HIDE DEF q
    <3> QED BY <1>1, <2>2, <3>1, <3>2, PolicyAdmits
  <2> QED BY <2>1, <2>2
<1>4. req' = [req EXCEPT ![c] = q] BY <1>1
<1> HIDE DEF q
<1>5. /\ TypeOK' /\ CountInv' /\ req'[c] = q /\ \A d \in Clients \ {c} : req'[d] = req[d]
  BY <1>2, <1>3, <1>4, BeginKeeps DEF PutStart
<1>6. proton' = proton /\ mirror' = mirror /\ stamps' = stamps BY DEF PutStart
<1>7. RequestInv' BY <1>2, <1>3, <1>5, <1>6 DEF RequestInv
<1>8. Ours => Ours'
  <2>1. ASSUME Ours PROVE ~Foreign(proton)
    <3>1. proton \in Event \cup {None} /\ Kin(proton) BY <1>2 DEF TypeOK, RequestInv
    <3> QED BY <2>1, <3>1, EventRow, NoneRow DEF Ours, Foreign, Kin
  <2> QED BY <1>3, <1>5, <1>6, <2>1, NoneRow, PeopleAssumption DEF Ours
<1>9. Theirs => Theirs'
  <2>1. ASSUME Theirs PROVE Foreign(proton)
    <3>1. proton # None BY <2>1 DEF PutStart, Theirs
    <3> QED BY <2>1, <3>1, PeopleAssumption DEF Theirs, Foreign
  <2>2. ASSUME Theirs PROVE q.pc # "create" BY <1>3, <2>1, <2>2, NoneRow DEF Foreign
  <2> QED BY <1>3, <1>5, <1>6, <2>1, <2>2 DEF Theirs
<1> QED BY <1>3, <1>5, <1>7, <1>8, <1>9

-----------------------------------------------------------------------------
(* The calls that write.                                                    *)

\* Who may be told by mail: an event without the owner among its invitees has
\* guests only.
LEMMA GuestsOnly ==
  ASSUME NEW e \in Event, Me \notin Listed(e)
  PROVE  Listed(e) \subseteq Guests /\ Listed(e) \subseteq Recipients
BY EventRow DEF People, Recipients

LEMMA NobodyDue == <<{}, {}, {}>> \in [1..3 -> SUBSET Recipients]
OBVIOUS

\* A call that reached Proton keeps the invariant, if it leaves rows of a kind
\* there may be.
LEMMA WroteStep ==
  ASSUME InviteInv, NEW c \in Clients, req[c].pc \notin {"idle", "mail"},
         NEW new, NEW instead, Within(new, 1), Within(instead, 1), Kin(new), Kin(instead),
         NEW due \in [1..3 -> SUBSET Recipients], NEW seq \in 0..(Room + 1),
         Wrote(c, new, instead, due, seq), raced' \in BOOLEAN,
         Ours => new.org # Third /\ instead.org # Third,
         Theirs => new = None \/ (new.org = Third /\ Listed(new) # {})
  PROVE  /\ TypeOK' /\ CountInv' /\ RequestInv' /\ (Ours => Ours') /\ (Theirs => Theirs')
         /\ proton' = new
         /\ Posted(c, due, seq) \/ req'[c] = Idle
         /\ \A d \in Clients \ {c} : req'[d] = req[d]
         /\ stamps' = IF new = proton THEN stamps ELSE stamps + 1
<1>1. TypeOK /\ CountInv /\ RequestInv BY DEF InviteInv
<1>2. /\ TypeOK' /\ CountInv'
      /\ proton' = new /\ mirror' \in {new, instead, mirror}
      /\ Posted(c, due, seq) \/ req'[c] = Idle
      /\ \A d \in Clients \ {c} : req'[d] = req[d]
      /\ stamps' = IF new = proton THEN stamps ELSE stamps + 1
  BY <1>1, WroteKeeps
<1>3. Admitted(req'[c])
  <2>1. Admitted(req[c]) BY <1>1 DEF RequestInv
  <2>2. CASE Posted(c, due, seq) BY <2>1, <2>2 DEF Posted, Admitted
  <2> QED BY <1>2, <2>2, IdleTyped
<1>4. RequestInv' BY <1>1, <1>2, <1>3 DEF RequestInv
<1>5. /\ req'[c].pc \in {"mail", "idle"}
      /\ req'[c].pay \in {req[c].pay, None} /\ req'[c].row \in {req[c].row, None}
  BY <1>2, IdleTyped DEF Posted
<1>6. Ours => Ours' BY <1>2, <1>5, NoneRow, PeopleAssumption DEF Ours
<1>7. Theirs => Theirs'
  <2>1. stamps \in Nat BY <1>1, RoomBound
  <2> QED BY <1>2, <1>5, <2>1, NoneRow DEF Theirs
<1> QED BY <1>2, <1>4, <1>6, <1>7

\* An update, by the arguments of its call.
NewsOf(c) == Merged(req[c].pay, req[c].row)
DueOf(c) == IF req[c].plan THEN Plan(req[c].pay, req[c].row).due ELSE <<{}, {}, {}>>
SeqOf(c) == IF req[c].plan THEN Plan(req[c].pay, req[c].row).seq ELSE 0

LEMMA UpdateIs ==
  ASSUME InviteInv, NEW c \in Clients, Update(c)
  PROVE  /\ req[c].pay \in Event /\ req[c].row \in Event /\ proton \in Event
         /\ Own(req[c].pay) /\ Kin(req[c].row) /\ Kin(proton)
         /\ NewsOf(c) \in Event /\ Listed(NewsOf(c)) = Listed(req[c].pay)
         /\ NewsOf(c).org = req[c].pay.org
         /\ DueOf(c) \in [1..3 -> SUBSET Recipients] /\ SeqOf(c) \in 0..(Room + 1)
         /\ \E replace \in BOOLEAN :
              /\ replace <=> req[c].plan /\ Listed(req[c].pay) # Listed(req[c].row)
              /\ Wrote(c, Patched(proton, NewsOf(c), replace), Synthesized(NewsOf(c)),
                       DueOf(c), SeqOf(c))
<1>1. TypeOK /\ CountInv /\ Kin(proton) /\ Admitted(req[c]) /\ req[c].pc = "update"
  BY DEF InviteInv, RequestInv, Update
<1>2. req[c] \in RequestType BY <1>1 DEF TypeOK
<1>3. req[c].pay \in Event /\ req[c].row \in Event /\ Own(req[c].pay) /\ Kin(req[c].row)
  BY <1>1, <1>2, RequestFields DEF Admitted
<1>4. proton \in Event BY <1>1 DEF TypeOK, Update
<1>5. /\ NewsOf(c) \in Event /\ Listed(NewsOf(c)) = Listed(req[c].pay)
      /\ NewsOf(c).org = req[c].pay.org
  BY <1>3, MergedTyped DEF NewsOf
<1>6. DueOf(c) \in [1..3 -> SUBSET Recipients]
  <2>1. CASE req[c].plan
    <3>1. Listed(req[c].row) = {} \/ req[c].row.org = Me BY <1>1, <2>1 DEF Admitted
    <3>2. Me \notin Listed(req[c].row) BY <1>3, <3>1, EventRow, PeopleAssumption DEF Kin
    <3>3. Me \notin Listed(req[c].pay) BY <1>3, EventRow DEF Own
    <3>4. Listed(req[c].row) \subseteq Recipients /\ Listed(req[c].pay) \subseteq Recipients
      BY <1>3, <3>2, <3>3, GuestsOnly
    <3> DEFINE due == Plan(req[c].pay, req[c].row).due
    <3>5. /\ due[1] = Listed(req[c].row) \ Listed(req[c].pay)
          /\ due[2] = Listed(req[c].pay) \ Listed(req[c].row)
          /\ due[3] \subseteq Listed(req[c].pay)
          /\ due \in [1..3 -> SUBSET People]
      <4>1. ASSUME NEW p \in Event, NEW r \in Event
            PROVE  Plan(p, r).due[3] \subseteq Listed(p)
        BY PlanIs
      <4>2. due[3] \subseteq Listed(req[c].pay) BY <1>3, <4>1
      <4>3. due[1] = Listed(req[c].row) \ Listed(req[c].pay) BY <1>3, PlanIs
      <4>4. due[2] = Listed(req[c].pay) \ Listed(req[c].row) BY <1>3, PlanIs
      <4>5. due \in [1..3 -> SUBSET People] BY <1>3, PlanIs
      <4> QED BY <4>2, <4>3, <4>4, <4>5
    <3>6. DueOf(c) = due BY <2>1 DEF DueOf
    <3> HIDE DEF due
    <3>7. \A i \in 1..3 : due[i] \subseteq Recipients
      <4>1. due[1] \subseteq Recipients /\ due[2] \subseteq Recipients /\ due[3] \subseteq Recipients
        BY <3>4, <3>5
      <4>2. \A i \in 1..3 : i = 1 \/ i = 2 \/ i = 3 OBVIOUS
      <4> QED BY <4>1, <4>2
    <3> QED BY <3>5, <3>6, <3>7
  <2>2. CASE ~req[c].plan
    <3>1. DueOf(c) = <<{}, {}, {}>> BY <2>2 DEF DueOf
    <3> QED BY <3>1, NobodyDue
  <2> QED BY <2>1, <2>2
<1>7. SeqOf(c) \in 0..(Room + 1)
  <2>1. Room \in Nat /\ req[c].row.seq \in Nat /\ req[c].row.seq <= Room
    BY <1>1, <1>3, EventRow, RoomBound DEF CountInv
  <2>2. CASE req[c].plan
    <3>1. SeqOf(c) = Plan(req[c].pay, req[c].row).seq BY <2>2 DEF SeqOf
    <3>2. SeqOf(c) \in {req[c].row.seq, req[c].row.seq + 1} BY <1>3, <3>1, PlanIs
    <3> QED BY <2>1, <3>2
  <2>3. CASE ~req[c].plan
    <3>1. SeqOf(c) = 0 BY <2>3 DEF SeqOf
    <3> QED BY <2>1, <3>1
  <2> QED BY <2>2, <2>3
<1>8. \E replace \in BOOLEAN :
        /\ replace <=> req[c].plan /\ Listed(req[c].pay) # Listed(req[c].row)
        /\ Wrote(c, Patched(proton, NewsOf(c), replace), Synthesized(NewsOf(c)),
                 DueOf(c), SeqOf(c))
  <2> DEFINE changed == Plan(req[c].pay, req[c].row).due[1] \cup Plan(req[c].pay, req[c].row).due[2] # {}
  <2>1. changed <=> Listed(req[c].pay) # Listed(req[c].row)
    BY <1>3, PlanIs
  <2>2. CASE req[c].plan
    <3>1. Wrote(c, Patched(proton, NewsOf(c), changed), Synthesized(NewsOf(c)),
                Plan(req[c].pay, req[c].row).due, Plan(req[c].pay, req[c].row).seq)
      BY <2>2 DEF Update, NewsOf
    <3>2. DueOf(c) = Plan(req[c].pay, req[c].row).due /\ SeqOf(c) = Plan(req[c].pay, req[c].row).seq
      BY <2>2 DEF DueOf, SeqOf
    <3>3. changed \in BOOLEAN OBVIOUS
    <3> HIDE DEF changed
    <3>4. Wrote(c, Patched(proton, NewsOf(c), changed), Synthesized(NewsOf(c)),
                DueOf(c), SeqOf(c))
      BY <3>1, <3>2
    <3> QED BY <2>1, <2>2, <3>3, <3>4
  <2>3. CASE ~req[c].plan
    <3>1. Wrote(c, Patched(proton, NewsOf(c), FALSE), Synthesized(NewsOf(c)), <<{}, {}, {}>>, 0)
      BY <2>3 DEF Update, NewsOf
    <3>2. DueOf(c) = <<{}, {}, {}>> /\ SeqOf(c) = 0
      BY <2>3 DEF DueOf, SeqOf
    <3>3. Wrote(c, Patched(proton, NewsOf(c), FALSE), Synthesized(NewsOf(c)), DueOf(c), SeqOf(c))
      BY <3>1, <3>2
    <3> QED BY <2>3, <3>3, Zenon
  <2> QED BY <2>2, <2>3
<1> QED BY <1>1, <1>3, <1>4, <1>5, <1>6, <1>7, <1>8

\* What every step keeps, and the outcome of one that wrote.
Kept == TypeOK' /\ CountInv' /\ RequestInv' /\ (Ours => Ours') /\ (Theirs => Theirs')

Came(c, new, due, seq) ==
  /\ proton' = new
  /\ Posted(c, due, seq) \/ req'[c] = Idle
  /\ \A d \in Clients \ {c} : req'[d] = req[d]
  /\ stamps' = IF new = proton THEN stamps ELSE stamps + 1

LEMMA UpdateKept ==
  ASSUME InviteInv, NEW c \in Clients, Update(c)
  PROVE  /\ Kept
         /\ \E replace \in BOOLEAN :
              /\ replace <=> req[c].plan /\ Listed(req[c].pay) # Listed(req[c].row)
              /\ Wrote(c, Patched(proton, NewsOf(c), replace), Synthesized(NewsOf(c)),
                       DueOf(c), SeqOf(c))
              /\ Came(c, Patched(proton, NewsOf(c), replace), DueOf(c), SeqOf(c))
<1>1. /\ req[c].pay \in Event /\ req[c].row \in Event /\ proton \in Event
      /\ Own(req[c].pay) /\ Kin(req[c].row) /\ Kin(proton)
      /\ NewsOf(c) \in Event /\ Listed(NewsOf(c)) = Listed(req[c].pay)
      /\ NewsOf(c).org = req[c].pay.org
      /\ DueOf(c) \in [1..3 -> SUBSET Recipients] /\ SeqOf(c) \in 0..(Room + 1)
  BY UpdateIs
<1>2. PICK replace \in BOOLEAN :
              /\ replace <=> req[c].plan /\ Listed(req[c].pay) # Listed(req[c].row)
              /\ Wrote(c, Patched(proton, NewsOf(c), replace), Synthesized(NewsOf(c)),
                       DueOf(c), SeqOf(c))
  BY UpdateIs
<1>3. /\ TypeOK /\ CountInv /\ req[c].pc = "update" /\ mirror \in Event \cup {None}
      /\ Admitted(req[c])
  BY DEF InviteInv, Update, TypeOK, RequestInv
<1> DEFINE new == Patched(proton, NewsOf(c), replace)
           instead == Synthesized(NewsOf(c))
           people == replace /\ Listed(NewsOf(c)) # Listed(proton)
<1>4. /\ Room \in Nat /\ Room + 1 <= MaxSeq
      /\ proton.seq \in Nat /\ proton.seq <= Room
      /\ mirror # None => mirror.seq \in Nat /\ mirror.seq <= Room
  BY <1>1, <1>3, RoomBound, EventRow DEF CountInv
<1>5. /\ new \in Event /\ new.seq \in {proton.seq, proton.seq + 1}
      /\ ~people => new.att = proton.att /\ new.org = proton.org
      /\ people => /\ Listed(new) = Listed(NewsOf(c))
                   /\ new.org = IF Listed(NewsOf(c)) = {} THEN Nobody
                                ELSE IF proton.org = Nobody THEN NewsOf(c).org ELSE proton.org
  <2>1. proton.seq < MaxSeq BY <1>4, Bounds
  <2>2. new \in Event BY <1>1, <2>1, PatchedTyped
  <2>3. new.seq \in {proton.seq, proton.seq + 1} BY <1>1, <2>1, PatchedTyped
  <2>4. ~people => new.att = proton.att /\ new.org = proton.org BY <1>1, <2>1, PatchedTyped
  <2>5. people => Listed(new) = Listed(NewsOf(c)) BY <1>1, <2>1, PatchedTyped
  <2>6. people => new.org = IF Listed(NewsOf(c)) = {} THEN Nobody
                            ELSE IF proton.org = Nobody THEN NewsOf(c).org ELSE proton.org
    BY <1>1, <2>1, PatchedTyped
  <2> QED BY <2>2, <2>3, <2>4, <2>5, <2>6
<1>6. /\ instead \in Event /\ Listed(instead) = Listed(NewsOf(c)) /\ instead.org = NewsOf(c).org
      /\ instead.seq = IF mirror = None THEN 0 ELSE mirror.seq + 1
  <2>1. mirror # None => mirror.seq < MaxSeq BY <1>4, Bounds
  <2> QED BY <1>1, <1>3, <2>1, SynthesizedTyped
<1> HIDE DEF new, instead
<1>7. Within(new, 1) /\ Within(instead, 1) BY <1>4, <1>5, <1>6 DEF Within
<1>8. /\ Listed(NewsOf(c)) # {} => NewsOf(c).org = Me
      /\ Me \notin Listed(NewsOf(c))
  BY <1>1, EventRow DEF Own
<1>9. Kin(instead) BY <1>6, <1>8, PeopleAssumption DEF Kin
<1>10. ~people => Listed(new) = Listed(proton) BY <1>1, <1>5, ListedOf
<1>11. Kin(new)
  <2>1. proton # None BY <1>1, EventRow
  <2>2. CASE people BY <1>5, <1>8, <2>2, PeopleAssumption DEF Kin
  <2>3. CASE ~people BY <1>1, <1>5, <1>10, <2>1, <2>3 DEF Kin
  <2> QED BY <2>2, <2>3
<1>12. Ours => new.org # Third /\ instead.org # Third
  <2>1. Ours => proton.org # Third /\ NewsOf(c).org # Third BY <1>1 DEF Ours
  <2> QED BY <1>5, <1>6, <2>1, PeopleAssumption
<1>13. Theirs => new = None \/ (new.org = Third /\ Listed(new) # {})
  <2>1. Theirs => proton.org = Third /\ Listed(proton) # {} /\ ~replace
    BY <1>1, <1>2, <1>3, EventRow DEF Theirs
  <2> QED BY <1>5, <1>10, <2>1
<1>14. raced' \in BOOLEAN BY <1>3 DEF Update, TypeOK
<1>15. Wrote(c, new, instead, DueOf(c), SeqOf(c)) BY <1>2 DEF new, instead
<1>16. Kept /\ Came(c, new, DueOf(c), SeqOf(c))
  BY <1>1, <1>3, <1>7, <1>9, <1>11, <1>12, <1>13, <1>14, <1>15, WroteStep DEF Kept, Came
<1> QED BY <1>2, <1>16 DEF new

\* What a call about the request of c finds.
LEMMA CallOn ==
  ASSUME InviteInv, NEW c \in Clients
  PROVE  /\ TypeOK /\ CountInv /\ RequestInv /\ Admitted(req[c])
         /\ req[c] \in RequestType
         /\ req[c].pay \in Event \cup {None} /\ req[c].row \in Event \cup {None}
         /\ Own(req[c].pay) /\ Kin(req[c].row) /\ Kin(proton) /\ Kin(mirror)
         /\ proton \in Event \cup {None} /\ mirror \in Event \cup {None}
         /\ raced \in BOOLEAN /\ faults \in 0..MaxFaults
         /\ Room \in Nat /\ Room + 1 <= MaxSeq
         /\ proton # None => proton.seq \in Nat /\ proton.seq <= Room
         /\ mirror # None => mirror.seq \in Nat /\ mirror.seq <= Room
         /\ req[c].row # None => req[c].row.seq \in Nat /\ req[c].row.seq <= Room
<1>1. TypeOK /\ CountInv /\ RequestInv BY DEF InviteInv
<1>2. Admitted(req[c]) /\ req[c] \in RequestType /\ Kin(proton) /\ Kin(mirror)
  BY <1>1 DEF RequestInv, TypeOK
<1>3. /\ req[c].pay \in Event \cup {None} /\ req[c].row \in Event \cup {None}
      /\ Own(req[c].pay) /\ Kin(req[c].row)
  BY <1>2, RequestFields DEF Admitted
<1>4. /\ proton \in Event \cup {None} /\ mirror \in Event \cup {None}
      /\ raced \in BOOLEAN /\ faults \in 0..MaxFaults
  BY <1>1 DEF TypeOK
<1>5. /\ Room \in Nat /\ Room + 1 <= MaxSeq BY <1>1, RoomBound
<1>6. /\ proton # None => proton.seq \in Nat /\ proton.seq <= Room
      /\ mirror # None => mirror.seq \in Nat /\ mirror.seq <= Room
      /\ req[c].row # None => req[c].row.seq \in Nat /\ req[c].row.seq <= Room
  BY <1>1, <1>3, <1>4, EventRow DEF CountInv
<1> QED BY <1>1, <1>2, <1>3, <1>4, <1>5, <1>6

LEMMA AnswerKept ==
  ASSUME InviteInv, NEW c \in Clients, Answer(c)
  PROVE  /\ Kept
         /\ LET new == WithStatus(proton, Me, req[c].reply)
            IN  /\ new \in Event /\ Listed(new) = Listed(proton) \cup {Me}
                /\ new.att[Me] = req[c].reply
                /\ Wrote(c, new, mirror, <<{}, {}, {Third}>>, req[c].row.seq)
                /\ Came(c, new, <<{}, {}, {Third}>>, req[c].row.seq)
<1> DEFINE new == WithStatus(proton, Me, req[c].reply)
           due == <<{}, {}, {Third}>>
<1>1. /\ req[c].pc = "answer" /\ proton \in Event /\ Wrote(c, new, mirror, due, req[c].row.seq)
      /\ raced' = raced
  BY CallOn DEF Answer, WithStatus
<1>2. /\ req[c].reply \in Status /\ req[c].reply # Absent /\ req[c].row # None
  BY <1>1, CallOn, RequestFields DEF Admitted
<1>3. Me \in People BY DEF People
<1>4. /\ new \in Event /\ new.org = proton.org /\ new.seq = proton.seq
      /\ Listed(new) = Listed(proton) \cup {Me}
      /\ new.att = [proton.att EXCEPT ![Me] = req[c].reply]
  BY <1>1, <1>2, <1>3, RowAnswered
<1>5. new.att[Me] = req[c].reply BY <1>1, <1>3, <1>4, EventRow
<1> HIDE DEF new
<1>6. ~Ours BY <1>1 DEF Ours
<1>7. Theirs BY <1>6 DEF InviteInv
<1>8. proton.org = Third /\ Listed(proton) # {} BY <1>1, <1>7, EventRow DEF Theirs
<1>9. Within(new, 1) /\ Within(mirror, 1) BY <1>1, <1>4, CallOn, EventRow DEF Within
<1>10. Kin(new) /\ Kin(mirror) BY <1>4, <1>8, CallOn, PeopleAssumption DEF Kin
<1>11. due \in [1..3 -> SUBSET Recipients]
  <2>1. {Third} \in SUBSET Recipients BY DEF Recipients
  <2> QED BY <2>1
<1>12. req[c].row.seq \in 0..(Room + 1) BY <1>2, CallOn
<1> HIDE DEF due
<1>13. Kept /\ Came(c, new, due, req[c].row.seq)
  <2>1. raced' \in BOOLEAN BY <1>1, CallOn
  <2>2. req[c].pc \notin {"idle", "mail"} BY <1>1
  <2> QED BY <1>1, <1>4, <1>6, <1>8, <1>9, <1>10, <1>11, <1>12, <2>1, <2>2, WroteStep
           DEF Kept, Came
<1> QED BY <1>1, <1>4, <1>5, <1>13 DEF new, due

LEMMA DropKept ==
  ASSUME InviteInv, NEW c \in Clients, Drop(c)
  PROVE  Kept /\ Came(c, None, <<{}, {}, {}>>, 0) /\ Theirs
<1>1. req[c].pc = "drop" /\ Wrote(c, None, None, <<{}, {}, {}>>, 0) /\ raced' = raced
  BY DEF Drop
<1>2. Within(None, 1) /\ Kin(None) /\ 0 \in 0..(Room + 1) /\ raced' \in BOOLEAN
      /\ req[c].row.org = Third /\ None.org # Third
  BY <1>1, CallOn, NoneRow, PeopleAssumption DEF Within, Kin, Admitted
<1>3. Theirs BY <1>2 DEF InviteInv, Ours
<1>4. req[c].pc \notin {"idle", "mail"} BY <1>1
<1>5. Kept /\ Came(c, None, <<{}, {}, {}>>, 0)
  BY <1>1, <1>2, <1>4, NobodyDue, WroteStep DEF Kept, Came
<1> QED BY <1>3, <1>5

LEMMA DeleteKept ==
  ASSUME InviteInv, NEW c \in Clients, Delete(c)
  PROVE  /\ Kept /\ proton \in Event /\ req[c].row \in Event
         /\ LET due == <<IF req[c].row.org = Me THEN Listed(req[c].row) ELSE {}, {}, {}>>
                seq == IF req[c].row.org = Me THEN req[c].row.seq + 1 ELSE 0
            IN  Wrote(c, None, None, due, seq) /\ Came(c, None, due, seq)
         /\ req[c].row.org = Me => Me \notin Listed(req[c].row)
<1> DEFINE due == <<IF req[c].row.org = Me THEN Listed(req[c].row) ELSE {}, {}, {}>>
           seq == IF req[c].row.org = Me THEN req[c].row.seq + 1 ELSE 0
<1>1. req[c].pc = "delete" /\ Wrote(c, None, None, due, seq)
  BY DEF Delete
<1>2. Within(None, 1) /\ Kin(None) /\ None.org # Third
      /\ req[c].row \in Event /\ proton \in Event
  BY <1>1, CallOn, NoneRow, PeopleAssumption DEF Within, Kin, Admitted, Delete
<1>3. raced' \in BOOLEAN BY CallOn DEF Delete
<1>4. req[c].row.org = Me => Me \notin Listed(req[c].row)
  BY <1>2, CallOn, EventRow, PeopleAssumption DEF Kin
<1>5. due \in [1..3 -> SUBSET Recipients]
  <2>1. CASE req[c].row.org = Me
    <3>1. Listed(req[c].row) \in SUBSET Recipients BY <1>2, <1>4, <2>1, GuestsOnly
    <3>2. due = <<Listed(req[c].row), {}, {}>> BY <2>1
    <3> QED BY <3>1, <3>2
  <2>2. CASE req[c].row.org # Me
    <3>1. due = <<{}, {}, {}>> BY <2>2
    <3> QED BY <3>1, NobodyDue
  <2> QED BY <2>1, <2>2
<1>6. seq \in 0..(Room + 1) BY <1>2, CallOn, EventRow
<1> HIDE DEF due, seq
<1>7. req[c].pc \notin {"idle", "mail"} BY <1>1
<1>8. Kept /\ Came(c, None, due, seq)
  BY <1>1, <1>2, <1>3, <1>5, <1>6, <1>7, WroteStep DEF Kept, Came
<1> QED BY <1>1, <1>2, <1>4, <1>8 DEF due, seq

\* The outcome of a create: a row of the payload, or the row that is there.
CreateDue(c) == <<{}, IF req[c].plan THEN Listed(req[c].pay) ELSE {}, {}>>

LEMMA CreateKept ==
  ASSUME InviteInv, NEW c \in Clients, Create(c)
  PROVE  /\ Kept /\ req[c].pay \in Event /\ CreateDue(c) \in [1..3 -> SUBSET Recipients]
         /\ Ours /\ Me \notin Listed(req[c].pay)
         /\ Listed(req[c].pay) # {} => req[c].plan /\ req[c].pay.org = Me
         /\ \A d \in Clients \ {c} : req'[d] = req[d]
         /\ \/ /\ proton = None
               /\ Wrote(c, Created(req[c].pay), Synthesized(req[c].pay), CreateDue(c), 0)
               /\ Came(c, Created(req[c].pay), CreateDue(c), 0)
            \/ /\ proton # None /\ raced'
               /\ Posted(c, CreateDue(c), req[c].seq)
               /\ UNCHANGED <<proton, mirror, stamps, lost, heard, agenda>>
<1> DEFINE due == CreateDue(c)
           new == Created(req[c].pay)
           instead == Synthesized(req[c].pay)
<1>1. /\ req[c].pc = "create" /\ req[c].pay \in Event /\ Own(req[c].pay)
      /\ ~req[c].plan => Listed(req[c].pay) = {}
  BY CallOn DEF Create, Admitted
<1>2. Ours BY <1>1 DEF InviteInv, Theirs
<1>3. Me \notin Listed(req[c].pay) /\ (Listed(req[c].pay) # {} => req[c].pay.org = Me)
  BY <1>1, EventRow DEF Own
<1>4. due \in [1..3 -> SUBSET Recipients]
  <2>1. CASE req[c].plan
    <3>1. Listed(req[c].pay) \in SUBSET Recipients BY <1>1, <1>3, GuestsOnly
    <3>2. due = <<{}, Listed(req[c].pay), {}>> BY <2>1 DEF CreateDue
    <3> QED BY <3>1, <3>2
  <2>2. CASE ~req[c].plan
    <3>1. due = <<{}, {}, {}>> BY <2>2 DEF CreateDue
    <3> QED BY <3>1, NobodyDue
  <2> QED BY <2>1, <2>2
<1>5. req[c].pay.org # Third BY <1>2 DEF Ours
<1>6. /\ new \in Event /\ Listed(new) = Listed(req[c].pay) /\ new.org = req[c].pay.org
      /\ new.seq = 0
  BY <1>1, CreatedTyped
<1>7. /\ instead \in Event /\ Listed(instead) = Listed(req[c].pay)
      /\ instead.org = req[c].pay.org
      /\ instead.seq = IF mirror = None THEN 0 ELSE mirror.seq + 1
  <2>1. mirror \in Event \cup {None} /\ (mirror # None => mirror.seq < MaxSeq)
    BY CallOn, Bounds
  <2> QED BY <1>1, <2>1, SynthesizedTyped
<1>8. CASE proton = None
  <2>1. Wrote(c, new, instead, due, 0) /\ raced' \in BOOLEAN
    BY <1>8, CallOn DEF Create, CreateDue
  <2> HIDE DEF new, instead, due
  <2>2. Within(new, 1) /\ Within(instead, 1) BY <1>6, <1>7, CallOn DEF Within
  <2>3. Kin(new) /\ Kin(instead) BY <1>3, <1>6, <1>7, PeopleAssumption DEF Kin
  <2>4. 0 \in 0..(Room + 1) BY CallOn
  <2>5. req[c].pc \notin {"idle", "mail"} BY <1>1
  <2>6. new.org # Third /\ instead.org # Third BY <1>5, <1>6, <1>7
  <2>7. ~Theirs BY <1>1 DEF Theirs
  <2>8. Kept /\ Came(c, new, due, 0)
    BY <1>4, <2>1, <2>2, <2>3, <2>4, <2>5, <2>6, <2>7, WroteStep DEF Kept, Came
  <2> QED BY <1>1, <1>2, <1>3, <1>4, <1>8, <2>1, <2>8 DEF Came, due, new, instead
<1>9. CASE proton # None
  <2>1. /\ req' = [req EXCEPT ![c].pc = "mail", ![c].due = due, ![c].stamp = stamps]
        /\ raced' = TRUE
        /\ UNCHANGED <<proton, mirror, agenda, heard, quota, sent, lost, crossed, counters>>
    BY <1>9 DEF Create, CreateDue
  <2> HIDE DEF new, instead, due
  <2>2. /\ TypeOK /\ CountInv /\ stamps' \in Stamps /\ stamps' = stamps
        /\ req[c].seq \in 0..MaxSeq /\ req \in [Clients -> RequestType]
    <3>1. TypeOK /\ CountInv BY CallOn
    <3>2. stamps' = stamps /\ stamps \in 0..(MaxRequests + MaxEdits) /\ req \in [Clients -> RequestType]
      BY <2>1, <3>1 DEF TypeOK, counters
    <3>3. stamps \in Stamps BY <3>2, Bounds DEF Stamps
    <3>4. req[c].seq \in 0..MaxSeq BY <3>2, RequestFields
    <3> QED BY <3>1, <3>2, <3>3, <3>4
  <2>3. /\ req' \in [Clients -> RequestType]
        /\ Posted(c, due, req[c].seq) /\ \A d \in Clients \ {c} : req'[d] = req[d]
    <3> DEFINE seq == req[c].seq
    <3>1. /\ req' = [req EXCEPT ![c].pc = "mail", ![c].due = due, ![c].stamp = stamps']
          /\ req[c].seq = seq /\ seq \in 0..MaxSeq
      BY <2>1, <2>2
    <3> HIDE DEF seq
    <3>2. /\ req' \in [Clients -> RequestType]
          /\ Posted(c, due, seq) /\ \A d \in Clients \ {c} : req'[d] = req[d]
      BY <1>4, <2>1, <2>2, <3>1, PostedTyped
    <3> QED BY <3>2 DEF seq
  <2>4. TypeOK' BY <2>1, <2>2, <2>3 DEF TypeOK, counters
  <2>5. IsFiniteSet(Pending') /\ Room' \in Nat /\ Room <= Room'
    <3>1. req'[c].pc \in {"idle", "mail"} /\ req[c].pc \notin {"idle", "mail"}
      BY <1>1, <2>3 DEF Posted
    <3>2. IsFiniteSet(Pending) /\ Cardinality(Pending) \in Nat BY <2>2, RoomBound DEF CountInv
    <3>3. IsFiniteSet(Pending') /\ Cardinality(Pending') = Cardinality(Pending) - 1
      BY <2>3, <3>1, <3>2, WriteDone
    <3> QED BY <2>1, <2>2, <3>2, <3>3, RoomBound DEF Room, counters
  <2>6. CountInv'
    <3> DEFINE q == req'[c]
    <3>1. q \in RequestType /\ req' = [req EXCEPT ![c] = q] BY <2>1, <2>2, <2>3
    <3>2. q.seq = req[c].seq /\ q.row = req[c].row BY <2>3 DEF Posted
    <3>3. q.seq <= Room /\ (q.row # None => q.row.seq <= Room)
      BY <2>2, <3>2 DEF CountInv
    <3>4. /\ Within(proton', 0) /\ Within(mirror', 0)
          /\ \A p \in Guests : agenda'[p].seq \in Nat /\ agenda'[p].seq <= Room
      BY <2>1, <2>2, WithinNow DEF Within
    <3> HIDE DEF q
    <3> QED BY <2>2, <2>5, <3>1, <3>3, <3>4, CountKept
  <2>7. Admitted(req'[c])
    <3>1. Admitted(req[c]) BY CallOn
    <3> QED BY <2>3, <3>1, <1>1 DEF Posted, Admitted
  <2>8. RequestInv' BY <2>1, <2>3, <2>7, CallOn DEF RequestInv
  <2>9. Ours' BY <1>2, <2>1, <2>3 DEF Ours, Posted
  <2>10. ~Theirs BY <1>1 DEF Theirs
  <2>11. Kept BY <2>4, <2>6, <2>8, <2>9, <2>10 DEF Kept
  <2>12. raced' /\ UNCHANGED <<proton, mirror, stamps, lost, heard, agenda>>
    BY <2>1 DEF counters
  <2> QED BY <1>1, <1>2, <1>3, <1>4, <1>9, <2>3, <2>11, <2>12 DEF due
<1> QED BY <1>8, <1>9

LEMMA DeleteStarts ==
  ASSUME InviteInv, NEW c \in Clients, DeleteStart(c)
  PROVE  /\ Kept
         /\ \A d \in Clients \ {c} : req'[d] = req[d]
         /\ req'[c].pc # "mail" /\ req'[c].due = <<{}, {}, {}>> /\ req'[c].stamp = 0
<1> DEFINE q == [Idle EXCEPT !.pc = "delete", !.row = mirror]
<1>1. /\ q \in RequestType /\ q.pc = "delete" /\ q.seq = 0 /\ q.row = mirror /\ q.pay = None
      /\ q.due = <<{}, {}, {}>> /\ q.stamp = 0
  <2>1. mirror \in Event \cup {None} BY CallOn
  <2> QED BY <2>1, IdleTyped DEF RequestType
<1>2. req' = [req EXCEPT ![c] = q] /\ mirror # None BY DEF DeleteStart
<1> HIDE DEF q
<1>3. Within(q.row, 0) BY <1>1, CallOn, WithinNow
<1>4. /\ TypeOK' /\ CountInv' /\ req'[c] = q /\ \A d \in Clients \ {c} : req'[d] = req[d]
  BY <1>1, <1>2, <1>3, CallOn, BeginKeeps DEF DeleteStart
<1>5. Admitted(q) BY <1>1, <1>2, CallOn DEF Admitted, Own
<1>6. UNCHANGED <<proton, mirror, stamps>> BY DEF DeleteStart
<1>7. RequestInv' BY <1>4, <1>5, <1>6, CallOn DEF RequestInv
<1>8. Ours => Ours' BY <1>1, <1>4, <1>6, NoneRow, PeopleAssumption DEF Ours
<1>9. Theirs => Theirs' BY <1>1, <1>4, <1>6 DEF Theirs
<1> QED BY <1>1, <1>4, <1>7, <1>8, <1>9 DEF Kept

\* A request that ends with nothing written leaves all but itself, and perhaps the
\* mirror of a row that is gone.
LEMMA EndsKept ==
  ASSUME InviteInv, NEW c \in Clients, CallFails(c) \/ NotFound(c)
  PROVE  /\ Kept /\ req'[c] = Idle /\ \A d \in Clients \ {c} : req'[d] = req[d]
         /\ UNCHANGED <<proton, agenda, heard, lost, raced, stamps>>
<1>1. /\ req[c].pc \notin {"idle", "mail"} /\ req' = [req EXCEPT ![c] = Idle]
      /\ mirror' \in {mirror, None}
      /\ UNCHANGED <<proton, agenda, heard, quota, sent, lost, raced, crossed, now, stamps,
                     requests, edits>>
  BY DEF CallFails, NotFound, counters
<1>2. faults' \in 0..MaxFaults BY CallOn, Bounds DEF CallFails, NotFound, Fault, counters
<1>3. TypeOK' /\ CountInv' /\ req'[c] = Idle /\ \A d \in Clients \ {c} : req'[d] = req[d]
  BY <1>1, <1>2, CallOn, EndKeeps
<1>4. RequestInv' BY <1>1, <1>3, CallOn, IdleTyped DEF RequestInv, Kin
<1>5. Ours => Ours' BY <1>1, <1>3, IdleTyped, NoneRow, PeopleAssumption DEF Ours
<1>6. Theirs => Theirs' BY <1>1, <1>3, IdleTyped DEF Theirs
<1> QED BY <1>1, <1>3, <1>4, <1>5, <1>6 DEF Kept

LEMMA TickKept == ASSUME InviteInv, Tick PROVE Kept
<1>1. TypeOK /\ CountInv /\ RequestInv BY DEF InviteInv
<1>2. now' \in 0..MaxNow BY <1>1, Bounds DEF Tick, TypeOK
<1>3. UNCHANGED <<proton, mirror, req, agenda, heard, quota, sent, lost, raced, crossed,
                 stamps, requests, edits, faults>>
  BY DEF Tick
<1>4. TypeOK' BY <1>1, <1>2, <1>3 DEF TypeOK
<1>5. CountInv' BY <1>1, <1>3 DEF CountInv, Pending, Room
<1>6. RequestInv' /\ (Ours => Ours') /\ (Theirs => Theirs')
  BY <1>1, <1>3 DEF RequestInv, Ours, Theirs
<1> QED BY <1>4, <1>5, <1>6 DEF Kept

LEMMA PollKept == ASSUME InviteInv, Poll PROVE Kept
<1>1. TypeOK /\ CountInv /\ RequestInv BY DEF InviteInv
<1>2. /\ UNCHANGED <<proton, req, agenda, heard, quota, sent, lost, raced, crossed,
                     now, stamps, requests, edits, faults>>
      /\ mirror' = proton
  BY DEF Poll, counters
<1>3. TypeOK' BY <1>1, <1>2 DEF TypeOK
<1>4. CountInv' BY <1>1, <1>2 DEF CountInv, Pending, Room
<1>5. RequestInv' /\ (Ours => Ours') /\ (Theirs => Theirs')
  BY <1>1, <1>2 DEF RequestInv, Ours, Theirs
<1> QED BY <1>3, <1>4, <1>5 DEF Kept

-----------------------------------------------------------------------------
(* Sending.                                                                 *)

LEMMA MaxOfTwo ==
  ASSUME NEW a \in Nat, NEW b \in Nat
  PROVE  Max({a, b}) = IF a < b THEN b ELSE a
<1> DEFINE m == IF a < b THEN b ELSE a
<1>1. m \in {a, b} /\ \A y \in {a, b} : m >= y OBVIOUS
<1>2. \A x \in {a, b} : (\A y \in {a, b} : x >= y) => x = m OBVIOUS
<1>3. Max({a, b}) = CHOOSE x \in {a, b} : \A y \in {a, b} : x >= y BY DEF Max
<1> HIDE DEF m
<1> QED BY <1>1, <1>2, <1>3 DEF m

\* The batch that is sent is the first with a recipient left.
LEMMA BatchIs ==
  ASSUME NEW c \in Clients
  PROVE  /\ Batch(c) \in 1..4
         /\ Batch(c) # 4 => Batch(c) \in 1..3 /\ req[c].due[Batch(c)] # {}
         /\ \A i \in 1..3 : i < Batch(c) => req[c].due[i] = {}
<1> DEFINE S == {i \in 1..3 : req[c].due[i] # {}} \cup {4}
           least(x) == x \in S /\ \A y \in S : x =< y
<1>1. S \subseteq 1..4 /\ 4 \in S OBVIOUS
<1>2. \E x : least(x)
  <2>1. CASE 1 \in S BY <1>1, <2>1
  <2>2. CASE 1 \notin S /\ 2 \in S BY <1>1, <2>2
  <2>3. CASE 1 \notin S /\ 2 \notin S /\ 3 \in S BY <1>1, <2>3
  <2>4. CASE 1 \notin S /\ 2 \notin S /\ 3 \notin S BY <1>1, <2>4
  <2> QED BY <2>1, <2>2, <2>3, <2>4
<1>3. Batch(c) = CHOOSE x \in S : \A y \in S : x =< y BY DEF Batch, Min
<1> HIDE DEF S
<1>4. least(Batch(c)) BY <1>2, <1>3
<1>5. Batch(c) \in 1..4 BY <1>1, <1>4
<1>6. Batch(c) # 4 => Batch(c) \in 1..3 /\ req[c].due[Batch(c)] # {} BY <1>4, <1>5 DEF S
<1>7. ASSUME NEW i \in 1..3, i < Batch(c) PROVE req[c].due[i] = {}
  <2>1. i \notin S BY <1>4, <1>5, <1>7
  <2> QED BY <2>1 DEF S
<1> QED BY <1>5, <1>6, <1>7

\* What a letter is made of.
Subject(c) == IF req[c].pay = None THEN req[c].row ELSE req[c].pay

LEMMA LetterTyped ==
  ASSUME InviteInv, NEW c \in Clients, req[c].pc = "mail", NEW i \in 1..4
  PROVE  /\ Subject(c) \in Event
         /\ Letter(c, i) \in [live : BOOLEAN, when : Whens, place : Places, seq : 0..MaxSeq,
                              stamp : Stamps]
         /\ Letter(c, i).live <=> i # 1
         /\ Letter(c, i).when = Subject(c).when /\ Letter(c, i).place = Subject(c).place
         /\ Letter(c, i).seq = req[c].seq /\ Letter(c, i).stamp = req[c].stamp
<1>1. Subject(c) \in Event BY CallOn DEF Admitted, Subject
<1>2. req[c].seq \in 0..MaxSeq /\ req[c].stamp \in Stamps BY CallOn, RequestFields
<1> DEFINE live == i # 1
<1>3. Letter(c, i) = Says(Subject(c), live, req[c].seq, req[c].stamp) BY DEF Letter, Subject
<1>4. live \in BOOLEAN OBVIOUS
<1> HIDE DEF live
<1>5. /\ Letter(c, i) \in [live : BOOLEAN, when : Whens, place : Places, seq : 0..MaxSeq,
                           stamp : Stamps]
      /\ Letter(c, i).when = Subject(c).when /\ Letter(c, i).place = Subject(c).place
      /\ Letter(c, i).seq = req[c].seq /\ Letter(c, i).stamp = req[c].stamp
  BY <1>1, <1>2, <1>3, <1>4, SaysTyped
<1>6. Letter(c, i).live = live BY <1>1, <1>2, <1>3, <1>4, SaysTyped
<1>7. Letter(c, i).live <=> live BY <1>6, Zenon
<1> QED BY <1>1, <1>5, <1>7 DEF live

\* A message leaves its request with one recipient less, and nothing else.
Posting(c, p) ==
  /\ Batch(c) \in 1..3 /\ p \in req[c].due[Batch(c)]
  /\ req'[c] = [req[c] EXCEPT !.due[Batch(c)] = @ \ {p}]
  /\ req'[c].pc = "mail" /\ req'[c].pay = req[c].pay /\ req'[c].row = req[c].row
  /\ req'[c].plan = req[c].plan /\ req'[c].reply = req[c].reply
  /\ req'[c].seq = req[c].seq /\ req'[c].stamp = req[c].stamp
  /\ req'[c].due[Batch(c)] = req[c].due[Batch(c)] \ {p}
  /\ \A i \in 1..3 \ {Batch(c)} : req'[c].due[i] = req[c].due[i]
  /\ \A d \in Clients \ {c} : req'[d] = req[d]

LEMMA SendPosts ==
  ASSUME InviteInv, NEW c \in Clients, NEW p \in Recipients, Send(c, p)
  PROVE  /\ Posting(c, p) /\ req'[c] \in RequestType /\ req' = [req EXCEPT ![c] = req'[c]]
         /\ req[c].pc = "mail"
<1> DEFINE b == Batch(c)
           due == [req[c].due EXCEPT ![b] = @ \ {p}]
           q == [req[c] EXCEPT !.due = due]
<1>1. /\ req[c].pc = "mail" /\ b # 4 /\ p \in req[c].due[b]
      /\ req' = [req EXCEPT ![c].due[b] = @ \ {p}]
  BY DEF Send
<1>2. b \in 1..3 BY <1>1, BatchIs
<1>3. req[c] \in RequestType /\ req \in [Clients -> RequestType] BY CallOn DEF TypeOK
<1>4. /\ req'[c] = q /\ \A d \in Clients \ {c} : req'[d] = req[d]
      /\ req' = [req EXCEPT ![c] = q]
  <2> HIDE DEF b
  <2>2. req' = [req EXCEPT ![c] = q] BY <1>1, <1>3
  <2> HIDE DEF q
  <2> QED BY <1>3, <2>2
<1>5. due \in [1..3 -> SUBSET Recipients] BY <1>2, <1>3, RequestFields
<1>6. /\ q.pc = "mail" /\ q.pay = req[c].pay /\ q.row = req[c].row
      /\ q.reply = req[c].reply /\ q.seq = req[c].seq /\ q.stamp = req[c].stamp
      /\ q.due = due
  <2> HIDE DEF due, b
  <2> QED BY <1>1, <1>3 DEF RequestType
<1>7. q.plan = req[c].plan
  <2> HIDE DEF due, b
  <2> QED BY <1>3 DEF RequestType
<1>8. q \in RequestType
  <2> HIDE DEF due, b
  <2> QED BY <1>3, <1>5 DEF RequestType
<1>9. due[b] = req[c].due[b] \ {p} /\ \A i \in 1..3 \ {b} : due[i] = req[c].due[i]
  <2> HIDE DEF b
  <2>1. req[c].due \in [1..3 -> SUBSET Recipients] BY <1>3, RequestFields
  <2> QED BY <1>2, <2>1
<1>10. req'[c] = [req[c] EXCEPT !.due[b] = @ \ {p}] BY <1>4
<1> HIDE DEF q, due
<1> QED BY <1>1, <1>2, <1>4, <1>6, <1>7, <1>8, <1>9, <1>10 DEF Posting

LEMMA SendKept ==
  ASSUME InviteInv, NEW c \in Clients, NEW p \in Recipients, Send(c, p)
  PROVE  Kept
<1>1. /\ Posting(c, p) /\ req'[c] \in RequestType /\ req' = [req EXCEPT ![c] = req'[c]]
      /\ req[c].pc = "mail"
  BY SendPosts
<1>2. TypeOK /\ CountInv /\ RequestInv BY CallOn
<1>3. req' \in [Clients -> RequestType]
  <2>1. req \in [Clients -> RequestType] BY <1>2 DEF TypeOK
  <2> QED BY <1>1, <2>1
<1>4. /\ quota' \in [window : 0..MaxNow, count : 0..MaxPerDay]
      /\ sent' \in [0..MaxNow -> Nat] /\ faults' \in 0..MaxFaults
  <2>1. /\ quota \in [window : 0..MaxNow, count : 0..MaxPerDay] /\ sent \in [0..MaxNow -> Nat]
        /\ now \in 0..MaxNow /\ faults \in 0..MaxFaults /\ MaxPerDay \in Nat \ {0}
    BY <1>2, BoundsAssumption DEF TypeOK
  <2>2. CASE QuotaLeft
    <3>1. quota' = Allowed /\ sent' = [sent EXCEPT ![now] = @ + 1] /\ (NoFault \/ Fault)
      BY <2>2 DEF Send
    <3>2. quota' \in [window : 0..MaxNow, count : 0..MaxPerDay]
      BY <2>1, <2>2, <3>1 DEF Allowed, QuotaLeft
    <3>3. sent' \in [0..MaxNow -> Nat] BY <2>1, <3>1
    <3>4. faults' \in 0..MaxFaults BY <2>1, <3>1, Bounds DEF Fault, NoFault
    <3> QED BY <3>2, <3>3, <3>4
  <2>3. CASE ~QuotaLeft BY <2>1, <2>3 DEF Send, NoFault
  <2> QED BY <2>2, <2>3
<1>5. req[c].seq \in 0..MaxSeq /\ req[c].seq <= Room /\ req[c].stamp \in Stamps
      /\ req[c].stamp \in Nat /\ req[c].reply \in Status
  BY <1>2, CallOn, RequestFields DEF CountInv
<1>6. lost' \in [Recipients -> Stamps]
  <2>1. lost \in [Recipients -> Stamps] /\ 0 \in Stamps BY <1>2, Bounds DEF TypeOK, Stamps
  <2>2. lost[p] \in Stamps /\ lost[p] \in Nat BY <2>1 DEF Stamps
  <2>3. Max({lost[p], req[c].stamp}) \in Stamps BY <1>5, <2>2, MaxOfTwo
  <2>4. \/ lost' = [lost EXCEPT ![p] = IF req[c].stamp < @ THEN @ ELSE 0]
        \/ lost' = [lost EXCEPT ![p] = Max({@, req[c].stamp})]
    BY DEF Send, Missed
  <2> QED BY <2>1, <2>2, <2>3, <2>4
<1>7. /\ agenda' \in AgendaType /\ heard' \in [status : Status, stamp : Stamps]
      /\ \A g \in Guests : agenda'[g].seq \in Nat /\ agenda'[g].seq <= Room
  <2>1. agenda \in AgendaType /\ heard \in [status : Status, stamp : Stamps]
        /\ \A g \in Guests : agenda[g].seq \in Nat /\ agenda[g].seq <= Room
    BY <1>2, WithinNow DEF TypeOK, AgendaType, Stamps
  <2>2. CASE UNCHANGED <<agenda, heard>> BY <2>1, <2>2
  <2>3. CASE Delivered(c, p, Batch(c))
    <3>1. CASE p = Third
      <4>1. agenda' = agenda /\ heard' \in {heard, [status |-> req[c].reply, stamp |-> req[c].stamp]}
        BY <2>3, <3>1 DEF Delivered, Reply
      <4> QED BY <1>5, <2>1, <4>1
    <3>2. CASE p # Third
      <4>1. p \in Guests BY <3>2 DEF Recipients
      <4> DEFINE m == Letter(c, Batch(c))
      <4>2. m \in [live : BOOLEAN, when : Whens, place : Places, seq : 0..MaxSeq, stamp : Stamps]
            /\ m.seq = req[c].seq
        <5>1. Batch(c) \in 1..4 BY BatchIs
        <5> QED BY <1>1, <5>1, LetterTyped
      <4>3. heard' = heard /\ agenda' = [agenda EXCEPT ![p] = Taken(@, m)]
        BY <2>3, <3>2 DEF Delivered
      <4> HIDE DEF m
      <4>4. Taken(agenda[p], m) \in {agenda[p], m} BY DEF Taken
      <4>5. Taken(agenda[p], m) \in [live : BOOLEAN, when : Whens, place : Places,
                                     seq : 0..MaxSeq, stamp : Stamps]
            /\ Taken(agenda[p], m).seq \in Nat /\ Taken(agenda[p], m).seq <= Room
        BY <1>5, <2>1, <4>1, <4>2, <4>4 DEF AgendaType
      <4> QED BY <2>1, <4>1, <4>3, <4>5 DEF AgendaType
    <3> QED BY <3>1, <3>2
  <2> QED BY <2>2, <2>3 DEF Send
<1>8. UNCHANGED <<proton, mirror, raced, crossed, now, stamps, requests, edits>> BY DEF Send
<1>9. TypeOK' BY <1>2, <1>3, <1>4, <1>6, <1>7, <1>8 DEF TypeOK, AgendaType, Stamps
<1>10. CountInv'
  <2>1. Pending' = Pending BY <1>1, NoWrite DEF Posting
  <2>2. Room' = Room BY <1>8, <2>1 DEF Room
  <2>3. IsFiniteSet(Pending') /\ Room' \in Nat /\ Room <= Room'
    BY <1>2, <2>1, <2>2, RoomBound DEF CountInv
  <2>4. Within(proton', 0) /\ Within(mirror', 0) BY <1>2, <1>8, WithinNow DEF Within
  <2> DEFINE q == req'[c]
  <2>5. q \in RequestType /\ req' = [req EXCEPT ![c] = q] BY <1>1
  <2>6. q.seq <= Room /\ (q.row # None => q.row.seq <= Room)
    BY <1>1, <1>2 DEF CountInv, Posting
  <2> HIDE DEF q
  <2> QED BY <1>2, <1>7, <1>8, <2>3, <2>4, <2>5, <2>6, CountKept
<1>11. RequestInv'
  <2>1. Admitted(req'[c]) BY <1>1, CallOn DEF Posting, Admitted
  <2> QED BY <1>1, <1>2, <1>8, <2>1 DEF RequestInv, Posting
<1>12. Ours => Ours'
  <2>1. ASSUME Ours, NEW d \in Clients
        PROVE  req'[d].pc # "answer" /\ req'[d].pay.org # Third /\ req'[d].row.org # Third
    <3>1. req[d].pc # "answer" /\ req[d].pay.org # Third /\ req[d].row.org # Third
      BY <2>1 DEF Ours
    <3>2. CASE d = c BY <1>1, <3>1, <3>2 DEF Posting
    <3>3. CASE d # c BY <1>1, <3>1, <3>3 DEF Posting
    <3> QED BY <3>2, <3>3
  <2> QED BY <1>8, <2>1 DEF Ours
<1>13. Theirs => Theirs' BY <1>1, <1>8 DEF Theirs, Posting
<1> QED BY <1>9, <1>10, <1>11, <1>12, <1>13 DEF Kept

-----------------------------------------------------------------------------
(* The end of a request, and the whole invariant.                           *)

WithOver(e, v) == [e EXCEPT !.over = v]

LEMMA RowOver ==
  ASSUME NEW e \in Event, NEW v \in BOOLEAN
  PROVE  /\ WithOver(e, v) \in Event
         /\ WithOver(e, v).org = e.org /\ WithOver(e, v).att = e.att /\ WithOver(e, v).when = e.when
         /\ WithOver(e, v).place = e.place /\ WithOver(e, v).seq = e.seq
         /\ WithOver(e, v).ex = e.ex
         /\ Listed(WithOver(e, v)) = Listed(e)
<1>1. WithOver(e, v) \in Event BY RowChanged DEF WithOver
<1>2. /\ WithOver(e, v).org = e.org /\ WithOver(e, v).att = e.att /\ WithOver(e, v).when = e.when
      /\ WithOver(e, v).place = e.place /\ WithOver(e, v).seq = e.seq
      /\ WithOver(e, v).ex = e.ex
  BY DEF WithOver, Event
<1> QED BY <1>1, <1>2, ListedOf

\* What a PUT that ends does to the master rows: the exception row apart, nothing.
SameButOver(e, f) ==
  /\ e = None => f = None
  /\ e # None => /\ f \in Event /\ f.org = e.org /\ f.att = e.att /\ f.when = e.when
                 /\ f.place = e.place /\ f.seq = e.seq /\ f.ex = e.ex
                 /\ Listed(f) = Listed(e) /\ \E v \in BOOLEAN : f = WithOver(e, v)

LEMMA SameRow == ASSUME NEW e \in Event \cup {None} PROVE SameButOver(e, e)
<1>1. ASSUME e \in Event PROVE \E v \in BOOLEAN : e = WithOver(e, v)
  <2>1. e.over \in BOOLEAN BY <1>1, EventRow
  <2>2. WithOver(e, e.over) = e BY <1>1 DEF WithOver, Event
  <2> QED BY <2>1, <2>2
<1> QED BY <1>1 DEF SameButOver

LEMMA FinishKept ==
  ASSUME InviteInv, NEW c \in Clients, Finish(c)
  PROVE  /\ Kept /\ req'[c] = Idle /\ \A d \in Clients \ {c} : req'[d] = req[d]
         /\ req[c].pc = "mail" /\ \A i \in 1..3 : req[c].due[i] = {}
         /\ SameButOver(proton, proton') /\ SameButOver(mirror, mirror')
         /\ UNCHANGED <<agenda, heard, lost, raced, stamps>>
<1>1. /\ req[c].pc = "mail" /\ Batch(c) = 4 /\ req' = [req EXCEPT ![c] = Idle]
      /\ UNCHANGED <<agenda, heard, quota, sent, lost, raced, crossed, counters>>
  BY DEF Finish
<1>2. \A i \in 1..3 : req[c].due[i] = {}
  <2>1. Batch(c) = 4 => \A i \in 1..3 : i < Batch(c) OBVIOUS
  <2> QED BY <1>1, <2>1, BatchIs
<1>3. TypeOK /\ CountInv /\ RequestInv BY CallOn
<1>6. SameButOver(proton, proton') /\ SameButOver(mirror, mirror')
  <2>1. CASE UNCHANGED <<proton, mirror>> BY <2>1, CallOn, SameRow
  <2>2. CASE ~UNCHANGED <<proton, mirror>>
    <3>1. /\ req[c].pay # None /\ proton # None
          /\ proton' = [proton EXCEPT !.over = req[c].pay.over]
          /\ mirror' = IF mirror = None THEN None ELSE [mirror EXCEPT !.over = req[c].pay.over]
      BY <2>2 DEF Finish
    <3>2. req[c].pay \in Event /\ proton \in Event /\ (mirror # None => mirror \in Event)
      BY <3>1, CallOn
    <3>3. req[c].pay.over \in BOOLEAN BY <3>2, EventRow
    <3>4. PICK v \in BOOLEAN : v = req[c].pay.over BY <3>3
    <3>5. proton' = WithOver(proton, v) BY <3>1, <3>4 DEF WithOver
    <3>6. mirror' = IF mirror = None THEN None ELSE WithOver(mirror, v)
      BY <3>1, <3>4 DEF WithOver
    <3> QED BY <3>1, <3>2, <3>5, <3>6, RowOver DEF SameButOver
  <2> QED BY <2>1, <2>2
<1>7. req \in [Clients -> RequestType] BY <1>3 DEF TypeOK
<1>8. /\ req' \in [Clients -> RequestType]
      /\ req'[c] = Idle /\ \A d \in Clients \ {c} : req'[d] = req[d]
  BY <1>1, <1>7, RequestSet, IdleTyped
<1>9. proton' \in Event \cup {None} /\ mirror' \in Event \cup {None} BY <1>6 DEF SameButOver
<1>10. TypeOK' BY <1>1, <1>3, <1>8, <1>9 DEF TypeOK, counters
<1>11. ASSUME NEW e \in Event \cup {None}, NEW f, SameButOver(e, f), Within(e, 0)
       PROVE  Within(f, 0)
  BY <1>11 DEF SameButOver, Within
<1>12. CountInv'
  <2>1. Pending' = Pending BY <1>1, <1>8, IdleTyped, NoWrite
  <2>2. Room' = Room BY <1>1, <2>1 DEF Room, counters
  <2>3. IsFiniteSet(Pending') /\ Room' \in Nat /\ Room <= Room' /\ 0 <= Room
    BY <1>3, <2>1, <2>2, RoomBound DEF CountInv
  <2>4. Within(proton, 0) /\ Within(mirror, 0)
        /\ \A p \in Guests : agenda[p].seq \in Nat /\ agenda[p].seq <= Room
    BY <1>3, WithinNow
  <2>5. Within(proton', 0) /\ Within(mirror', 0)
    <3>1. proton \in Event \cup {None} /\ mirror \in Event \cup {None} BY CallOn
    <3> QED BY <1>6, <1>11, <2>4, <3>1
  <2>6. Idle \in RequestType /\ Idle.seq <= Room /\ Idle.row = None BY <2>3, IdleTyped
  <2>7. stamps' = stamps /\ agenda' = agenda BY <1>1 DEF counters
  <2> QED BY <1>1, <1>3, <2>3, <2>4, <2>5, <2>6, <2>7, CountKept
<1>13. ASSUME NEW e, NEW f, SameButOver(e, f), Kin(e) PROVE Kin(f)
  BY <1>13, NoneRow DEF SameButOver, Kin
<1>14. RequestInv' BY <1>3, <1>6, <1>8, <1>13, IdleTyped DEF RequestInv
<1>15. ASSUME NEW e, NEW f, SameButOver(e, f)
       PROVE  f.org = e.org /\ Listed(f) = Listed(e) /\ (f = None <=> e = None)
  BY <1>15, EventRow, NoneRow DEF SameButOver
<1>16. /\ proton'.org = proton.org /\ Listed(proton') = Listed(proton)
       /\ proton' = None <=> proton = None
       /\ mirror'.org = mirror.org
  BY <1>6, <1>15
<1>17. Ours => Ours' BY <1>8, <1>16, IdleTyped, NoneRow, PeopleAssumption DEF Ours
<1>18. Theirs => Theirs' BY <1>1, <1>8, <1>16, IdleTyped DEF Theirs, counters
<1> QED BY <1>1, <1>2, <1>6, <1>8, <1>10, <1>12, <1>14, <1>17, <1>18 DEF Kept, counters

\* The rows there may be at first.
LEMMA InitialRow ==
  ASSUME NEW e \in InitialRows
  PROVE  /\ e \in Event \cup {None} /\ Kin(e) /\ (e # None => e.seq = 0)
         /\ e.org = Third => e \in Event /\ Listed(e) = People
         /\ e = None \/ (e.when = Draft(Me, Guests, TRUE).when
                         /\ e.place = Draft(Me, Guests, TRUE).place)
         /\ e = None \/ e \in Event
         /\ e.org = Third => e # None
         /\ e.org = Nobody => Listed(e) = {}
<1>1. Guests \in SUBSET People /\ Me \in People /\ Me \notin Guests /\ TRUE \in BOOLEAN
      /\ People \in SUBSET People /\ {} \in SUBSET People /\ {Me} \cup Guests = People
  BY PeopleAssumption DEF People
<1>2. Me \in {Me, Third, Nobody} /\ Third \in {Me, Third, Nobody} /\ Nobody \in {Me, Third, Nobody}
  OBVIOUS
<1> DEFINE first == Draft(Me, Guests, TRUE)
           Alike(x) == x.when = first.when /\ x.place = first.place
<1>3. ASSUME NEW o \in {Me, Third, Nobody}, NEW g \in SUBSET People PROVE Alike(Draft(o, g, TRUE))
  BY DEF Draft
<1>4. CASE e = None
  BY <1>4, NoneRow, PeopleAssumption DEF Kin
<1>5. CASE e = Draft(Nobody, {}, TRUE)
  <2>1. e \in Event /\ e.seq = 0 /\ e.org = Nobody /\ Listed(e) = {}
    BY <1>1, <1>2, <1>5, DraftIs, Zenon
  <2>2. Alike(e) BY <1>1, <1>2, <1>3, <1>5, Zenon
  <2> QED BY <2>1, <2>2, PeopleAssumption DEF Kin
<1>6. CASE e = Draft(Third, {Me} \cup Guests, TRUE)
  <2>1. e = Draft(Third, People, TRUE) BY <1>1, <1>6
  <2>2. e \in Event /\ e.seq = 0 /\ e.org = Third /\ Listed(e) = People
    BY <1>1, <1>2, <2>1, DraftIs, Zenon
  <2>3. Alike(e) BY <1>1, <1>2, <1>3, <2>1, Zenon
  <2> QED BY <2>2, <2>3, EventRow, PeopleAssumption DEF Kin
<1>7. CASE \E g \in SUBSET Guests \ {{}} : e = [Draft(Me, g, TRUE) EXCEPT !.ex = Past]
  <2>1. PICK g \in SUBSET Guests : e = [Draft(Me, g, TRUE) EXCEPT !.ex = Past]
    BY <1>7
  <2> DEFINE d == Draft(Me, g, TRUE)
  <2>2. g \in SUBSET People BY <1>1
  <2>3. d \in Event /\ d.seq = 0 /\ d.org = Me /\ Listed(d) = g
    BY <1>1, <1>2, <2>2, DraftIs, Zenon
  <2>4. Alike(d) BY <1>2, <1>3, <2>2, Zenon
  <2> HIDE DEF d
  <2>5. e = [d EXCEPT !.ex = Past] BY <2>1 DEF d
  <2>6. Past \in SUBSET Days BY DaysAssumption
  <2>7. e \in Event BY <2>3, <2>5, <2>6, RowChanged
  <2>8. e.seq = 0 /\ e.org = Me /\ e.att = d.att /\ e.when = d.when /\ e.place = d.place
    BY <2>3, <2>5 DEF Event
  <2>9. Listed(e) = g BY <2>3, <2>7, <2>8, ListedOf
  <2> QED BY <1>1, <2>4, <2>7, <2>8, <2>9, PeopleAssumption DEF Kin
<1> QED BY <1>4, <1>5, <1>6, <1>7 DEF InitialRows

LEMMA InviteInit == Init => InviteInv
<1> SUFFICES ASSUME Init PROVE InviteInv OBVIOUS
<1>1. proton \in InitialRows /\ mirror = proton /\ req = [c \in Clients |-> Idle] BY DEF Init
<1>2. /\ proton \in Event \cup {None} /\ Kin(proton) /\ (proton # None => proton.seq = 0)
      /\ proton.org = Third => proton \in Event /\ Listed(proton) = People
  BY <1>1, InitialRow
<1>3. req \in [Clients -> RequestType] /\ \A c \in Clients : req[c] = Idle
  BY <1>1, IdleTyped
<1>4. /\ now = Day - 1 /\ stamps = 0 /\ requests = 0 /\ edits = 0 /\ faults = 0
      /\ raced = FALSE /\ crossed = FALSE
      /\ heard = [status |-> 0, stamp |-> 0] /\ lost = [q \in Recipients |-> 0]
  BY DEF Init
<1>5. /\ now \in 0..MaxNow /\ 0 \in 0..MaxSeq /\ 0 \in Stamps /\ 0 \in 0..MaxRequests
      /\ 0 \in 0..MaxEdits /\ 0 \in 0..MaxFaults /\ 0 \in Status /\ 0 \in 0..MaxNow
  BY <1>4, Bounds, BoundsAssumption DEF Stamps, Status
<1>6. agenda \in AgendaType /\ \A p \in Guests : agenda[p].seq = 0
  <2> DEFINE first == Draft(Me, Guests, TRUE)
             informed == IF proton # None /\ proton.org = Me THEN Listed(proton) ELSE {}
  <2>1. agenda = [p \in Guests |-> Says(first, p \in informed, 0, 0)] BY DEF Init
  <2>2. first \in Event
    <3>1. Guests \in SUBSET People /\ TRUE \in BOOLEAN /\ Me \in {Me, Third, Nobody}
      BY DEF People
    <3> QED BY <3>1, DraftIs
  <2> HIDE DEF first, informed
  <2>3. ASSUME NEW p \in Guests
        PROVE  /\ agenda[p] \in [live : BOOLEAN, when : Whens, place : Places, seq : 0..MaxSeq,
                                 stamp : Stamps]
               /\ agenda[p].seq = 0
    <3> DEFINE live == p \in informed
    <3>1. agenda[p] = Says(first, live, 0, 0) /\ live \in BOOLEAN BY <2>1
    <3> HIDE DEF live
    <3> QED BY <1>5, <2>2, <3>1, SaysTyped
  <2> QED BY <2>1, <2>3 DEF AgendaType
<1>7. /\ quota \in [window : 0..MaxNow, count : 0..MaxPerDay] /\ sent \in [0..MaxNow -> Nat]
  <2>1. PICK n \in {0, MaxPerDay} : /\ quota = [window |-> 0, count |-> n]
                                    /\ sent = [t \in 0..MaxNow |-> IF t = Day - 1 THEN n ELSE 0]
    BY DEF Init
  <2>2. n \in 0..MaxPerDay /\ n \in Nat BY BoundsAssumption
  <2> QED BY <1>5, <2>1, <2>2
<1>8. TypeOK
  <2>1. stamps \in 0..(MaxRequests + MaxEdits) BY <1>4, Bounds
  <2>2. heard \in [status : Status, stamp : Stamps] /\ lost \in [Recipients -> Stamps]
    BY <1>4, <1>5
  <2>3. mirror \in Event \cup {None} BY <1>1, <1>2
  <2> QED BY <1>2, <1>3, <1>4, <1>5, <1>6, <1>7, <2>1, <2>2, <2>3 DEF TypeOK, AgendaType
<1>9. CountInv
  <2>1. Pending = {} BY <1>3, IdleTyped DEF Pending
  <2>2. IsFiniteSet(Pending) /\ Cardinality(Pending) = 0 BY <2>1, FS_EmptySet
  <2>3. Room = 0 BY <1>4, <2>2 DEF Room
  <2> QED BY <1>1, <1>2, <1>3, <1>4, <1>6, <2>2, <2>3, IdleTyped DEF CountInv
<1>10. RequestInv BY <1>1, <1>2, <1>3, IdleTyped DEF RequestInv
<1>11. CASE proton.org = Third
  <2>1. proton # None /\ Listed(proton) # {} BY <1>2, <1>11, EventRow DEF People
  <2>2. Theirs BY <1>3, <1>11, <2>1, IdleTyped DEF Theirs
  <2> QED BY <1>8, <1>9, <1>10, <2>2 DEF InviteInv
<1>12. CASE proton.org # Third
  <2>1. Ours BY <1>1, <1>3, <1>12, IdleTyped, NoneRow, PeopleAssumption DEF Ours
  <2> QED BY <1>8, <1>9, <1>10, <2>1 DEF InviteInv
<1> QED BY <1>11, <1>12

LEMMA InviteNext == InviteInv /\ [Next]_vars => InviteInv'
<1> SUFFICES ASSUME InviteInv, [Next]_vars PROVE InviteInv' OBVIOUS
<1>1. CASE UNCHANGED vars
  BY <1>1 DEF vars, counters, InviteInv, TypeOK, CountInv, Pending, Room, RequestInv, Ours, Theirs
<1>3. ASSUME NEW c \in Clients, PutStart(c) PROVE Kept BY <1>3, PutStarts DEF Kept
<1>4. ASSUME NEW c \in Clients, Handler(c) PROVE Kept
  BY <1>4, EndsKept, CreateKept, UpdateKept, AnswerKept, DropKept, DeleteKept, SendKept,
     FinishKept, Zenon DEF Handler
<1>5. Kept => InviteInv' BY DEF Kept, InviteInv
<1>6. Others => Kept BY OthersKept DEF Kept
<1> QED BY <1>1, <1>3, <1>4, <1>5, <1>6, TickKept, PollKept, DeleteStarts DEF Next

\* Every state is well typed: among the rest, no more changes are counted, and no
\* SEQUENCE grows larger, than there were requests and changes of others, and the
\* quota's count stays within a day's messages.
THEOREM InviteTypes == Spec => []TypeOK
<1>1. InviteInv => TypeOK BY DEF InviteInv
<1> QED BY InviteInit, InviteNext, <1>1, PTL DEF Spec

LEMMA InviteInvariant == Spec => []InviteInv
BY InviteInit, InviteNext, PTL DEF Spec

-----------------------------------------------------------------------------
(* What an update is announced with, and what a request leaves of somebody   *)
(* else's event.                                                             *)

\* What an update is announced with is what its patch leaves, if the row is as it
\* was when the plan was made.
LEMMA SequenceStep ==
  ASSUME InviteInv, NEW c \in Clients, Update(c), ~raced', req'[c].pc = "mail",
         req'[c].due # <<{}, {}, {}>>
  PROVE  req'[c].seq = proton'.seq
<1>1. /\ req[c].pay \in Event /\ req[c].row \in Event /\ proton \in Event
      /\ NewsOf(c) \in Event /\ Listed(NewsOf(c)) = Listed(req[c].pay)
  BY UpdateIs
<1>2. PICK replace \in BOOLEAN :
        /\ replace <=> req[c].plan /\ Listed(req[c].pay) # Listed(req[c].row)
        /\ Came(c, Patched(proton, NewsOf(c), replace), DueOf(c), SeqOf(c))
  BY UpdateKept
<1>3. req'[c].due = DueOf(c) /\ req'[c].seq = SeqOf(c)
  BY <1>2, IdleTyped DEF Came, Posted
<1>4. req[c].plan BY <1>3 DEF DueOf
<1>5. SeqOf(c) = IF Structural(NewsOf(c), req[c].row) \/ Listed(req[c].pay) # Listed(req[c].row)
                 THEN req[c].row.seq + 1 ELSE req[c].row.seq
  BY <1>1, <1>4, PlanIs DEF SeqOf, NewsOf
<1>6. Announced(proton) = Announced(req[c].row) BY DEF Update
<1>7. /\ proton.when = req[c].row.when /\ proton.rule = req[c].row.rule
      /\ proton.ex = req[c].row.ex /\ proton.seq = req[c].row.seq
      /\ Listed(proton) = Listed(req[c].row)
  <2>1. proton # None /\ req[c].row # None BY <1>1, EventRow
  <2>2. Announced(proton).rule = Announced(req[c].row).rule BY <1>6
  <2>3. proton.rule = req[c].row.rule BY <2>1, <2>2 DEF Announced
  <2> QED BY <1>6, <2>1, <2>3 DEF Announced
<1>8. Structural(NewsOf(c), req[c].row) <=> Restructured(NewsOf(c), proton)
  BY <1>1, <1>7, SameBump
<1>9. proton.seq < MaxSeq BY CallOn, <1>1, EventRow, Bounds
<1>10. proton' = Patched(proton, NewsOf(c), replace) BY <1>2 DEF Came
<1>11. proton'.seq = IF (replace /\ Listed(NewsOf(c)) # Listed(proton))
                        \/ Restructured(NewsOf(c), proton)
                     THEN proton.seq + 1 ELSE proton.seq
  BY <1>1, <1>9, <1>10, PatchedTyped
<1>12. replace /\ Listed(NewsOf(c)) # Listed(proton) <=> Listed(req[c].pay) # Listed(req[c].row)
  BY <1>1, <1>2, <1>4, <1>7
<1> QED BY <1>3, <1>5, <1>7, <1>8, <1>11, <1>12

\* "the iMIP carries the post-update SEQUENCE": whatever the clients, Proton and
\* the organizers did before, the messages of an update announce the SEQUENCE that
\* its patch leaves in Proton, if the row is announced as it was when it was read.
THEOREM UpdatesAnnounceWhatTheyWrite == Spec => CarriesWrittenSequence
<1>1. InviteInv /\ [Next]_vars =>
        [\A c \in Clients :
           Update(c) /\ ~raced' /\ req'[c].pc = "mail" /\ req'[c].due # <<{}, {}, {}>>
             => req'[c].seq = proton'.seq]_vars
  BY SequenceStep
<1> QED BY InviteInvariant, <1>1, PTL DEF Spec, CarriesWrittenSequence

\* A row that differs from another in the owner's answer, the exclusions, the
\* SEQUENCE and the exception row at most.
Amended(e) ==
  proton' = [e EXCEPT !.att[Me] = proton'.att[Me], !.ex = proton'.ex,
                      !.seq = proton'.seq, !.over = proton'.over]

AmendedBy(e, a, x, s, v) == [e EXCEPT !.att = a, !.ex = x, !.seq = s, !.over = v]

LEMMA AmendedRow ==
  ASSUME NEW e \in Event, NEW a \in [People -> Status], NEW x \in SUBSET Days,
         NEW s \in 0..MaxSeq, NEW v \in BOOLEAN
  PROVE  AmendedBy(e, a, x, s, v)
           = RowOf(e.org, a, e.when, e.place, e.text, e.rule, x, e.dead, v, s)
<1> DEFINE f == [e EXCEPT !.att = a, !.ex = x, !.seq = s]
           q == [f EXCEPT !.over = v]
<1>1. f \in Event BY DEF Event
<1>2. /\ f.org = e.org /\ f.att = a /\ f.when = e.when /\ f.place = e.place /\ f.text = e.text
      /\ f.ex = x /\ f.seq = s
  BY DEF Event
<1>3. f.rule = e.rule BY DEF Event
<1>4. f.dead = e.dead BY DEF Event
<1>5. q = AmendedBy(e, a, x, s, v) BY DEF AmendedBy, Event
<1> HIDE DEF f
<1>6. q \in Event BY <1>1, RowChanged
<1>7. /\ q.org = f.org /\ q.att = f.att /\ q.when = f.when /\ q.place = f.place
      /\ q.text = f.text /\ q.ex = f.ex /\ q.seq = f.seq
  BY <1>1 DEF Event
<1>8. q.rule = f.rule BY <1>1 DEF Event
<1>9. q.dead = f.dead BY <1>1 DEF Event
<1>10. q.over = v BY <1>1 DEF Event
<1> HIDE DEF q
<1>11. q = RowOf(q.org, q.att, q.when, q.place, q.text, q.rule, q.ex, q.dead, q.over, q.seq)
  BY <1>6, RowIs
<1>12. q = RowOf(e.org, a, e.when, e.place, e.text, e.rule, x, e.dead, v, s)
  BY <1>2, <1>3, <1>4, <1>7, <1>8, <1>9, <1>10, <1>11
<1> QED BY <1>5, <1>12

LEMMA AmendedIs ==
  ASSUME proton \in Event, proton' \in Event, proton'.org = proton.org,
         proton'.when = proton.when, proton'.place = proton.place, proton'.text = proton.text,
         proton'.rule = proton.rule, proton'.dead = proton.dead,
         proton'.att = [proton.att EXCEPT ![Me] = proton'.att[Me]]
  PROVE  Amended(proton)
<1> DEFINE a == [proton.att EXCEPT ![Me] = proton'.att[Me]]
<1>1. PICK v \in BOOLEAN : v = proton'.over BY EventRow
<1>2. AmendedBy(proton, a, proton'.ex, proton'.seq, v)
        = RowOf(proton.org, a, proton.when, proton.place, proton.text, proton.rule, proton'.ex,
                proton.dead, v, proton'.seq)
  <2>1. a \in [People -> Status] /\ proton'.ex \in SUBSET Days /\ proton'.seq \in 0..MaxSeq
    BY EventRow
  <2> HIDE DEF a
  <2> QED BY <2>1, AmendedRow
<1>3. proton' = RowOf(proton'.org, proton'.att, proton'.when, proton'.place, proton'.text,
                      proton'.rule, proton'.ex, proton'.dead, proton'.over, proton'.seq)
  BY RowIs
<1>4. proton' = AmendedBy(proton, a, proton'.ex, proton'.seq, v)
  BY <1>1, <1>2, <1>3
<1> QED BY <1>1, <1>4 DEF Amended, AmendedBy

LEMMA Unamended ==
  ASSUME proton \in Event, UNCHANGED proton
  PROVE  proton.ex \subseteq proton'.ex /\ Amended(proton)
<1>1. proton.att = [proton.att EXCEPT ![Me] = proton.att[Me]] BY EventRow
<1>2. proton' \in Event OBVIOUS
<1> QED BY <1>1, <1>2, AmendedIs

\* What a request does to a row that somebody else organizes and that it was
\* decided on.
LEMMA ForeignStep ==
  ASSUME InviteInv, NEW c \in Clients, Handler(c), Foreign(proton), req[c].row = proton,
         proton' # None
  PROVE  proton.ex \subseteq proton'.ex /\ Amended(proton)
<1>1. proton \in Event /\ proton # None /\ proton.org # Me /\ Listed(proton) # {}
  BY CallOn, NoneRow DEF Foreign
<1>2. proton.seq < MaxSeq BY CallOn, <1>1, Bounds
<1>3. proton.att = [proton.att EXCEPT ![Me] = proton.att[Me]] BY <1>1, EventRow
<1> DEFINE Goal == proton.ex \subseteq proton'.ex /\ Amended(proton)
<1>4. ASSUME UNCHANGED proton PROVE Goal BY <1>1, <1>4, Unamended
<1>5. ASSUME Create(c) PROVE FALSE BY <1>1, <1>5, CallOn DEF Create, Admitted
<1>6. ASSUME Update(c) PROVE Goal
  <2>1. /\ req[c].pc = "update" /\ ~req[c].plan /\ Unconcerned(req[c].pay, proton)
    BY <1>1, <1>6, CallOn DEF Update, Admitted
  <2>2. /\ req[c].pay \in Event /\ NewsOf(c) \in Event
        /\ Listed(NewsOf(c)) = Listed(req[c].pay)
    BY <1>6, UpdateIs
  <2>3. OccurrenceDeletionOnly(req[c].pay, proton) BY <1>1, <2>1 DEF Unconcerned
  <2>4. PICK replace \in BOOLEAN :
          /\ ~replace /\ Came(c, Patched(proton, NewsOf(c), replace), DueOf(c), SeqOf(c))
    BY <1>6, <2>1, UpdateKept
  <2>5. proton' = Patched(proton, NewsOf(c), replace) BY <2>4 DEF Came
  <2>6. /\ proton' \in Event
        /\ proton'.when = NewsOf(c).when /\ proton'.place = NewsOf(c).place
        /\ proton'.text = NewsOf(c).text
        /\ proton'.dead = NewsOf(c).dead /\ proton'.rule = NewsOf(c).rule
        /\ NewsOf(c).rule => proton'.ex = NewsOf(c).ex
        /\ proton'.att = proton.att /\ proton'.org = proton.org
    <3>1. proton' \in Event BY <1>1, <1>2, <2>2, <2>5, PatchedTyped
    <3>2. /\ proton'.when = NewsOf(c).when /\ proton'.place = NewsOf(c).place
          /\ proton'.text = NewsOf(c).text
      BY <1>1, <1>2, <2>2, <2>5, PatchedTyped
    <3>3. proton'.dead = NewsOf(c).dead BY <1>1, <1>2, <2>2, <2>5, PatchedTyped
    <3>4. proton'.rule = NewsOf(c).rule BY <1>1, <1>2, <2>2, <2>5, PatchedTyped
    <3>5. NewsOf(c).rule => proton'.ex = NewsOf(c).ex BY <1>1, <1>2, <2>2, <2>5, PatchedTyped
    <3>6. proton'.att = proton.att /\ proton'.org = proton.org
      BY <1>1, <1>2, <2>2, <2>4, <2>5, PatchedTyped
    <3> QED BY <3>1, <3>2, <3>3, <3>4, <3>5, <3>6
  <2>7. /\ NewsOf(c).when = req[c].pay.when /\ NewsOf(c).place = req[c].pay.place
        /\ NewsOf(c).text = req[c].pay.text /\ req[c].pay.ex \subseteq NewsOf(c).ex
    BY <1>1, <2>2, MergedTyped DEF NewsOf
  <2>8. NewsOf(c).dead = req[c].pay.dead BY <1>1, <2>2, MergedTyped DEF NewsOf
  <2>9. NewsOf(c).rule = req[c].pay.rule BY <1>1, <2>2, MergedTyped DEF NewsOf
  <2>10. /\ req[c].pay.rule /\ proton.rule /\ proton.ex \subseteq req[c].pay.ex
         /\ req[c].pay.when = proton.when /\ req[c].pay.place = proton.place
         /\ req[c].pay.text = proton.text
    BY <2>3 DEF OccurrenceDeletionOnly
  <2>11. req[c].pay.dead = proton.dead BY <2>3 DEF OccurrenceDeletionOnly
  <2>12. req[c].pay.rule = proton.rule
    <3>1. req[c].pay.rule \in BOOLEAN /\ proton.rule \in BOOLEAN BY <1>1, <2>2, EventRow
    <3> QED BY <2>10, <3>1
  <2>13. proton'.dead = proton.dead BY <2>6, <2>8, <2>11
  <2>14. proton'.rule = proton.rule BY <2>6, <2>9, <2>12
  <2>15. proton'.ex = NewsOf(c).ex
    <3>1. NewsOf(c).rule BY <2>9, <2>10
    <3> QED BY <2>6, <3>1
  <2>16. Amended(proton) BY <1>1, <1>3, <2>6, <2>7, <2>10, <2>13, <2>14, AmendedIs
  <2> QED BY <2>7, <2>10, <2>15, <2>16
<1>7. ASSUME Answer(c) PROVE Goal
  <2> DEFINE new == WithStatus(proton, Me, req[c].reply)
  <2>1. proton' = new BY <1>7, AnswerKept DEF Came
  <2>2. req[c].reply \in Status /\ Me \in People BY CallOn, RequestFields DEF People
  <2>3. /\ proton' \in Event /\ proton'.org = proton.org /\ proton'.when = proton.when
        /\ proton'.place = proton.place /\ proton'.att = [proton.att EXCEPT ![Me] = req[c].reply]
    BY <1>1, <2>1, <2>2, RowAnswered
  <2>4. proton'.text = proton.text /\ proton'.ex = proton.ex BY <1>1, <2>1 DEF WithStatus, Event
  <2>5. proton'.rule = proton.rule BY <1>1, <2>1 DEF WithStatus, Event
  <2>6. proton'.dead = proton.dead BY <1>1, <2>1 DEF WithStatus, Event
  <2>7. proton'.att = [proton.att EXCEPT ![Me] = proton'.att[Me]]
    BY <1>1, <2>2, <2>3, EventRow
  <2> QED BY <1>1, <2>3, <2>4, <2>5, <2>6, <2>7, AmendedIs
<1>8. ASSUME Drop(c) \/ Delete(c) PROVE FALSE
  BY <1>8, DropKept, DeleteKept DEF Came
<1>9. ASSUME NEW p \in Recipients, Send(c, p) PROVE Goal BY <1>4, <1>9 DEF Send
<1>10. ASSUME Finish(c) PROVE Goal
  <2>1. PICK v \in BOOLEAN : proton' = WithOver(proton, v)
    BY <1>1, <1>10, FinishKept DEF SameButOver
  <2>2. /\ proton' \in Event /\ proton'.org = proton.org /\ proton'.att = proton.att
        /\ proton'.when = proton.when /\ proton'.place = proton.place /\ proton'.ex = proton.ex
    BY <1>1, <2>1, RowOver
  <2>3. proton'.text = proton.text BY <1>1, <2>1 DEF WithOver, Event
  <2>4. proton'.rule = proton.rule BY <1>1, <2>1 DEF WithOver, Event
  <2>5. proton'.dead = proton.dead BY <1>1, <2>1 DEF WithOver, Event
  <2> QED BY <1>1, <1>3, <2>2, <2>3, <2>4, <2>5, AmendedIs
<1>11. ASSUME CallFails(c) \/ NotFound(c) PROVE Goal BY <1>4, <1>11, EndsKept
<1> HIDE DEF Goal
<1>12. Goal BY <1>5, <1>6, <1>7, <1>8, <1>9, <1>10, <1>11 DEF Handler
<1> QED BY <1>12 DEF Goal

\* "the 'never rewrite someone else's event' rule" for the master row: whatever a
\* client sends, and whoever else writes meanwhile, a request that meets the row it
\* was decided on leaves of it all but the owner's answer and more exclusions.
THEOREM NeverRewritten == Spec => ForeignKept
<1> DEFINE Step(c) ==
       req'[c] # req[c] /\ Foreign(proton) /\ req[c].row = proton /\ proton' # None =>
         /\ proton.ex \subseteq proton'.ex
         /\ proton' = [proton EXCEPT !.att[Me] = proton'.att[Me], !.ex = proton'.ex,
                                     !.seq = proton'.seq, !.over = proton'.over]
<1>1. ASSUME InviteInv, Next, NEW c \in Clients, req'[c] # req[c], Foreign(proton),
             req[c].row = proton, proton' # None
      PROVE  proton.ex \subseteq proton'.ex /\ Amended(proton)
  <2>1. ASSUME NEW d \in Clients, PutStart(d) \/ DeleteStart(d) \/ Handler(d) PROVE d = c
    <3>1. \A x \in Clients \ {d} : req'[x] = req[x]
      <4>1. CASE PutStart(d) BY <1>1, <4>1, PutStarts
      <4>2. CASE DeleteStart(d) BY <1>1, <4>2, DeleteStarts
      <4>3. CASE Handler(d)
        BY <1>1, <4>3, EndsKept, CreateKept, UpdateKept, AnswerKept, DropKept, DeleteKept,
           SendPosts, FinishKept DEF Handler, Came, Posting
      <4> QED BY <2>1, <4>1, <4>2, <4>3
    <3> QED BY <1>1, <3>1
  <2>2. ~Tick /\ ~Poll /\ ~Others
    <3>1. Others => req' = req BY <1>1, OthersRow DEF OtherWrites
    <3> QED BY <1>1, <3>1 DEF Tick, Poll
  <2>3. CASE PutStart(c) \/ DeleteStart(c)
    <3>1. proton \in Event BY <1>1, CallOn, NoneRow DEF Foreign
    <3> QED BY <2>3, <3>1, Unamended DEF PutStart, DeleteStart
  <2>4. CASE Handler(c) BY <1>1, <2>4, ForeignStep
  <2> QED BY <1>1, <2>1, <2>2, <2>3, <2>4 DEF Next
<1>2. InviteInv /\ [Next]_vars => [\A c \in Clients : Step(c)]_vars
  BY <1>1 DEF Amended
<1> QED BY InviteInvariant, <1>2, PTL DEF Spec, ForeignKept

-----------------------------------------------------------------------------
(* What becomes of the mail.                                                *)

\* A call that wrote: the messages are to be sent, or their recipients lost them.
Mailed(c, new, due, seq) ==
  /\ Came(c, new, due, seq)
  /\ UNCHANGED <<agenda, heard>>
  /\ \/ Posted(c, due, seq) /\ UNCHANGED lost
     \/ /\ req'[c] = Idle
        /\ lost' = [q \in Recipients |->
             IF q \in due[1] \cup due[2] \cup due[3] THEN stamps' ELSE lost[q]]

LEMMA WroteMails ==
  ASSUME InviteInv, NEW c \in Clients, NEW new, NEW instead, NEW due, NEW seq,
         Wrote(c, new, instead, due, seq), Came(c, new, due, seq)
  PROVE  Mailed(c, new, due, seq)
<1>1. UNCHANGED <<agenda, heard>> BY DEF Wrote
<1>2. req \in [Clients -> RequestType] BY CallOn DEF TypeOK
<1>3. ASSUME NEW s \in Stamps, UNCHANGED lost,
             req' = [req EXCEPT ![c].pc = "mail", ![c].due = due, ![c].seq = seq, ![c].stamp = s]
      PROVE  Mailed(c, new, due, seq)
  <2>1. req'[c].pc = "mail" BY <1>2, <1>3 DEF RequestType
  <2>2. Posted(c, due, seq) BY <2>1, IdleTyped DEF Came
  <2> QED BY <1>1, <1>3, <2>2 DEF Mailed
<1>4. CASE /\ req' = [req EXCEPT ![c] = Idle]
           /\ lost' = [q \in Recipients |->
                IF q \in due[1] \cup due[2] \cup due[3] THEN stamps' ELSE lost[q]]
  <2>1. req'[c] = Idle BY <1>2, <1>4
  <2> QED BY <1>1, <1>4, <2>1 DEF Mailed
<1> QED BY <1>3, <1>4 DEF Wrote

\* A request without a message to send, before and after a step that tells nobody
\* anything.
Resting(c) == req[c].pc = "mail" => \A i \in 1..3 : req[c].due[i] = {}

Still(c) ==
  /\ Resting(c) /\ Resting(c)'
  /\ \A d \in Clients \ {c} : req'[d] = req[d]
  /\ SameButOver(proton, proton')
  /\ UNCHANGED <<agenda, heard, lost, stamps, raced>>

LEMMA StillSteps ==
  ASSUME InviteInv, NEW c \in Clients,
         \/ PutStart(c) \/ DeleteStart(c) \/ CallFails(c) \/ NotFound(c) \/ Finish(c)
  PROVE  Still(c)
<1>1. SameButOver(proton, proton) BY SameRow, CallOn
<1>2. CASE PutStart(c)
  <2>1. UNCHANGED <<proton, agenda, heard, lost, stamps, raced>> /\ req[c].pc = "idle"
    BY <1>2 DEF PutStart
  <2>2. req'[c].pc # "mail" /\ \A d \in Clients \ {c} : req'[d] = req[d] BY <1>2, PutStarts
  <2> QED BY <1>1, <2>1, <2>2 DEF Still, Resting
<1>3. CASE DeleteStart(c)
  <2>1. UNCHANGED <<proton, agenda, heard, lost, stamps, raced>> /\ req[c].pc = "idle"
    BY <1>3 DEF DeleteStart
  <2>2. req'[c].pc # "mail" /\ \A d \in Clients \ {c} : req'[d] = req[d] BY <1>3, DeleteStarts
  <2> QED BY <1>1, <2>1, <2>2 DEF Still, Resting
<1>4. CASE CallFails(c) \/ NotFound(c)
  <2>1. /\ UNCHANGED <<proton, agenda, heard, lost, raced, stamps>> /\ req'[c] = Idle
        /\ \A d \in Clients \ {c} : req'[d] = req[d]
    BY <1>4, EndsKept
  <2>2. req[c].pc # "mail" BY <1>4 DEF CallFails, NotFound
  <2>3. Resting(c) BY <2>2 DEF Resting
  <2>4. Resting(c)' BY <2>1, IdleTyped DEF Resting
  <2> QED BY <1>1, <2>1, <2>3, <2>4 DEF Still
<1>5. CASE Finish(c)
  <2>1. /\ req'[c] = Idle /\ \A d \in Clients \ {c} : req'[d] = req[d]
        /\ \A i \in 1..3 : req[c].due[i] = {}
        /\ SameButOver(proton, proton') /\ UNCHANGED <<agenda, heard, lost, raced, stamps>>
    BY <1>5, FinishKept
  <2>2. Resting(c)' BY <2>1, IdleTyped DEF Resting
  <2> QED BY <2>1, <2>2 DEF Still, Resting
<1> QED BY <1>2, <1>3, <1>4, <1>5

\* Nothing is dated after the last change, and the organizer is sent replies only.
LEMMA PostMailed ==
  ASSUME InviteInv, PostInv, ~crossed', NEW c \in Clients, NEW new, NEW seq,
         NEW due \in [1..3 -> SUBSET Recipients], Third \notin due[1] \cup due[2],
         Mailed(c, new, due, seq)
  PROVE  PostInv'
<1>1. stamps \in Nat /\ stamps' \in Nat /\ stamps <= stamps'
  BY CallOn, RoomBound DEF Mailed, Came
<1>2. heard.stamp \in Nat /\ \A q \in Recipients : lost[q] \in Nat
  BY CallOn DEF TypeOK, Stamps
<1>3. heard'.stamp <= stamps' BY <1>1, <1>2 DEF PostInv, Mailed
<1>4. ASSUME NEW q \in Recipients PROVE lost'[q] <= stamps'
  BY <1>1, <1>2 DEF PostInv, Mailed
<1>5. ASSUME NEW d \in Clients
      PROVE  req'[d].stamp <= stamps' /\ Third \notin req'[d].due[1] \cup req'[d].due[2]
  <2>1. req[d].stamp \in Nat /\ req[d].stamp <= stamps
        /\ Third \notin req[d].due[1] \cup req[d].due[2]
    BY CallOn, RequestFields DEF PostInv
  <2>2. CASE d # c BY <1>1, <2>1, <2>2 DEF Mailed, Came
  <2>3. CASE d = c /\ req'[c] = Idle BY <1>1, <2>3, IdleTyped
  <2>4. CASE d = c /\ Posted(c, due, seq) BY <1>1, <2>4 DEF Posted
  <2> QED BY <2>2, <2>3, <2>4 DEF Mailed
<1> QED BY <1>3, <1>4, <1>5 DEF PostInv

\* Each call that writes, with the messages it leaves.
LEMMA MailedBy ==
  ASSUME InviteInv, NEW c \in Clients
  PROVE  /\ Update(c) => \E replace \in BOOLEAN :
              /\ replace <=> req[c].plan /\ Listed(req[c].pay) # Listed(req[c].row)
              /\ Mailed(c, Patched(proton, NewsOf(c), replace), DueOf(c), SeqOf(c))
         /\ Answer(c) => Mailed(c, WithStatus(proton, Me, req[c].reply), <<{}, {}, {Third}>>,
                                req[c].row.seq)
         /\ Drop(c) => Mailed(c, None, <<{}, {}, {}>>, 0)
         /\ Delete(c) =>
              Mailed(c, None, <<IF req[c].row.org = Me THEN Listed(req[c].row) ELSE {}, {}, {}>>,
                     IF req[c].row.org = Me THEN req[c].row.seq + 1 ELSE 0)
         /\ Create(c) /\ proton = None => Mailed(c, Created(req[c].pay), CreateDue(c), 0)
<1>1. ASSUME Update(c)
      PROVE  \E replace \in BOOLEAN :
              /\ replace <=> req[c].plan /\ Listed(req[c].pay) # Listed(req[c].row)
              /\ Mailed(c, Patched(proton, NewsOf(c), replace), DueOf(c), SeqOf(c))
  <2>1. PICK replace \in BOOLEAN :
          /\ replace <=> req[c].plan /\ Listed(req[c].pay) # Listed(req[c].row)
          /\ Wrote(c, Patched(proton, NewsOf(c), replace), Synthesized(NewsOf(c)),
                   DueOf(c), SeqOf(c))
          /\ Came(c, Patched(proton, NewsOf(c), replace), DueOf(c), SeqOf(c))
    BY <1>1, UpdateKept
  <2> DEFINE new == Patched(proton, NewsOf(c), replace)
             instead == Synthesized(NewsOf(c))
  <2>2. Wrote(c, new, instead, DueOf(c), SeqOf(c)) /\ Came(c, new, DueOf(c), SeqOf(c))
    BY <2>1
  <2> HIDE DEF new, instead
  <2>3. Mailed(c, new, DueOf(c), SeqOf(c)) BY <2>2, WroteMails
  <2> QED BY <2>1, <2>3 DEF new
<1>2. ASSUME Answer(c)
      PROVE  Mailed(c, WithStatus(proton, Me, req[c].reply), <<{}, {}, {Third}>>, req[c].row.seq)
  <2> DEFINE new == WithStatus(proton, Me, req[c].reply)
             due == <<{}, {}, {Third}>>
  <2>1. Wrote(c, new, mirror, due, req[c].row.seq) /\ Came(c, new, due, req[c].row.seq)
    BY <1>2, AnswerKept
  <2> HIDE DEF new, due
  <2>2. Mailed(c, new, due, req[c].row.seq) BY <2>1, WroteMails
  <2> QED BY <2>2 DEF new, due
<1>3. ASSUME Drop(c) PROVE Mailed(c, None, <<{}, {}, {}>>, 0)
  BY <1>3, DropKept, WroteMails DEF Drop
<1>4. ASSUME Delete(c)
      PROVE  Mailed(c, None, <<IF req[c].row.org = Me THEN Listed(req[c].row) ELSE {}, {}, {}>>,
                    IF req[c].row.org = Me THEN req[c].row.seq + 1 ELSE 0)
  <2> DEFINE due == <<IF req[c].row.org = Me THEN Listed(req[c].row) ELSE {}, {}, {}>>
             seq == IF req[c].row.org = Me THEN req[c].row.seq + 1 ELSE 0
  <2>1. Wrote(c, None, None, due, seq) /\ Came(c, None, due, seq) BY <1>4, DeleteKept
  <2> HIDE DEF due, seq
  <2>2. Mailed(c, None, due, seq) BY <2>1, WroteMails
  <2> QED BY <2>2 DEF due, seq
<1>5. ASSUME Create(c), proton = None
      PROVE  Mailed(c, Created(req[c].pay), CreateDue(c), 0)
  <2> DEFINE new == Created(req[c].pay)
             instead == Synthesized(req[c].pay)
  <2>1. Wrote(c, new, instead, CreateDue(c), 0) /\ Came(c, new, CreateDue(c), 0)
    BY <1>5, CreateKept
  <2> HIDE DEF new, instead
  <2>2. Mailed(c, new, CreateDue(c), 0) BY <2>1, WroteMails
  <2> QED BY <2>2 DEF new
<1> QED BY <1>1, <1>2, <1>3, <1>4, <1>5

LEMMA ThirdIsNobodyHere == Third \notin People /\ Third \in Recipients /\ Guests \subseteq Recipients
BY PeopleAssumption DEF People, Recipients

LEMMA PostNext == InviteInv /\ PostInv /\ [Next]_vars /\ ~crossed' => PostInv'
<1> SUFFICES ASSUME InviteInv, PostInv, [Next]_vars, ~crossed' PROVE PostInv' OBVIOUS
<1>1. /\ stamps \in Nat /\ heard.stamp \in Nat /\ \A q \in Recipients : lost[q] \in Nat
      /\ \A c \in Clients : req[c].stamp \in Nat
  BY RoomBound, RequestFields DEF InviteInv, TypeOK, Stamps
<1>2. CASE UNCHANGED vars \/ Tick \/ Poll
  BY <1>2 DEF vars, counters, Tick, Poll, PostInv
<1>3. CASE Others
  <2>1. OtherWrites(proton') /\ TypeOK' /\ proton \in Event BY <1>3, OthersRow, OthersKept
  <2>2. stamps' = stamps + 1 /\ req' = req BY <2>1 DEF OtherWrites
  <2>3. heard'.stamp <= stamps'
    <3>1. heard' = heard \/ \E s \in Replies : heard' = [status |-> s, stamp |-> stamps']
      BY <1>3 DEF Others, OtherMoves, OtherInvites, OtherCancels, OtherDeletes, OtherAnswers
    <3> QED BY <1>1, <2>2, <3>1 DEF PostInv
  <2>4. ASSUME NEW q \in Recipients PROVE lost'[q] \in {lost[q], 0}
    <3>1. lost \in [Recipients -> Stamps] BY DEF InviteInv, TypeOK, Stamps
    <3>2. ASSUME NEW e, NEW people, NEW seq, Told(e, people, seq) PROVE lost'[q] \in {lost[q], 0}
      BY <3>2 DEF Told
    <3> QED BY <1>3, <3>1, <3>2
         DEF Others, OtherMoves, OtherInvites, OtherCancels, OtherDeletes, OtherAnswers
  <2>5. \A q \in Recipients : lost'[q] <= stamps' BY <1>1, <2>2, <2>4 DEF PostInv
  <2> QED BY <1>1, <2>2, <2>3, <2>5 DEF PostInv
<1>4. ASSUME NEW c \in Clients, Still(c),
             req'[c].stamp = 0 /\ req'[c].due = <<{}, {}, {}>>
      PROVE  PostInv'
  BY <1>1, <1>4 DEF Still, PostInv
<1>5. ASSUME NEW c \in Clients,
             PutStart(c) \/ DeleteStart(c) \/ CallFails(c) \/ NotFound(c) \/ Finish(c)
      PROVE  PostInv'
  <2>1. Still(c) BY <1>5, StillSteps
  <2>2. req'[c].stamp = 0 /\ req'[c].due = <<{}, {}, {}>>
    BY <1>5, PutStarts, DeleteStarts, EndsKept, FinishKept, IdleTyped
  <2> QED BY <1>4, <2>1, <2>2
<1>6. ASSUME NEW c \in Clients, Update(c) PROVE PostInv'
  <2>1. PICK replace \in BOOLEAN : Mailed(c, Patched(proton, NewsOf(c), replace), DueOf(c), SeqOf(c))
    BY <1>6, MailedBy
  <2> DEFINE new == Patched(proton, NewsOf(c), replace)
  <2>2. Third \notin DueOf(c)[1] \cup DueOf(c)[2]
    <3>1. req[c].pay \in Event /\ req[c].row \in Event BY <1>6, UpdateIs
    <3>2. DueOf(c)[1] \subseteq People /\ DueOf(c)[2] \subseteq People
      <4>1. CASE req[c].plan
        <5>1. Plan(req[c].pay, req[c].row).due \in [1..3 -> SUBSET People] BY <3>1, PlanIs
        <5>2. DueOf(c) \in [1..3 -> SUBSET People] BY <4>1, <5>1 DEF DueOf
        <5> HIDE DEF DueOf
        <5> QED BY <5>2
      <4>2. CASE ~req[c].plan
        <5>1. DueOf(c) = <<{}, {}, {}>> BY <4>2 DEF DueOf
        <5> QED BY <5>1
      <4> QED BY <4>1, <4>2
    <3> QED BY <3>2, ThirdIsNobodyHere
  <2>3. DueOf(c) \in [1..3 -> SUBSET Recipients] BY <1>6, UpdateIs
  <2> HIDE DEF new
  <2>4. Mailed(c, new, DueOf(c), SeqOf(c)) BY <2>1 DEF new
  <2> QED BY <2>2, <2>3, <2>4, PostMailed
<1>7. ASSUME NEW c \in Clients, Answer(c) PROVE PostInv'
  <2> DEFINE new == WithStatus(proton, Me, req[c].reply)
             due == <<{}, {}, {Third}>>
  <2>1. Mailed(c, new, due, req[c].row.seq) BY <1>7, MailedBy
  <2>2. due \in [1..3 -> SUBSET Recipients] /\ Third \notin due[1] \cup due[2]
    <3>1. {Third} \in SUBSET Recipients BY ThirdIsNobodyHere
    <3> QED BY <3>1
  <2> HIDE DEF new, due
  <2> QED BY <2>1, <2>2, PostMailed
<1>8. ASSUME NEW c \in Clients, Drop(c) PROVE PostInv'
  <2> DEFINE due == <<{}, {}, {}>>
  <2>1. Mailed(c, None, due, 0) BY <1>8, MailedBy
  <2>3. due \in [1..3 -> SUBSET Recipients] BY NobodyDue
  <2>2. Third \notin due[1] \cup due[2] OBVIOUS
  <2> HIDE DEF due
  <2> QED BY <2>1, <2>2, <2>3, PostMailed
<1>9. ASSUME NEW c \in Clients, Delete(c) PROVE PostInv'
  <2> DEFINE people == IF req[c].row.org = Me THEN Listed(req[c].row) ELSE {}
             due == <<people, {}, {}>>
             seq == IF req[c].row.org = Me THEN req[c].row.seq + 1 ELSE 0
  <2>1. Mailed(c, None, due, seq) BY <1>9, MailedBy
  <2>2. people \subseteq Recipients /\ people \subseteq People
    <3>1. req[c].row \in Event /\ (req[c].row.org = Me => Me \notin Listed(req[c].row))
      BY <1>9, DeleteKept
    <3> QED BY <3>1, GuestsOnly, EventRow
  <2>3. due \in [1..3 -> SUBSET Recipients] /\ Third \notin due[1] \cup due[2]
    <3> HIDE DEF people
    <3> QED BY <2>2, ThirdIsNobodyHere
  <2> HIDE DEF due, seq
  <2> QED BY <2>1, <2>3, PostMailed
<1>10. ASSUME NEW c \in Clients, Create(c) PROVE PostInv'
  <2>1. CreateDue(c) \in [1..3 -> SUBSET Recipients] /\ req[c].pay \in Event BY <1>10, CreateKept
  <2>2. Third \notin CreateDue(c)[1] \cup CreateDue(c)[2]
    <3>1. Third \notin Listed(req[c].pay) BY <2>1, EventRow, ThirdIsNobodyHere
    <3> QED BY <3>1 DEF CreateDue
  <2>3. CASE proton = None
    <3> DEFINE new == Created(req[c].pay)
    <3>1. Mailed(c, new, CreateDue(c), 0) BY <1>10, <2>3, MailedBy
    <3> HIDE DEF new
    <3> QED BY <2>1, <2>2, <3>1, PostMailed
  <2>4. CASE proton # None
    <3>1. /\ Posted(c, CreateDue(c), req[c].seq)
          /\ UNCHANGED <<stamps, lost, heard>> /\ \A d \in Clients \ {c} : req'[d] = req[d]
      BY <1>10, <2>4, CreateKept
    <3>2. req'[c].stamp = stamps /\ req'[c].due = CreateDue(c) BY <3>1 DEF Posted
    <3> HIDE DEF CreateDue
    <3> QED BY <1>1, <2>2, <3>1, <3>2 DEF PostInv
  <2> QED BY <2>3, <2>4
<1>11. ASSUME NEW c \in Clients, NEW p \in Recipients, Send(c, p) PROVE PostInv'
  <2>1. Posting(c, p) BY <1>11, SendPosts
  <2>2. UNCHANGED stamps /\ req[c].stamp <= stamps BY <1>11 DEF Send, PostInv
  <2>3. heard'.stamp <= stamps'
    <3>1. heard' = heard \/ heard' = [status |-> Reply(c), stamp |-> req[c].stamp]
      BY <1>11 DEF Send, Delivered
    <3> QED BY <2>2, <3>1 DEF PostInv
  <2>4. \A q \in Recipients : lost'[q] <= stamps'
    <3>1. lost \in [Recipients -> Stamps] BY DEF InviteInv, TypeOK, Stamps
    <3>2. Max({lost[p], req[c].stamp}) \in {lost[p], req[c].stamp}
      BY <1>1, MaxOfTwo
    <3>3. \/ lost' = [lost EXCEPT ![p] = IF req[c].stamp < @ THEN @ ELSE 0]
          \/ lost' = [lost EXCEPT ![p] = Max({@, req[c].stamp})]
      BY <1>11 DEF Send, Missed
    <3> QED BY <1>1, <2>2, <3>1, <3>2, <3>3 DEF PostInv
  <2>5. ASSUME NEW d \in Clients
        PROVE  req'[d].stamp <= stamps' /\ Third \notin req'[d].due[1] \cup req'[d].due[2]
    <3>1. \A i \in 1..3 : req'[c].due[i] \subseteq req[c].due[i] BY <2>1 DEF Posting
    <3>2. req'[c].stamp = req[c].stamp BY <2>1 DEF Posting
    <3>3. CASE d = c BY <2>2, <3>1, <3>2, <3>3 DEF PostInv
    <3>4. CASE d # c BY <2>1, <2>2, <3>4 DEF PostInv, Posting
    <3> QED BY <3>3, <3>4
  <2> QED BY <2>3, <2>4, <2>5 DEF PostInv
<1> QED BY <1>2, <1>3, <1>5, <1>6, <1>7, <1>8, <1>9, <1>10, <1>11 DEF Next, Handler

\* A DTSTAMP out of order is remembered.
LEMMA CrossedStays == [Next]_vars /\ ~crossed' => ~crossed
<1> SUFFICES ASSUME [Next]_vars, crossed PROVE crossed' OBVIOUS
<1>1. CASE UNCHANGED vars \/ Tick \/ Poll
  <2>1. crossed' = crossed BY <1>1 DEF vars, Tick, Poll
  <2> QED BY <2>1, Zenon
<1>2. CASE Others
  <2>1. crossed' = crossed
    BY <1>2 DEF Others, OtherMoves, OtherInvites, OtherCancels, OtherDeletes, OtherAnswers,
                OtherWrites
  <2> QED BY <2>1, Zenon
<1>3. ASSUME NEW c \in Clients,
             \/ PutStart(c) \/ DeleteStart(c) \/ CallFails(c) \/ NotFound(c) \/ Finish(c)
             \/ \E p \in Recipients : Send(c, p)
             \/ Create(c) /\ proton # None
      PROVE  crossed'
  <2>1. crossed' = crossed
    BY <1>3 DEF PutStart, DeleteStart, CallFails, NotFound, Finish, Send, Create
  <2> QED BY <2>1, Zenon
<1>4. ASSUME NEW c \in Clients, NEW new, NEW instead, NEW due, NEW seq,
             Wrote(c, new, instead, due, seq)
      PROVE  crossed'
  <2>1. CASE crossed' = crossed BY <2>1, Zenon
  <2>2. ASSUME NEW s, Dtstamp(due, s) PROVE crossed' BY <2>2, DtstampIs
  <2> QED BY <1>4, <2>1, <2>2 DEF Wrote
<1>5. ASSUME NEW c \in Clients,
             Update(c) \/ Answer(c) \/ Drop(c) \/ Delete(c) \/ (Create(c) /\ proton = None)
      PROVE  crossed'
  BY <1>4, <1>5 DEF Update, Answer, Drop, Delete, Create
<1> QED BY <1>1, <1>2, <1>3, <1>5 DEF Next, Handler

LEMMA PostInit == Init => PostInv
<1> SUFFICES ASSUME Init PROVE PostInv OBVIOUS
<1>1. /\ req = [c \in Clients |-> Idle] /\ heard = [status |-> 0, stamp |-> 0]
      /\ lost = [q \in Recipients |-> 0] /\ stamps = 0
  BY DEF Init
<1> QED BY <1>1, IdleTyped DEF PostInv

-----------------------------------------------------------------------------
(* What the organizer knows.                                                *)

AnsweredOK == \A s, x : Answered(s, x) => s \in 0..stamps /\ s \in Nat /\ x \in Status

LEMMA AnsweredTyped == InviteInv /\ PostInv => AnsweredOK
<1> SUFFICES ASSUME InviteInv, PostInv, NEW s, NEW x, Answered(s, x)
             PROVE  s \in 0..stamps /\ s \in Nat /\ x \in Status
  BY DEF AnsweredOK
<1>1. stamps \in Nat BY RoomBound DEF InviteInv
<1>2. CASE s = heard.stamp /\ x = heard.status
  <2>1. heard.stamp \in Nat /\ heard.status \in Status BY DEF InviteInv, TypeOK, Stamps
  <2> QED BY <1>1, <1>2, <2>1 DEF PostInv
<1>3. ASSUME NEW c \in Clients, s = req[c].stamp, x = req[c].reply
      PROVE  s \in 0..stamps /\ s \in Nat /\ x \in Status
  <2>1. req[c].stamp \in Nat /\ req[c].reply \in Status BY CallOn, RequestFields
  <2> QED BY <1>1, <1>3, <2>1 DEF PostInv
<1> QED BY <1>2, <1>3 DEF Answered

LEMMA AnsweredNext == InviteInv' /\ PostInv' => AnsweredOK'
BY AnsweredTyped, PTL

\* While the event is another's, the newest answer on its way is the one written.
LEMMA OrganizerUse ==
  ASSUME InviteInv, PostInv, OrganizerInv, Theirs, proton # None, NEW s, NEW x,
         Answered(s, x), \A t, y : Answered(t, y) => t <= s, lost[Third] <= s
  PROVE  x = proton.att[Me]
<1>1. s \in 0..stamps /\ x \in Status BY AnsweredTyped DEF AnsweredOK
<1>2. Latest(s) BY DEF Latest
<1> QED BY <1>1, <1>2 DEF OrganizerInv

\* A step that changes neither the answers nor the one written, ...
LEMMA OrganizerSame ==
  ASSUME InviteInv, PostInv, OrganizerInv, InviteInv', PostInv',
         \A s, x : Answered(s, x)' <=> Answered(s, x),
         lost'[Third] = lost[Third],
         Theirs' /\ proton' # None => Theirs /\ proton # None /\ proton'.att[Me] = proton.att[Me]
  PROVE  OrganizerInv'
<1> SUFFICES ASSUME Theirs', proton' # None, NEW s, NEW x, Answered(s, x)', Latest(s)',
                    lost'[Third] <= s
             PROVE  x = proton'.att[Me]
  BY DEF OrganizerInv
<1>1. ASSUME NEW t, NEW y, Answered(t, y) PROVE t <= s
  <2>1. Answered(t, y)' BY <1>1
  <2>2. t \in 0..stamps' /\ y \in Status BY <2>1, AnsweredNext DEF AnsweredOK
  <2> QED BY <2>1, <2>2 DEF Latest
<1>2. Answered(s, x) OBVIOUS
<1>3. x = proton.att[Me] BY <1>1, <1>2, OrganizerUse
<1> QED BY <1>3

\* ... or one that writes an answer and leaves it as the newest.
LEMMA OrganizerNew ==
  ASSUME InviteInv, PostInv, InviteInv', PostInv', stamps' = stamps + 1,
         NEW s0, s0 = stamps', NEW x0, x0 = proton'.att[Me], Answered(s0, x0)',
         \A s, x : Answered(s, x)' => Answered(s, x) \/ x = x0
  PROVE  OrganizerInv'
<1> SUFFICES ASSUME NEW s, NEW x, Answered(s, x)', Latest(s)'
             PROVE  x = proton'.att[Me]
  BY DEF OrganizerInv
<1>1. s0 \in 0..stamps' /\ x0 \in Status BY AnsweredNext DEF AnsweredOK
<1>2. s0 <= s BY <1>1 DEF Latest
<1>3. ~Answered(s, x)
  <2>1. stamps \in Nat BY RoomBound DEF InviteInv
  <2>2. Answered(s, x) => s \in 0..stamps BY AnsweredTyped DEF AnsweredOK
  <2> QED BY <1>2, <2>1, <2>2
<1> QED BY <1>3

LEMMA TheirsBefore ==
  ASSUME InviteInv, NEW c \in Clients, Handler(c) \/ PutStart(c) \/ DeleteStart(c), Kept,
         Theirs', proton' # None
  PROVE  Theirs /\ proton # None
<1>1. Theirs BY DEF InviteInv, Kept, Ours, Theirs
<1>2. ASSUME proton = None PROVE FALSE
  <2>1. ~Create(c) BY <1>1 DEF Create, Theirs
  <2>2. Drop(c) => proton' = None BY DropKept DEF Came
  <2>3. UNCHANGED proton => FALSE BY <1>2
  <2>4. ~Finish(c)
    <3>1. Finish(c) => SameButOver(proton, proton') BY FinishKept
    <3> QED BY <1>2, <3>1 DEF SameButOver
  <2> QED BY <1>2, <2>1, <2>2, <2>3, <2>4
       DEF Handler, PutStart, DeleteStart, CallFails, NotFound, Update, Answer, Delete, Send
<1> QED BY <1>1, <1>2

\* Mail for others than the organizer leaves the answers as they are.
LEMMA MailedAnswers ==
  ASSUME NEW c \in Clients, NEW new, NEW due, NEW seq, Mailed(c, new, due, seq),
         req[c].pc # "mail", Third \notin due[3], NEW s, NEW x
  PROVE  Answered(s, x)' <=> Answered(s, x)
<1>1. heard' = heard /\ \A d \in Clients \ {c} : req'[d] = req[d] BY DEF Mailed, Came
<1>2. ~(req'[c].pc = "mail" /\ Third \in req'[c].due[3])
  <2>1. CASE Posted(c, due, seq) BY <2>1 DEF Posted
  <2>2. CASE req'[c] = Idle BY <2>2, IdleTyped
  <2> QED BY <2>1, <2>2 DEF Mailed
<1>3. Answered(s, x) <=>
        \/ s = heard.stamp /\ x = heard.status
        \/ \E d \in Clients \ {c} : /\ req[d].pc = "mail" /\ Third \in req[d].due[3]
                                    /\ s = req[d].stamp /\ x = req[d].reply
  BY DEF Answered
<1>4. Answered(s, x)' <=>
        \/ s = heard.stamp /\ x = heard.status
        \/ \E d \in Clients \ {c} : /\ req[d].pc = "mail" /\ Third \in req[d].due[3]
                                    /\ s = req[d].stamp /\ x = req[d].reply
  BY <1>1, <1>2 DEF Answered
<1> QED BY <1>3, <1>4

LEMMA OrganizerStill ==
  ASSUME InviteInv, PostInv, OrganizerInv, InviteInv', PostInv', Kept, NEW c \in Clients,
         Handler(c) \/ PutStart(c) \/ DeleteStart(c), Still(c)
  PROVE  OrganizerInv'
<1>1. ASSUME NEW s, NEW x PROVE Answered(s, x)' <=> Answered(s, x)
  <2>1. heard' = heard /\ (\A d \in Clients \ {c} : req'[d] = req[d]) /\ Resting(c) /\ Resting(c)'
    BY DEF Still
  <2>2. /\ ~(req[c].pc = "mail" /\ Third \in req[c].due[3])
        /\ ~(req'[c].pc = "mail" /\ Third \in req'[c].due[3])
    BY <2>1 DEF Resting
  <2>3. ASSUME NEW d \in Clients
        PROVE  (req'[d].pc = "mail" /\ Third \in req'[d].due[3]
                  /\ s = req'[d].stamp /\ x = req'[d].reply)
               <=> (req[d].pc = "mail" /\ Third \in req[d].due[3]
                      /\ s = req[d].stamp /\ x = req[d].reply)
    BY <2>1, <2>2
  <2> QED BY <2>1, <2>3 DEF Answered
<1>2. Theirs' /\ proton' # None => Theirs /\ proton # None /\ proton'.att[Me] = proton.att[Me]
  BY TheirsBefore DEF Still, SameButOver
<1>3. lost' = lost BY DEF Still
<1> QED BY <1>1, <1>2, <1>3, OrganizerSame

LEMMA OrganizerOthers ==
  ASSUME InviteInv, PostInv, OrganizerInv, InviteInv', PostInv', Kept, Others
  PROVE  OrganizerInv'
<1>1. /\ proton \in Event /\ OtherWrites(proton') /\ TypeOK' /\ proton # None
      /\ proton' # None => proton'.org = proton.org
  BY OthersRow, OthersKept, EventRow
<1>2. stamps' = stamps + 1 /\ req' = req BY <1>1 DEF OtherWrites
<1> SUFFICES ASSUME Theirs', proton' # None PROVE OrganizerInv'
  BY DEF OrganizerInv
<1>3. Theirs /\ proton.org = Third BY <1>1 DEF InviteInv, Kept, Ours, Theirs
<1>4. lost \in [Recipients -> Stamps] /\ Third \in Recipients /\ proton' \in Event
  BY <1>1, ThirdIsNobodyHere DEF InviteInv, TypeOK, Stamps
<1>5. ASSUME UNCHANGED heard, lost'[Third] = lost[Third], proton'.att[Me] = proton.att[Me]
      PROVE  OrganizerInv'
  <2>1. \A s, x : Answered(s, x)' <=> Answered(s, x) BY <1>2, <1>5 DEF Answered
  <2> QED BY <1>1, <1>3, <1>5, <2>1, OrganizerSame
<1>6. ASSUME NEW people, NEW seq, NEW e, e.org = Third, Told(e, people, seq)
      PROVE  lost'[Third] = lost[Third]
  BY <1>4, <1>6, PeopleAssumption DEF Told
<1>7. ASSUME NEW w \in Whens, OtherMoves(w) PROVE OrganizerInv'
  <2>1. proton' = [proton EXCEPT !.when = w, !.seq = @ + 1] /\ UNCHANGED heard
    BY <1>7 DEF OtherMoves, OtherWrites
  <2>2. proton'.org = Third /\ proton'.att = proton.att BY <1>1, <1>3, <2>1 DEF Event
  <2>3. lost'[Third] = lost[Third] BY <1>6, <1>7, <2>2 DEF OtherMoves
  <2> QED BY <1>5, <2>1, <2>2, <2>3
<1>8. ASSUME NEW p \in Guests, OtherInvites(p) PROVE FALSE
  BY <1>3, <1>8, PeopleAssumption DEF OtherInvites
<1>9. ASSUME OtherCancels PROVE OrganizerInv'
  <2>1. proton' = [proton EXCEPT !.dead = TRUE, !.seq = @ + 1] /\ UNCHANGED <<heard, lost>>
    BY <1>9 DEF OtherCancels, OtherWrites
  <2>2. proton'.att = proton.att BY <1>1, <2>1 DEF Event
  <2> QED BY <1>5, <2>1, <2>2
<1>10. ASSUME OtherDeletes PROVE FALSE BY <1>10 DEF OtherDeletes, OtherWrites
<1>11. ASSUME NEW p \in People, NEW s \in Replies, OtherAnswers(p, s) PROVE OrganizerInv'
  <2>1. proton' = WithStatus(proton, p, s) BY <1>11 DEF OtherAnswers, OtherWrites, WithStatus
  <2>2. s \in Status /\ Me \in People BY RepliesAssumption DEF Status, People
  <2>3. proton'.att = [proton.att EXCEPT ![p] = s] BY <1>1, <2>1, <2>2, RowAnswered
  <2>4. proton.att \in [People -> Status] BY <1>1, EventRow
  <2>5. CASE p = Me
    <3>1. proton'.att[Me] = s BY <2>2, <2>3, <2>4, <2>5
    <3>2. heard' = [status |-> s, stamp |-> stamps'] BY <1>11, <2>5 DEF OtherAnswers
    <3>3. heard'.status = s /\ heard'.stamp = stamps' BY <3>2
    <3>7. stamps' \in Nat BY <1>2, CallOn, RoomBound DEF InviteInv
    <3>6. PICK t0 \in Nat : t0 = stamps' BY <3>7
    <3>4. Answered(t0, s)' BY <3>3, <3>6 DEF Answered
    <3>5. \A t, x : Answered(t, x)' => Answered(t, x) \/ x = s
      BY <1>2, <3>3 DEF Answered
    <3> QED BY <1>2, <3>1, <3>4, <3>5, <3>6, OrganizerNew
  <2>6. CASE p # Me
    <3>1. proton'.att[Me] = proton.att[Me] BY <2>2, <2>3, <2>4, <2>6
    <3>2. UNCHANGED <<heard, lost>> BY <1>11, <2>6 DEF OtherAnswers
    <3> QED BY <1>5, <3>1, <3>2
  <2> QED BY <2>5, <2>6
<1> QED BY <1>7, <1>8, <1>9, <1>10, <1>11 DEF Others

\* An answer that was written is what the organizer will hear, or has lost.
LEMMA OrganizerAnswer ==
  ASSUME InviteInv, PostInv, OrganizerInv, InviteInv', PostInv', Kept, NEW c \in Clients,
         Answer(c), ~crossed'
  PROVE  OrganizerInv'
<1> DEFINE new == WithStatus(proton, Me, req[c].reply)
           due == <<{}, {}, {Third}>>
           seq == req[c].row.seq
<1>1. /\ Mailed(c, new, due, seq) /\ req[c].pc = "answer" /\ proton \in Event /\ new \in Event
      /\ new.att[Me] = req[c].reply /\ due[3] = {Third} /\ due[1] = {} /\ due[2] = {}
  BY MailedBy, AnswerKept, CallOn DEF Answer
<1> HIDE DEF new, due, seq
<1>2. /\ proton' = new /\ heard' = heard /\ (\A d \in Clients \ {c} : req'[d] = req[d])
      /\ stamps' = IF new = proton THEN stamps ELSE stamps + 1
  BY <1>1 DEF Mailed, Came
<1>3. stamps \in Nat BY CallOn, RoomBound
<1>4. proton' # None /\ proton # None BY <1>1, <1>2, EventRow
<1>5. lost \in [Recipients -> Stamps] /\ Third \in Recipients /\ lost[Third] \in Nat
  BY CallOn, ThirdIsNobodyHere DEF TypeOK, Stamps
<1>6. ASSUME NEW s, NEW x, Answered(s, x)'
      PROVE  Answered(s, x) \/ (Posted(c, due, seq) /\ s = stamps' /\ x = req[c].reply)
  <2>1. CASE Posted(c, due, seq) BY <1>2, <1>6, <2>1 DEF Answered, Posted
  <2>2. CASE req'[c] = Idle BY <1>2, <1>6, <2>2, IdleTyped DEF Answered
  <2> QED BY <1>1, <2>1, <2>2 DEF Mailed
<1>7. CASE Posted(c, due, seq) /\ new # proton
  <2>1. PICK s0 \in Nat : s0 = stamps' BY <1>2, <1>3
  <2>2. req[c].reply \in Status BY CallOn, RequestFields
  <2>3. PICK x0 \in Status : x0 = req[c].reply BY <2>2
  <2>4. Answered(s0, x0)' BY <1>1, <1>7, <2>1, <2>3 DEF Answered, Posted
  <2>5. x0 = proton'.att[Me] /\ stamps' = stamps + 1 BY <1>1, <1>2, <1>7, <2>3
  <2>6. \A s, x : Answered(s, x)' => Answered(s, x) \/ x = x0 BY <1>6, <2>3
  <2> QED BY <2>1, <2>4, <2>5, <2>6, OrganizerNew
<1>8. CASE req'[c] = Idle \/ new = proton
  <2> SUFFICES ASSUME Theirs', NEW s, NEW x, Answered(s, x)', Latest(s)', lost'[Third] <= s
               PROVE  x = proton'.att[Me]
    BY DEF OrganizerInv
  <2>1. Theirs BY <1>4, TheirsBefore DEF Handler
  <2>2. CASE ~Answered(s, x)
    <3>1. x = req[c].reply BY <1>6, <2>2
    <3> QED BY <1>1, <1>2, <3>1
  <2>3. CASE Answered(s, x)
    <3>1. s \in Nat /\ s <= stamps BY <1>3, <2>3, AnsweredTyped DEF AnsweredOK
    <3>2. new = proton /\ stamps <= s
      <4>1. CASE Posted(c, due, seq)
        <5>1. req'[c] # Idle BY <4>1, IdleTyped DEF Posted
        <5>2. new = proton BY <1>8, <5>1
        <5>3. req[c].reply \in Status BY CallOn, RequestFields
        <5>4. PICK t \in Nat, y \in Status : t = stamps /\ y = req[c].reply BY <1>3, <5>3
        <5>5. Answered(t, y)' BY <1>1, <1>2, <4>1, <5>2, <5>4 DEF Answered, Posted
        <5>6. t \in 0..stamps' BY <1>2, <1>3, <5>2, <5>4
        <5>7. t <= s BY <5>5, <5>6 DEF Latest
        <5> QED BY <5>2, <5>4, <5>7
      <4>2. CASE /\ req'[c] = Idle
                 /\ lost' = [q \in Recipients |->
                      IF q \in due[1] \cup due[2] \cup due[3] THEN stamps' ELSE lost[q]]
        <5>1. lost'[Third] = stamps' BY <1>1, <1>5, <4>2
        <5> QED BY <1>2, <1>3, <3>1, <5>1
      <4> QED BY <1>1, <4>1, <4>2 DEF Mailed
    <3>3. ASSUME NEW t, NEW y, Answered(t, y) PROVE t <= s
      <4>1. t \in 0..stamps BY <3>3, AnsweredTyped DEF AnsweredOK
      <4> QED BY <1>3, <3>1, <3>2, <4>1
    <3>4. lost[Third] <= s BY <1>3, <1>5, <3>1, <3>2 DEF PostInv
    <3>5. x = proton.att[Me] BY <1>4, <2>1, <2>3, <3>3, <3>4, OrganizerUse
    <3> QED BY <1>2, <3>2, <3>5
  <2> QED BY <2>2, <2>3
<1> QED BY <1>1, <1>7, <1>8 DEF Mailed

\* A reply that is sent is the newest the organizer has, or an older one, or lost.
LEMMA OrganizerSend ==
  ASSUME InviteInv, PostInv, OrganizerInv, InviteInv', PostInv', Kept, NEW c \in Clients,
         NEW p \in Recipients, Send(c, p)
  PROVE  OrganizerInv'
<1>1. Posting(c, p) /\ req[c].pc = "mail" BY SendPosts
<1>2. UNCHANGED <<proton, stamps>> BY DEF Send
<1>3. /\ req[c].stamp \in Nat /\ heard.stamp \in Nat
      /\ lost \in [Recipients -> Stamps] /\ Third \in Recipients /\ lost[Third] \in Nat
  BY CallOn, RequestFields, ThirdIsNobodyHere DEF TypeOK, Stamps
<1>4. \A d \in Clients \ {c} : req'[d] = req[d] BY <1>1 DEF Posting
<1>5. /\ req'[c].pc = "mail" /\ req'[c].stamp = req[c].stamp /\ req'[c].reply = req[c].reply
  BY <1>1 DEF Posting
<1>6. CASE p # Third
  <2>1. Third \in req'[c].due[3] <=> Third \in req[c].due[3]
    BY <1>1, <1>6 DEF Posting
  <2>2. heard' = heard BY <1>6 DEF Send, Delivered
  <2>3. \A s, x : Answered(s, x)' <=> Answered(s, x)
    BY <1>1, <1>4, <1>5, <2>1, <2>2 DEF Answered
  <2>4. lost'[Third] = lost[Third] BY <1>3, <1>6 DEF Send, Missed
  <2>5. Theirs' /\ proton' # None => Theirs /\ proton # None
    BY TheirsBefore DEF Handler
  <2> QED BY <1>2, <2>3, <2>4, <2>5, OrganizerSame
<1>7. CASE p = Third
  <2>1. Batch(c) = 3
    <3>1. Batch(c) \in 1..3 /\ Third \in req[c].due[Batch(c)] BY <1>1, <1>7 DEF Posting
    <3>2. Third \notin req[c].due[1] /\ Third \notin req[c].due[2] BY DEF PostInv
    <3> QED BY <3>1, <3>2
  <2>2. Third \notin req'[c].due[3] /\ Third \in req[c].due[3]
    BY <1>1, <1>7, <2>1 DEF Posting
  <2> SUFFICES ASSUME Theirs', proton' # None, NEW s, NEW x, Answered(s, x)', Latest(s)',
                      lost'[Third] <= s
               PROVE  x = proton'.att[Me]
    BY DEF OrganizerInv
  <2>3. Theirs /\ proton # None BY TheirsBefore DEF Handler
  <2>4. s \in Nat BY AnsweredNext DEF AnsweredOK
  <2>5. ASSUME NEW t, NEW y, Answered(t, y)' PROVE t <= s
    <3>1. t \in 0..stamps' /\ y \in Status BY <2>5, AnsweredNext DEF AnsweredOK
    <3> QED BY <2>5, <3>1 DEF Latest
  <2>6. \A d \in Clients \ {c} : \A t, y :
          req[d].pc = "mail" /\ Third \in req[d].due[3] /\ t = req[d].stamp /\ y = req[d].reply
            => Answered(t, y)'
    BY <1>4 DEF Answered
  <2>7. ASSUME \/ /\ heard' = heard
                  /\ req[c].stamp <= s /\ lost[Third] <= s
               \/ /\ heard' = [status |-> req[c].reply, stamp |-> req[c].stamp]
                  /\ heard.stamp <= req[c].stamp /\ lost[Third] <= s
        PROVE  x = proton'.att[Me]
    <3>1. Answered(s, x)
      <4>1. CASE s = heard'.stamp /\ x = heard'.status
        BY <1>1, <2>2, <2>7, <4>1 DEF Answered
      <4>2. CASE \E d \in Clients : /\ req'[d].pc = "mail" /\ Third \in req'[d].due[3]
                                    /\ s = req'[d].stamp /\ x = req'[d].reply
        BY <1>4, <2>2, <4>2 DEF Answered
      <4> QED BY <4>1, <4>2 DEF Answered
    <3>2. heard.stamp <= s /\ req[c].stamp <= s
      <4>1. ASSUME NEW t, NEW y, t = heard'.stamp, y = heard'.status PROVE t <= s
        <5>1. Answered(t, y)' BY <4>1 DEF Answered
        <5> QED BY <2>5, <5>1
      <4>2. heard'.stamp \in Nat /\ heard'.status \in Status
        BY DEF InviteInv, TypeOK, Stamps
      <4>3. PICK t \in Nat, y \in Status : t = heard'.stamp /\ y = heard'.status BY <4>2
      <4>4. t <= s BY <4>1, <4>3
      <4>5. CASE heard' = heard BY <2>7, <4>3, <4>4, <4>5, <1>3
      <4>6. CASE heard' = [status |-> req[c].reply, stamp |-> req[c].stamp]
        <5>1. heard'.stamp = req[c].stamp BY <4>6
        <5>2. CASE heard.stamp <= req[c].stamp BY <1>3, <2>4, <4>3, <4>4, <5>1, <5>2
        <5>3. CASE heard' = heard /\ req[c].stamp <= s BY <4>3, <4>4, <5>3
        <5> QED BY <2>7, <5>2, <5>3
      <4> QED BY <2>7, <4>5, <4>6
    <3>3. ASSUME NEW t, NEW y, Answered(t, y) PROVE t <= s
      <4>1. CASE t = heard.stamp BY <3>2, <4>1
      <4>2. CASE \E d \in Clients \ {c} : /\ req[d].pc = "mail" /\ Third \in req[d].due[3]
                                          /\ t = req[d].stamp /\ y = req[d].reply
        BY <2>5, <2>6, <4>2
      <4>3. CASE t = req[c].stamp BY <3>2, <4>3
      <4> QED BY <3>3, <4>1, <4>2, <4>3 DEF Answered
    <3>4. lost[Third] <= s BY <2>7
    <3>5. x = proton.att[Me] BY <2>3, <3>1, <3>3, <3>4, OrganizerUse
    <3> QED BY <1>2, <3>5
  <2>8. ASSUME NEW t, NEW y, t = heard'.stamp, y = heard'.status PROVE t <= s
    <3>1. Answered(t, y)' BY <2>8 DEF Answered
    <3> QED BY <2>5, <3>1
  <2>9. heard'.stamp <= s
    <3>1. heard'.stamp \in Nat /\ heard'.status \in Status
        BY DEF InviteInv, TypeOK, Stamps
    <3>2. PICK t \in Nat, y \in Status : t = heard'.stamp /\ y = heard'.status BY <3>1
    <3> QED BY <2>8, <3>2
  <2>10. CASE Delivered(c, p, Batch(c)) /\ lost' = [lost EXCEPT ![p] = IF req[c].stamp < @ THEN @ ELSE 0]
    <3>1. heard' = IF req[c].stamp > heard.stamp
                   THEN [status |-> req[c].reply, stamp |-> req[c].stamp] ELSE heard
      BY <1>7, <2>10 DEF Delivered, Reply
    <3>2. req[c].stamp <= s
      <4>1. CASE req[c].stamp > heard.stamp
        <5>1. heard'.stamp = req[c].stamp BY <3>1, <4>1
        <5> QED BY <2>9, <5>1
      <4>2. CASE ~(req[c].stamp > heard.stamp)
        <5>1. heard' = heard BY <3>1, <4>2
        <5> QED BY <1>3, <2>4, <2>9, <4>2, <5>1
      <4> QED BY <4>1, <4>2
    <3>3. lost[Third] <= s
      <4>1. lost'[Third] = IF req[c].stamp < lost[Third] THEN lost[Third] ELSE 0
        BY <1>3, <1>7, <2>10
      <4> QED BY <1>3, <2>4, <3>2, <4>1
    <3>4. CASE req[c].stamp > heard.stamp
      <4>1. heard.stamp <= req[c].stamp BY <1>3, <3>4
      <4> QED BY <2>7, <3>1, <3>3, <3>4, <4>1
    <3>5. CASE ~(req[c].stamp > heard.stamp) BY <2>7, <3>1, <3>2, <3>3, <3>5
    <3> QED BY <3>4, <3>5
  <2>11. CASE Missed(c, p) /\ UNCHANGED heard
    <3>1. Max({lost[Third], req[c].stamp}) =
            IF lost[Third] < req[c].stamp THEN req[c].stamp ELSE lost[Third]
      BY <1>3, MaxOfTwo
    <3>2. lost'[Third] = Max({lost[Third], req[c].stamp}) BY <1>3, <1>7, <2>11 DEF Missed
    <3>3. req[c].stamp <= s /\ lost[Third] <= s BY <1>3, <2>4, <3>1, <3>2
    <3> QED BY <2>7, <2>11, <3>3
  <2> QED BY <2>10, <2>11 DEF Send
<1> QED BY <1>6, <1>7

LEMMA OrganizerNext ==
  InviteInv /\ PostInv /\ OrganizerInv /\ [Next]_vars /\ ~crossed' => OrganizerInv'
<1> SUFFICES ASSUME InviteInv, PostInv, OrganizerInv, [Next]_vars, ~crossed'
             PROVE  OrganizerInv'
  OBVIOUS
<1>1. InviteInv' /\ PostInv' BY InviteNext, PostNext
<1>2. CASE UNCHANGED vars \/ Tick \/ Poll
  <2>1. UNCHANGED <<proton, req, heard, lost, stamps>> BY <1>2 DEF vars, counters, Tick, Poll
  <2>2. \A s, x : Answered(s, x)' <=> Answered(s, x) BY <2>1 DEF Answered
  <2>3. Theirs' => Theirs BY <2>1 DEF Theirs
  <2> QED BY <1>1, <2>1, <2>2, <2>3, OrganizerSame
<1>3. CASE Others BY <1>1, <1>3, OthersKept, OrganizerOthers DEF Kept
<1>4. ASSUME NEW c \in Clients, PutStart(c) PROVE OrganizerInv'
  <2>1. Kept BY <1>4, PutStarts DEF Kept
  <2> QED BY <1>1, <1>4, <2>1, StillSteps, OrganizerStill
<1>5. ASSUME NEW c \in Clients, DeleteStart(c) PROVE OrganizerInv'
  BY <1>1, <1>5, DeleteStarts, StillSteps, OrganizerStill
<1>6. ASSUME NEW c \in Clients, CallFails(c) \/ NotFound(c) PROVE OrganizerInv'
  <2>1. Handler(c) /\ Kept BY <1>6, EndsKept DEF Handler
  <2> QED BY <1>1, <1>6, <2>1, StillSteps, OrganizerStill
<1>7. ASSUME NEW c \in Clients, Finish(c) PROVE OrganizerInv'
  <2>1. Handler(c) /\ Kept BY <1>7, FinishKept DEF Handler
  <2> QED BY <1>1, <1>7, <2>1, StillSteps, OrganizerStill
<1>8. ASSUME NEW c \in Clients, Update(c) PROVE OrganizerInv'
  <2>1. Kept BY <1>8, UpdateKept
  <2>2. PICK replace \in BOOLEAN :
          /\ replace <=> req[c].plan /\ Listed(req[c].pay) # Listed(req[c].row)
          /\ Mailed(c, Patched(proton, NewsOf(c), replace), DueOf(c), SeqOf(c))
    BY <1>8, MailedBy
  <2> DEFINE new == Patched(proton, NewsOf(c), replace)
  <2>3. proton' = new BY <2>2 DEF Mailed, Came
  <2> SUFFICES ASSUME Theirs', proton' # None PROVE OrganizerInv'
    BY DEF OrganizerInv
  <2>4. Theirs /\ proton # None BY <1>8, <2>1, TheirsBefore DEF Handler
  <2>5. req[c].pc = "update" /\ ~req[c].plan /\ ~replace BY <1>8, <2>2, <2>4 DEF Update, Theirs
  <2>6. proton'.att = proton.att
    <3>1. proton \in Event /\ NewsOf(c) \in Event BY <1>8, UpdateIs
    <3>2. proton.seq < MaxSeq BY <2>4, CallOn, Bounds
    <3> QED BY <2>3, <2>5, <3>1, <3>2, PatchedTyped
  <2>7. DueOf(c) = <<{}, {}, {}>> BY <2>5 DEF DueOf
  <2>8. Third \notin DueOf(c)[3]
    BY <2>7
  <2> HIDE DEF new
  <2>9. Mailed(c, new, DueOf(c), SeqOf(c)) BY <2>2 DEF new
  <2> DEFINE due == DueOf(c)
             seq == SeqOf(c)
  <2>10. Mailed(c, new, due, seq) /\ Third \notin due[3] BY <2>8, <2>9
  <2>11. \/ Posted(c, due, seq) /\ UNCHANGED lost
         \/ lost' = [q \in Recipients |->
             IF q \in due[1] \cup due[2] \cup due[3] THEN stamps' ELSE lost[q]]
    BY <2>10 DEF Mailed
  <2>12. lost'[Third] = lost[Third] BY <2>7, <2>11, ThirdIsNobodyHere
  <2> HIDE DEF due, seq
  <2>13. \A s, x : Answered(s, x)' <=> Answered(s, x) BY <2>5, <2>10, MailedAnswers
  <2> QED BY <1>1, <2>4, <2>6, <2>12, <2>13, OrganizerSame
<1>9. ASSUME NEW c \in Clients, Answer(c) PROVE OrganizerInv'
  BY <1>1, <1>9, AnswerKept, OrganizerAnswer
<1>10. ASSUME NEW c \in Clients, Drop(c) \/ Delete(c) PROVE OrganizerInv'
  <2>1. proton' = None BY <1>10, DropKept, DeleteKept DEF Came
  <2> QED BY <2>1 DEF OrganizerInv
<1>11. ASSUME NEW c \in Clients, Create(c) PROVE OrganizerInv'
  <2>1. Ours /\ Kept BY <1>11, CreateKept
  <2>2. ~(Theirs' /\ proton' # None) BY <2>1 DEF Kept, Ours, Theirs
  <2> QED BY <2>2 DEF OrganizerInv
<1>12. ASSUME NEW c \in Clients, NEW p \in Recipients, Send(c, p) PROVE OrganizerInv'
  <2>1. Kept BY <1>12, SendKept
  <2> QED BY <1>1, <1>12, <2>1, OrganizerSend
<1> QED BY <1>2, <1>3, <1>4, <1>5, <1>6, <1>7, <1>8, <1>9, <1>10, <1>11, <1>12
         DEF Next, Handler

LEMMA OrganizerInit == Init => OrganizerInv
<1> SUFFICES ASSUME Init, Theirs, proton # None, NEW s, NEW x, Answered(s, x)
             PROVE  x = proton.att[Me]
  BY DEF OrganizerInv
<1>1. req = [c \in Clients |-> Idle] /\ heard = [status |-> 0, stamp |-> 0]
      /\ proton \in InitialRows
  BY DEF Init
<1>2. x = 0 BY <1>1, IdleTyped DEF Answered
<1>3. proton.org = Third BY DEF Theirs
<1>4. proton = Draft(Third, {Me} \cup Guests, TRUE)
  <2>1. ASSUME NEW g \in SUBSET Guests \ {{}}, proton = [Draft(Me, g, TRUE) EXCEPT !.ex = Past]
        PROVE  FALSE
    <3>1. proton.org = Me BY <2>1 DEF Draft
    <3> QED BY <1>3, <3>1, PeopleAssumption
  <2>2. proton # Draft(Nobody, {}, TRUE)
    <3>1. Draft(Nobody, {}, TRUE).org = Nobody BY DEF Draft
    <3> QED BY <1>3, <3>1, PeopleAssumption
  <2> QED BY <1>1, <2>1, <2>2 DEF InitialRows
<1>5. proton.att[Me] = 0 BY <1>4 DEF Draft, People
<1> QED BY <1>2, <1>5

\* The organizer learns the answer whatever came in between: answers from several
\* clients and from Proton's own, replies that overtake one another, and an event
\* its organizer moves or cancels meanwhile.  When no request is in
\* progress the organizer knows the owner's answer that Proton holds, unless the
\* reply to it was lost or a DTSTAMP was out of order.
THEOREM TheOrganizerKnows == Spec => []OrganizerKnows
<1>1. InviteInv /\ (crossed \/ (PostInv /\ OrganizerInv)) => OrganizerKnows
  <2> SUFFICES ASSUME InviteInv, PostInv, OrganizerInv, Quiet, lost[Third] = 0, Foreign(proton)
               PROVE  heard.status = proton.att[Me]
    BY DEF OrganizerKnows
  <2>1. proton # None /\ proton.org # Me /\ Listed(proton) # {} BY NoneRow DEF Foreign
  <2>2. Kin(proton) /\ proton \in Event BY <2>1 DEF InviteInv, RequestInv, TypeOK
  <2>3. proton.org = Third BY <2>1, <2>2, EventRow DEF Kin
  <2>4. Theirs BY <2>3 DEF InviteInv, Ours
  <2>5. heard.stamp \in Nat /\ Answered(heard.stamp, heard.status)
    BY DEF InviteInv, TypeOK, Answered, Stamps
  <2>6. \A t, y : Answered(t, y) => t = heard.stamp BY DEF Answered, Quiet
  <2>7. \A t, y : Answered(t, y) => t <= heard.stamp BY <2>5, <2>6
  <2>8. lost[Third] <= heard.stamp BY <2>5
  <2> QED BY <2>1, <2>4, <2>5, <2>7, <2>8, OrganizerUse
<1> DEFINE Inv == InviteInv /\ (crossed \/ (PostInv /\ OrganizerInv))
<1>2. Init => Inv BY InviteInit, PostInit, OrganizerInit
<1>3. Inv /\ [Next]_vars => Inv'
  <2> SUFFICES ASSUME Inv, [Next]_vars, ~crossed'
               PROVE  InviteInv' /\ PostInv' /\ OrganizerInv'
    BY InviteNext, Zenon
  <2>1. InviteInv /\ PostInv /\ OrganizerInv BY CrossedStays
  <2> QED BY <2>1, InviteNext, PostNext, OrganizerNext
<1>4. Inv => OrganizerKnows BY <1>1
<1> HIDE DEF Inv
<1> QED BY <1>2, <1>3, <1>4, PTL DEF Spec

-----------------------------------------------------------------------------
(* What the guests know.                                                    *)

HasOK(p) == \A m : Has(m, p) => m.seq \in Nat /\ m.stamp \in Nat

LEMMA HasTyped ==
  ASSUME InviteInv, NEW p \in Guests
  PROVE  HasOK(p)
<1> SUFFICES ASSUME NEW m, Has(m, p) PROVE m.seq \in Nat /\ m.stamp \in Nat BY DEF HasOK
<1>1. CASE m = agenda[p]
  <2>1. agenda[p].seq \in 0..MaxSeq /\ agenda[p].stamp \in Stamps
    BY DEF InviteInv, TypeOK
  <2> QED BY <1>1, <2>1 DEF Stamps
<1>2. ASSUME NEW c \in Clients, Bound(m, p, c) PROVE m.seq \in Nat /\ m.stamp \in Nat
  <2>1. PICK i \in 1..3 : m = Letter(c, i) BY <1>2 DEF Bound
  <2>2. req[c].pc = "mail" /\ i \in 1..4 BY <1>2 DEF Bound
  <2>3. m.seq = req[c].seq /\ m.stamp = req[c].stamp BY <2>1, <2>2, LetterTyped
  <2>4. req[c].seq \in Nat /\ req[c].stamp \in Nat BY CallOn, RequestFields
  <2> QED BY <2>3, <2>4
<1> QED BY <1>1, <1>2 DEF Has

\* A step that a guest does not notice, ...
LEMMA OrderlyStays ==
  ASSUME NEW p \in Guests, Orderly(p), HasOK(p), \A m : Has(m, p)' <=> Has(m, p),
         lost'[p] = lost[p], stamps \in Nat, stamps' \in Nat, stamps <= stamps',
         proton' # None => \A m : Has(m, p) => m.seq <= proton'.seq,
         \A m : Right(m, p) => Right(m, p)'
  PROVE  Orderly(p)'
<1>1. ASSUME NEW m, Has(m, p)'
      PROVE  /\ m.stamp <= stamps' /\ (m.stamp = 0 => m.seq = 0)
             /\ (proton' # None => m.seq <= proton'.seq)
  BY <1>1 DEF Orderly, HasOK
<1>2. ASSUME NEW m, NEW n, Has(m, p)', Has(n, p)'
      PROVE  (m.stamp < n.stamp => m.seq <= n.seq) /\ (m.stamp = n.stamp => m = n)
  BY <1>2 DEF Orderly
<1>3. ASSUME NEW m, Has(m, p)', Newest(m, p)', lost'[p] <= m.stamp PROVE Right(m, p)'
  <2>1. Has(m, p) BY <1>3
  <2>2. Newest(m, p) BY <1>3 DEF Newest
  <2>3. Right(m, p) BY <1>3, <2>1, <2>2 DEF Orderly
  <2> QED BY <2>3
<1> QED BY <1>1, <1>2, <1>3 DEF Orderly

\* ... one that sends him the newest message, ...
LEMMA OrderlyNews ==
  ASSUME NEW p \in Guests, Orderly(p), HasOK(p), stamps \in Nat, stamps' = stamps + 1,
         NEW m0, m0.stamp = stamps', m0.seq \in Nat, Has(m0, p)', Right(m0, p)',
         \A m : Has(m, p)' => Has(m, p) \/ m = m0,
         \A m : Has(m, p) => m.seq <= m0.seq,
         proton' # None => m0.seq <= proton'.seq /\ proton'.seq \in Nat
  PROVE  Orderly(p)'
<1>1. ASSUME NEW m, Has(m, p), m.stamp \in Nat, m.seq \in Nat
      PROVE  m.stamp < m0.stamp /\ m.seq <= m0.seq /\ (m.stamp = 0 => m.seq = 0)
  BY <1>1 DEF Orderly
<1>2. ASSUME NEW m, Has(m, p)'
      PROVE  \/ m = m0
             \/ /\ Has(m, p) /\ m.stamp < m0.stamp /\ m.seq <= m0.seq
                /\ m.stamp \in Nat /\ m.seq \in Nat /\ (m.stamp = 0 => m.seq = 0)
  BY <1>1, <1>2 DEF HasOK
<1>3. ASSUME NEW m, Has(m, p)'
      PROVE  /\ m.stamp <= stamps' /\ (m.stamp = 0 => m.seq = 0)
             /\ (proton' # None => m.seq <= proton'.seq)
  BY <1>2, <1>3
<1>4. ASSUME NEW m, NEW n, Has(m, p)', Has(n, p)'
      PROVE  (m.stamp < n.stamp => m.seq <= n.seq) /\ (m.stamp = n.stamp => m = n)
  <2>1. CASE Has(m, p) /\ Has(n, p) BY <2>1 DEF Orderly
  <2>2. CASE m = m0 \/ n = m0 BY <1>2, <1>4, <2>2
  <2> QED BY <1>2, <1>4, <2>1, <2>2
<1>5. ASSUME NEW m, Has(m, p)', Newest(m, p)' PROVE Right(m, p)'
  <2>1. m0.stamp <= m.stamp BY <1>5 DEF Newest
  <2>2. m = m0 BY <1>2, <1>5, <2>1
  <2> QED BY <2>2
<1> QED BY <1>3, <1>4, <1>5 DEF Orderly

\* ... and one that loses it.
LEMMA OrderlyLost ==
  ASSUME NEW p \in Guests, Orderly(p), HasOK(p), stamps \in Nat, stamps' = stamps + 1,
         lost'[p] = stamps', \A m : Has(m, p)' => Has(m, p),
         proton' # None => \A m : Has(m, p) => m.seq <= proton'.seq
  PROVE  Orderly(p)'
<1>1. ASSUME NEW m, Has(m, p)'
      PROVE  /\ m.stamp <= stamps /\ m.stamp <= stamps' /\ (m.stamp = 0 => m.seq = 0)
             /\ (proton' # None => m.seq <= proton'.seq) /\ ~(lost'[p] <= m.stamp)
  BY <1>1 DEF Orderly, HasOK
<1>2. ASSUME NEW m, NEW n, Has(m, p)', Has(n, p)'
      PROVE  (m.stamp < n.stamp => m.seq <= n.seq) /\ (m.stamp = n.stamp => m = n)
  BY <1>2 DEF Orderly
<1> QED BY <1>1, <1>2 DEF Orderly

\* The messages of the requests a step leaves alone stay as they are.
LEMMA BoundSame ==
  ASSUME NEW d \in Clients, req'[d] = req[d], NEW m, NEW p
  PROVE  Bound(m, p, d)' <=> Bound(m, p, d)
<1>1. \A i : Letter(d, i)' = Letter(d, i) BY DEF Letter
<1> QED BY <1>1 DEF Bound

\* A request writes and has messages to send: the letters to p, in one batch or
\* in none.
LEMMA BoundPosted ==
  ASSUME InviteInv, NEW c \in Clients, NEW due, NEW seq, Posted(c, due, seq), ~crossed',
         NEW m, NEW p
  PROVE  Bound(m, p, c)' <=>
           \E i \in 1..3 : p \in due[i] /\ m = Says(Subject(c), i # 1, seq, stamps')
<1>1. \A i : Letter(c, i)' = Says(Subject(c), i # 1, seq, stamps')
  BY DEF Letter, Posted, Subject
<1>2. req'[c].pc = "mail" /\ req'[c].due = due BY DEF Posted
<1> QED BY <1>1, <1>2 DEF Bound

\* A call writes a row with which p has nothing to do, or is told of the new row.
LEMMA GuestMailed ==
  ASSUME InviteInv, NEW c \in Clients, req[c].pc # "mail", NEW p \in Guests, Orderly(p),
         ~crossed', NEW new, NEW due, NEW seq, Mailed(c, new, due, seq),
         new # None => new.seq \in Nat /\ \A m : Has(m, p) => m.seq <= new.seq,
         (\A i \in 1..3 : p \notin due[i]) => \A m : Right(m, p) => Right(m, p)',
         (\E i \in 1..3 : p \in due[i]) =>
           /\ new # proton /\ seq \in Nat
           /\ \A m : Has(m, p) => m.seq <= seq
           /\ new # None => seq <= new.seq
           /\ Subject(c) \in Event
           /\ \A i, j \in 1..3 : p \in due[i] /\ p \in due[j] => i = j
           /\ \A i \in 1..3 : p \in due[i] =>
                /\ p \in Listed(new) <=> i # 1
                /\ i # 1 => Subject(c).when = new.when /\ Subject(c).place = new.place
  PROVE  Orderly(p)'
<1>1. HasOK(p) BY HasTyped
<1>2. /\ stamps \in Nat /\ stamps' \in Nat /\ stamps <= stamps' /\ proton' = new
      /\ new # proton => stamps' = stamps + 1
      /\ agenda' = agenda /\ \A d \in Clients \ {c} : req'[d] = req[d]
  BY CallOn, RoomBound DEF Mailed, Came
<1>3. p \in Recipients BY ThirdIsNobodyHere
<1>4. ASSUME NEW m PROVE Has(m, p) <=> m = agenda[p] \/ \E d \in Clients \ {c} : Bound(m, p, d)
  BY DEF Has, Bound
<1>5. ASSUME NEW m
      PROVE  Has(m, p)' <=> Has(m, p) \/ Bound(m, p, c)'
  <2>1. \A d \in Clients \ {c} : Bound(m, p, d)' <=> Bound(m, p, d) BY <1>2, BoundSame
  <2> QED BY <1>2, <1>4, <2>1 DEF Has
<1>6. CASE req'[c] = Idle
           /\ lost' = [q \in Recipients |->
                IF q \in due[1] \cup due[2] \cup due[3] THEN stamps' ELSE lost[q]]
  <2>1. \A m : Has(m, p)' <=> Has(m, p)
    <3>1. \A m : ~Bound(m, p, c)' BY <1>6, IdleTyped DEF Bound
    <3> QED BY <1>5, <3>1
  <2>2. proton' # None => \A m : Has(m, p) => m.seq <= proton'.seq BY <1>2
  <2>3. CASE \A i \in 1..3 : p \notin due[i]
    <3>1. lost'[p] = lost[p] BY <1>3, <1>6, <2>3
    <3>2. \A m : Right(m, p) => Right(m, p)' BY <2>3
    <3> QED BY <1>1, <1>2, <2>1, <2>2, <3>1, <3>2, OrderlyStays
  <2>4. CASE \E i \in 1..3 : p \in due[i]
    <3>1. lost'[p] = stamps' /\ stamps' = stamps + 1 BY <1>2, <1>3, <1>6, <2>4
    <3> QED BY <1>1, <1>2, <2>1, <2>2, <3>1, OrderlyLost
  <2> QED BY <2>3, <2>4
<1>7. CASE Posted(c, due, seq) /\ UNCHANGED lost
  <2>1. \A m : Bound(m, p, c)' <=>
           \E i \in 1..3 : p \in due[i] /\ m = Says(Subject(c), i # 1, seq, stamps')
    BY <1>7, BoundPosted
  <2>2. CASE \A i \in 1..3 : p \notin due[i]
    <3>1. \A m : Has(m, p)' <=> Has(m, p) BY <1>5, <2>1, <2>2
    <3>2. \A m : Right(m, p) => Right(m, p)' BY <2>2
    <3>3. proton' # None => \A m : Has(m, p) => m.seq <= proton'.seq BY <1>2
    <3> QED BY <1>1, <1>2, <1>7, <3>1, <3>2, <3>3, OrderlyStays
  <2>3. CASE \E i \in 1..3 : p \in due[i]
    <3>1. PICK i \in 1..3 : p \in due[i] BY <2>3
    <3>2. /\ new # proton /\ seq \in Nat
          /\ \A m : Has(m, p) => m.seq <= seq
          /\ new # None => seq <= new.seq
          /\ Subject(c) \in Event
          /\ \A j \in 1..3 : p \in due[j] => i = j
          /\ p \in Listed(new) <=> i # 1
          /\ i # 1 => Subject(c).when = new.when /\ Subject(c).place = new.place
      BY <2>3, <3>1
    <3> DEFINE live == i # 1
    <3>3. PICK m0 : m0 = Says(Subject(c), live, seq, stamps') OBVIOUS
    <3>4. /\ m0.when = Subject(c).when /\ m0.place = Subject(c).place /\ m0.seq = seq
          /\ m0.stamp = stamps'
      BY <3>3 DEF Says
    <3>5. m0.live = live BY <3>3 DEF Says
    <3>6. live \in BOOLEAN OBVIOUS
    <3>7. \A m : Bound(m, p, c)' <=> m = m0 BY <2>1, <3>1, <3>2, <3>3
    <3>8. Has(m0, p)' /\ \A m : Has(m, p)' => Has(m, p) \/ m = m0 BY <1>5, <3>7
    <3>9. Right(m0, p)'
      <4>1. m0.live <=> live BY <3>5, Zenon
      <4>2. proton' = new BY <1>2
      <4>3. CASE p \in Listed(new)
        <5>1. live BY <3>2, <4>3
        <5>2. m0.when = new.when /\ m0.place = new.place BY <3>2, <3>4, <5>1
        <5> HIDE DEF live
        <5> QED BY <4>1, <4>2, <4>3, <5>1, <5>2 DEF Right
      <4>4. CASE p \notin Listed(new)
        <5>1. ~live BY <3>2, <4>4
        <5> HIDE DEF live
        <5> QED BY <4>1, <4>2, <4>4, <5>1 DEF Right
      <4> QED BY <4>3, <4>4
    <3>10. \A m : Has(m, p) => m.seq <= m0.seq BY <3>2, <3>4
    <3>11. proton' # None => m0.seq <= proton'.seq /\ proton'.seq \in Nat BY <1>2, <3>2, <3>4
    <3>12. stamps' = stamps + 1 /\ m0.stamp = stamps' /\ m0.seq \in Nat BY <1>2, <3>2, <3>4
    <3> HIDE DEF live
    <3> QED BY <1>1, <1>2, <3>8, <3>9, <3>10, <3>11, <3>12, OrderlyNews
  <2> QED BY <2>2, <2>3
<1> QED BY <1>6, <1>7 DEF Mailed

\* A step that begins or ends a request sends nothing.
LEMMA GuestStill ==
  ASSUME InviteInv, NEW c \in Clients, Still(c), NEW p \in Guests, Orderly(p)
  PROVE  Orderly(p)'
<1>1. /\ Resting(c) /\ Resting(c)' /\ SameButOver(proton, proton')
      /\ \A d \in Clients \ {c} : req'[d] = req[d]
      /\ agenda' = agenda /\ lost' = lost /\ stamps' = stamps
  BY DEF Still
<1>2. ASSUME NEW m PROVE Has(m, p)' <=> Has(m, p)
  <2>1. \A d \in Clients \ {c} : Bound(m, p, d)' <=> Bound(m, p, d) BY <1>1, BoundSame
  <2>2. ~Bound(m, p, c) BY <1>1 DEF Bound, Resting
  <2>3. ~Bound(m, p, c)' BY <1>1 DEF Bound, Resting
  <2> QED BY <1>1, <2>1, <2>2, <2>3 DEF Has
<1>3. CASE proton = None
  <2>1. proton' = None BY <1>1, <1>3 DEF SameButOver
  <2>2. \A m : Right(m, p) => Right(m, p)' BY <1>3, <2>1 DEF Right
  <2> QED BY <1>1, <1>2, <2>1, <2>2, HasTyped, OrderlyStays, CallOn, RoomBound
<1>4. CASE proton # None
  <2>1. /\ proton'.when = proton.when /\ proton'.place = proton.place
        /\ proton'.seq = proton.seq /\ Listed(proton') = Listed(proton)
    BY <1>1, <1>4 DEF SameButOver
  <2>2. \A m : Right(m, p) => Right(m, p)' BY <2>1 DEF Right
  <2>3. \A m : Has(m, p) => m.seq <= proton'.seq BY <1>4, <2>1 DEF Orderly
  <2> QED BY <1>1, <1>2, <2>2, <2>3, HasTyped, OrderlyStays, CallOn, RoomBound
<1> QED BY <1>3, <1>4

\* Of two messages in order a calendar keeps the one with the later DTSTAMP.
LEMMA TakenIsLater ==
  ASSUME NEW a, NEW m, a.seq \in Nat, m.seq \in Nat, a.stamp \in Nat, m.stamp \in Nat,
         m.stamp < a.stamp => m.seq <= a.seq, a.stamp < m.stamp => a.seq <= m.seq,
         a.stamp = m.stamp => a = m
  PROVE  /\ Taken(a, m) \in {a, m} /\ a.stamp <= Taken(a, m).stamp
         /\ m.stamp <= Taken(a, m).stamp
<1>1. CASE Newer(m, a)
  <2>1. a.stamp <= m.stamp BY <1>1 DEF Newer
  <2> QED BY <1>1, <2>1 DEF Taken
<1>2. CASE ~Newer(m, a)
  <2>1. m.stamp <= a.stamp BY <1>2 DEF Newer
  <2> QED BY <1>2, <2>1 DEF Taken
<1> QED BY <1>1, <1>2

\* A message that is sent: nobody else notices, and the newest stays so.
LEMMA GuestSend ==
  ASSUME InviteInv, NEW c \in Clients, NEW q \in Recipients, Send(c, q), NEW p \in Guests,
         Orderly(p)
  PROVE  Orderly(p)'
<1>1. Posting(c, q) /\ req[c].pc = "mail" BY SendPosts
<1>2. UNCHANGED <<proton, stamps>> BY DEF Send
<1>3. /\ HasOK(p) /\ stamps \in Nat /\ req[c].stamp \in Nat
      /\ lost \in [Recipients -> Stamps] /\ p \in Recipients /\ lost[p] \in Nat
      /\ agenda = [g \in Guests |-> agenda[g]]
  <2>1. HasOK(p) /\ stamps \in Nat BY HasTyped, CallOn, RoomBound
  <2>2. TypeOK /\ req[c].stamp \in Nat /\ p \in Recipients
    BY CallOn, RequestFields, ThirdIsNobodyHere
  <2>3. lost \in [Recipients -> Stamps] /\ lost[p] \in Nat BY <2>2 DEF TypeOK, Stamps
  <2>4. agenda = [g \in Guests |-> agenda[g]] BY <2>2 DEF TypeOK
  <2> QED BY <2>1, <2>2, <2>3, <2>4
<1>4. /\ \A d \in Clients \ {c} : req'[d] = req[d]
      /\ \A i \in 1..3 \ {Batch(c)} : req'[c].due[i] = req[c].due[i]
      /\ req'[c].due[Batch(c)] = req[c].due[Batch(c)] \ {q} /\ req'[c].pc = "mail"
      /\ Batch(c) \in 1..3 /\ q \in req[c].due[Batch(c)]
  BY <1>1 DEF Posting
<1>5. \A i : Letter(c, i)' = Letter(c, i) BY <1>1 DEF Letter, Posting
<1>6. ASSUME NEW m, NEW d \in Clients \ {c} PROVE Bound(m, p, d)' <=> Bound(m, p, d)
  BY <1>4, <1>6, BoundSame
<1>7. \A m : Right(m, p)' <=> Right(m, p) BY <1>2 DEF Right
<1>8. proton' # None => \A m : Has(m, p) => m.seq <= proton'.seq BY <1>2 DEF Orderly
<1>9. CASE q # p
  <2>1. ASSUME NEW m PROVE Bound(m, p, c)' <=> Bound(m, p, c)
    <3>1. \A i \in 1..3 : p \in req'[c].due[i] <=> p \in req[c].due[i] BY <1>4, <1>9
    <3> QED BY <1>1, <1>4, <1>5, <3>1 DEF Bound
  <2>2. agenda'[p] = agenda[p] BY <1>3, <1>9 DEF Send, Delivered
  <2>3. lost'[p] = lost[p] BY <1>3, <1>9 DEF Send, Missed
  <2>4. \A m : Has(m, p)' <=> Has(m, p) BY <1>6, <2>1, <2>2 DEF Has
  <2> QED BY <1>2, <1>3, <1>7, <1>8, <2>3, <2>4, OrderlyStays
<1>10. CASE q = p
  <2> DEFINE m0 == Letter(c, Batch(c))
             a == agenda[p]
  <2>1. Bound(m0, p, c) BY <1>1, <1>4, <1>10 DEF Bound
  <2>2. Has(m0, p) /\ Has(a, p) BY <2>1 DEF Has
  <2>3. m0.stamp = req[c].stamp
    <3>1. Batch(c) \in 1..4 BY <1>4
    <3> QED BY <1>1, <3>1, LetterTyped
  <2>4. ASSUME NEW m PROVE /\ Bound(m, p, c)' => Bound(m, p, c)
                           /\ Bound(m, p, c) => Bound(m, p, c)' \/ m = m0
    <3>1. \A i \in 1..3 : /\ p \in req'[c].due[i] => p \in req[c].due[i]
                          /\ p \in req[c].due[i] => p \in req'[c].due[i] \/ i = Batch(c)
      BY <1>4
    <3> QED BY <1>1, <1>4, <1>5, <3>1 DEF Bound
  <2>5. /\ m0.seq \in Nat /\ m0.stamp \in Nat /\ a.seq \in Nat /\ a.stamp \in Nat
        /\ m0.stamp < a.stamp => m0.seq <= a.seq
        /\ a.stamp < m0.stamp => a.seq <= m0.seq
        /\ a.stamp = m0.stamp => a = m0
    <3> HIDE DEF m0, a
    <3> QED BY <1>3, <2>2 DEF HasOK, Orderly
  <2> HIDE DEF m0, a
  <2>6. PICK a1 : a1 = agenda'[p] OBVIOUS
  <2>7. ASSUME \/ a1 = Taken(a, m0) /\ lost'[p] = IF m0.stamp < lost[p] THEN lost[p] ELSE 0
               \/ a1 = a /\ lost'[p] = IF lost[p] < m0.stamp THEN m0.stamp ELSE lost[p]
        PROVE  Orderly(p)'
    <3>1. Taken(a, m0) \in {a, m0} /\ a.stamp <= Taken(a, m0).stamp
          /\ m0.stamp <= Taken(a, m0).stamp
      BY <2>5, TakenIsLater
    <3>2. \A m : Has(m, p)' => Has(m, p)
      <4>1. Has(a1, p) BY <2>2, <2>7, <3>1
      <4> QED BY <1>6, <2>4, <2>6, <4>1 DEF Has
    <3>3. \A m : Has(m, p) => Has(m, p)' \/ m = m0 \/ m = a BY <1>6, <2>4 DEF Has, a
    <3>4. Has(a1, p)' BY <2>6 DEF Has
    <3>5. a.stamp <= a1.stamp /\ a1.stamp \in Nat
      BY <2>5, <2>7, <3>1
    <3>6. ASSUME NEW m, Has(m, p)', Newest(m, p)', lost'[p] <= m.stamp
          PROVE  Newest(m, p) /\ lost[p] <= m.stamp
      <4>1. a1.stamp <= m.stamp /\ m.stamp \in Nat
        BY <1>3, <3>2, <3>4, <3>6 DEF Newest, HasOK
      <4>2. m0.stamp <= m.stamp /\ lost[p] <= m.stamp
        BY <1>3, <2>5, <2>7, <3>1, <3>5, <3>6, <4>1
      <4>3. a.stamp <= m.stamp BY <2>5, <3>5, <4>1
      <4>4. \A n : Has(n, p)' => n.stamp <= m.stamp BY <3>6 DEF Newest
      <4> QED BY <3>3, <4>2, <4>3, <4>4 DEF Newest
    <3>7. ASSUME NEW m, Has(m, p)'
          PROVE  /\ m.stamp <= stamps' /\ (m.stamp = 0 => m.seq = 0)
                 /\ (proton' # None => m.seq <= proton'.seq)
      BY <1>2, <3>2, <3>7 DEF Orderly
    <3>8. ASSUME NEW m, NEW n, Has(m, p)', Has(n, p)'
          PROVE  (m.stamp < n.stamp => m.seq <= n.seq) /\ (m.stamp = n.stamp => m = n)
      BY <3>2, <3>8 DEF Orderly
    <3>9. ASSUME NEW m, Has(m, p)', Newest(m, p)', lost'[p] <= m.stamp PROVE Right(m, p)'
      <4>1. Has(m, p) /\ Newest(m, p) /\ lost[p] <= m.stamp BY <3>2, <3>6, <3>9
      <4>2. Right(m, p) BY <4>1 DEF Orderly
      <4> QED BY <1>7, <4>2
    <3> QED BY <3>7, <3>8, <3>9 DEF Orderly
  <2>8. p # Third BY ThirdIsNobodyHere DEF People
  <2>9. CASE /\ Delivered(c, q, Batch(c))
             /\ lost' = [lost EXCEPT ![q] = IF req[c].stamp < @ THEN @ ELSE 0]
    <3>1. agenda'[p] = Taken(a, m0) BY <1>3, <1>10, <2>8, <2>9 DEF Delivered, a, m0
    <3>2. lost'[p] = IF m0.stamp < lost[p] THEN lost[p] ELSE 0 BY <1>3, <1>10, <2>3, <2>9
    <3> QED BY <2>6, <2>7, <3>1, <3>2
  <2>10. CASE Missed(c, q) /\ UNCHANGED agenda
    <3>1. Max({lost[p], req[c].stamp}) =
            IF lost[p] < req[c].stamp THEN req[c].stamp ELSE lost[p]
      BY <1>3, MaxOfTwo
    <3>2. lost'[p] = Max({lost[p], req[c].stamp}) BY <1>3, <1>10, <2>10 DEF Missed
    <3>3. agenda'[p] = a BY <2>10 DEF a
    <3> QED BY <2>3, <2>6, <2>7, <3>1, <3>2, <3>3
  <2> QED BY <2>9, <2>10 DEF Send
<1> QED BY <1>9, <1>10

\* What is known of the row without a request.
LEMMA RowOn ==
  ASSUME InviteInv
  PROVE  /\ stamps \in Nat /\ Kin(proton) /\ proton \in Event \cup {None}
         /\ proton # None => proton.seq \in Nat /\ proton.seq < MaxSeq
         /\ lost \in [Recipients -> Stamps]
<1>1. TypeOK /\ CountInv /\ Kin(proton) BY DEF InviteInv, RequestInv
<1>2. proton \in Event \cup {None} /\ lost \in [Recipients -> Stamps] BY <1>1 DEF TypeOK, Stamps
<1>3. proton # None => proton.seq \in Nat /\ proton.seq <= Room BY <1>1, <1>2, EventRow DEF CountInv
<1>4. Room \in Nat /\ Room + 1 <= MaxSeq /\ stamps \in Nat BY <1>1, RoomBound
<1> QED BY <1>1, <1>2, <1>3, <1>4, Bounds

\* Proton tells a guest, or somebody else.
LEMMA GuestTold ==
  ASSUME InviteInv, NEW p \in Guests, Orderly(p), stamps' = stamps + 1, req' = req,
         NEW e, NEW people, NEW seq \in Nat, Told(e, people, seq),
         \A m : Has(m, p) => m.seq < seq,
         proton' # None => proton'.seq = seq,
         e.org = Me /\ p \in people /\ p \in Listed(proton') =>
           e.when = proton'.when /\ e.place = proton'.place,
         ~(e.org = Me /\ p \in people) => \A m : Right(m, p) => Right(m, p)'
  PROVE  Orderly(p)'
<1>1. HasOK(p) /\ stamps \in Nat /\ stamps' \in Nat /\ stamps <= stamps'
  BY HasTyped, RowOn
<1>2. p \in Recipients BY ThirdIsNobodyHere
<1>3. ASSUME NEW m
      PROVE  Has(m, p)' <=> m = agenda'[p] \/ \E d \in Clients : Bound(m, p, d)
  <2>1. \A d \in Clients : Bound(m, p, d)' <=> Bound(m, p, d) BY BoundSame
  <2> QED BY <2>1 DEF Has
<1>4. CASE ~(e.org = Me /\ p \in people)
  <2>1. agenda'[p] = agenda[p] /\ lost'[p] = lost[p] BY <1>2, <1>4 DEF Told
  <2>2. \A m : Has(m, p)' <=> Has(m, p) BY <1>3, <2>1 DEF Has
  <2>3. proton' # None => \A m : Has(m, p) => m.seq <= proton'.seq BY <1>1 DEF HasOK
  <2> QED BY <1>1, <1>4, <2>1, <2>2, <2>3, OrderlyStays
<1>5. CASE e.org = Me /\ p \in people
  <2> DEFINE live == p \in Listed(proton')
  <2>1. PICK m0 : m0 = Says(e, live, seq, stamps') OBVIOUS
  <2>2. m0.when = e.when /\ m0.place = e.place /\ m0.seq = seq /\ m0.stamp = stamps'
    BY <2>1 DEF Says
  <2>3. m0.live = live BY <2>1 DEF Says
  <2>4. agenda'[p] = m0
    <3>1. agenda'[p] = Taken(agenda[p], m0) BY <1>5, <2>1 DEF Told
    <3>2. Has(agenda[p], p) BY DEF Has
    <3>3. m0.seq > agenda[p].seq BY <1>1, <2>2, <3>2 DEF HasOK
    <3> QED BY <3>1, <3>3 DEF Taken, Newer
  <2>5. Has(m0, p)' /\ \A m : Has(m, p)' => Has(m, p) \/ m = m0 BY <1>3, <2>4 DEF Has
  <2>6. \A m : Has(m, p) => m.seq <= m0.seq BY <1>1, <2>2 DEF HasOK
  <2>7. Right(m0, p)'
    <3>1. m0.live <=> live BY <2>3, Zenon
    <3>2. live => m0.when = proton'.when /\ m0.place = proton'.place BY <1>5, <2>2
    <3> QED BY <3>1, <3>2 DEF Right
  <2>8. m0.stamp = stamps' /\ m0.seq \in Nat BY <2>2
  <2>9. proton' # None => m0.seq <= proton'.seq /\ proton'.seq \in Nat BY <2>2
  <2> HIDE DEF live
  <2> QED BY <1>1, <2>5, <2>6, <2>7, <2>8, <2>9, OrderlyNews
<1> QED BY <1>4, <1>5

LEMMA GuestOthers ==
  ASSUME InviteInv, Others, Ours, NEW p \in Guests, Orderly(p)
  PROVE  Orderly(p)'
<1>1. /\ proton \in Event /\ OtherWrites(proton') /\ Kin(proton) /\ proton # None
      /\ proton.seq \in Nat /\ proton.seq < MaxSeq /\ proton.org # Third
  BY OthersRow, RowOn, EventRow DEF Ours
<1>2. stamps' = stamps + 1 /\ req' = req BY <1>1 DEF OtherWrites
<1>3. Listed(proton) # {} => proton.org = Me BY <1>1, EventRow DEF Kin
<1>4. \A m : Has(m, p) => m.seq \in Nat /\ m.seq <= proton.seq
  BY <1>1, HasTyped DEF Orderly, HasOK
<1>5. \A m : Has(m, p) => m.seq < proton.seq + 1 BY <1>1, <1>4
<1>6. ASSUME NEW w \in Whens, OtherMoves(w) PROVE Orderly(p)'
  <2>1. proton' = [proton EXCEPT !.when = w, !.seq = @ + 1] BY <1>6 DEF OtherMoves, OtherWrites
  <2>2. /\ proton' \in Event /\ proton'.org = proton.org /\ proton'.att = proton.att
        /\ proton'.seq = proton.seq + 1
    BY <1>1, <2>1, RowTouched
  <2>3. Listed(proton') = Listed(proton) BY <1>1, <2>2, ListedOf
  <2>4. Told(proton', Listed(proton), proton.seq + 1) BY <1>6, <2>2 DEF OtherMoves
  <2>5. proton'.org = Me BY <1>3, <1>6, <2>2 DEF OtherMoves
  <2>6. p \notin Listed(proton) => \A m : Right(m, p) => Right(m, p)' BY <2>3 DEF Right
  <2>7. ~(proton'.org = Me /\ p \in Listed(proton)) => \A m : Right(m, p) => Right(m, p)'
    BY <2>5, <2>6
  <2>8. proton.seq + 1 \in Nat BY <1>1
  <2> QED BY <1>2, <1>5, <2>2, <2>4, <2>7, <2>8, GuestTold
<1>7. ASSUME NEW g \in Guests, OtherInvites(g) PROVE Orderly(p)'
  <2>1. proton' = [proton EXCEPT !.att[g] = 0, !.seq = @ + 1] /\ proton.org = Me
    BY <1>7 DEF OtherInvites, OtherWrites
  <2>2. g \in People BY DEF People
  <2>3. /\ proton' \in Event /\ proton'.org = Me /\ Listed(proton') = Listed(proton) \cup {g}
        /\ proton'.seq = proton.seq + 1 /\ proton'.when = proton.when
        /\ proton'.place = proton.place
    BY <1>1, <2>1, <2>2, RowTouched
  <2>4. Told(proton', Listed(proton'), proton.seq + 1) BY <1>7, <2>3 DEF OtherInvites
  <2>5. p \notin Listed(proton') => \A m : Right(m, p) => Right(m, p)' BY <2>3 DEF Right
  <2>6. ~(proton'.org = Me /\ p \in Listed(proton')) => \A m : Right(m, p) => Right(m, p)'
    BY <2>3, <2>5
  <2>7. proton.seq + 1 \in Nat BY <1>1
  <2> QED BY <1>2, <1>5, <2>3, <2>4, <2>6, <2>7, GuestTold
<1>8. ~OtherCancels BY <1>1, <1>3 DEF OtherCancels, Foreign
<1>9. ASSUME OtherDeletes PROVE Orderly(p)'
  <2>1. proton' = None BY <1>9 DEF OtherDeletes, OtherWrites
  <2>2. Told(proton, Listed(proton), proton.seq + 1) BY <1>9 DEF OtherDeletes
  <2>3. p \notin Listed(proton) => \A m : Right(m, p) => Right(m, p)'
    BY <2>1, NoneRow DEF Right
  <2>4. ~(proton.org = Me /\ p \in Listed(proton)) => \A m : Right(m, p) => Right(m, p)'
    BY <1>3, <2>3
  <2>5. p \notin Listed(proton') BY <2>1, NoneRow
  <2>6. proton.seq + 1 \in Nat BY <1>1
  <2> QED BY <1>2, <1>5, <2>1, <2>2, <2>4, <2>5, <2>6, GuestTold
<1>10. ASSUME NEW r \in People, NEW s \in Replies, OtherAnswers(r, s) PROVE Orderly(p)'
  <2>1. proton' = WithStatus(proton, r, s) /\ r \in Listed(proton)
    BY <1>10 DEF OtherAnswers, OtherWrites, WithStatus
  <2>2. s \in Status /\ s # Absent BY RepliesAssumption DEF Status, Absent
  <2>3. /\ Listed(proton') = Listed(proton) \cup {r} /\ proton'.seq = proton.seq
        /\ proton'.when = proton.when /\ proton'.place = proton.place
    BY <1>1, <2>1, <2>2, RowAnswered
  <2>4. Listed(proton') = Listed(proton) BY <2>1, <2>3
  <2>5. \A m : Right(m, p) => Right(m, p)' BY <2>3, <2>4 DEF Right
  <2>6. agenda' = agenda BY <1>10 DEF OtherAnswers
  <2>7. lost'[p] = lost[p]
    <3>1. lost \in [Recipients -> Stamps] /\ p \in Recipients /\ p # Third
      BY RowOn, ThirdIsNobodyHere DEF People
    <3> QED BY <1>10, <3>1 DEF OtherAnswers
  <2>8. \A m : Has(m, p)' <=> Has(m, p)
    <3>1. \A m : \A d \in Clients : Bound(m, p, d)' <=> Bound(m, p, d) BY <1>2, BoundSame
    <3> QED BY <2>6, <3>1 DEF Has
  <2>9. \A m : Has(m, p) => m.seq <= proton'.seq BY <1>4, <2>3
  <2>10. HasOK(p) /\ stamps \in Nat /\ stamps' \in Nat /\ stamps <= stamps'
    BY <1>2, HasTyped, RowOn
  <2> QED BY <2>5, <2>7, <2>8, <2>9, <2>10, OrderlyStays
<1> QED BY <1>6, <1>7, <1>8, <1>9, <1>10 DEF Others

\* An update on the row it was planned on: those it is announced to get the row as
\* it is written, and to the others nothing of theirs has changed.
LEMMA GuestUpdate ==
  ASSUME InviteInv, NEW c \in Clients, Update(c), ~raced', ~crossed',
         NEW p \in Guests, Orderly(p)
  PROVE  Orderly(p)'
<1>1. /\ req[c].pay \in Event /\ req[c].row \in Event /\ proton \in Event
      /\ NewsOf(c) \in Event /\ Listed(NewsOf(c)) = Listed(req[c].pay)
      /\ proton # None /\ req[c].row # None /\ req[c].pay # None
      /\ req[c].pc = "update" /\ Admitted(req[c])
      /\ proton.seq \in Nat /\ proton.seq < MaxSeq
  BY UpdateIs, CallOn, RowOn, EventRow DEF Update
<1>2. PICK replace \in BOOLEAN :
        /\ replace <=> req[c].plan /\ Listed(req[c].pay) # Listed(req[c].row)
        /\ Mailed(c, Patched(proton, NewsOf(c), replace), DueOf(c), SeqOf(c))
  BY MailedBy
<1> DEFINE pay == req[c].pay
           row == req[c].row
           in == NewsOf(c)
           new == Patched(proton, in, replace)
           people == replace /\ Listed(in) # Listed(proton)
           due == DueOf(c)
           seq == SeqOf(c)
<1>3. Announced(proton) = Announced(row) BY DEF Update
<1>4. /\ proton.when = row.when /\ proton.place = row.place /\ proton.rule = row.rule
      /\ proton.ex = row.ex /\ proton.seq = row.seq /\ Listed(proton) = Listed(row)
  <2>1. Announced(proton).rule = Announced(row).rule BY <1>3
  <2>2. proton.rule = row.rule BY <1>1, <2>1 DEF Announced
  <2> QED BY <1>1, <1>3, <2>2 DEF Announced
<1>5. /\ new \in Event /\ new.when = in.when /\ new.place = in.place
      /\ in.rule => new.ex = in.ex
      /\ new.seq = IF people \/ Restructured(in, proton) THEN proton.seq + 1 ELSE proton.seq
      /\ ~people => new.att = proton.att
      /\ people => Listed(new) = Listed(in)
  BY <1>1, PatchedTyped
<1>6. new.rule = in.rule BY <1>1, PatchedTyped
<1>7. in.when = pay.when /\ in.place = pay.place BY <1>1, MergedTyped DEF NewsOf
<1>8. Mailed(c, new, due, seq) BY <1>2
<1>9. Subject(c) = pay BY <1>1 DEF Subject
<1>10. new.seq \in Nat /\ proton.seq <= new.seq BY <1>1, <1>5
<1>11. ~people => Listed(new) = Listed(proton) BY <1>1, <1>5, ListedOf
<1>12. \A m : Has(m, p) => m.seq \in Nat /\ m.seq <= proton.seq
  BY <1>1, HasTyped DEF HasOK, Orderly
<1>13. \A m : Has(m, p) => m.seq <= new.seq BY <1>1, <1>10, <1>12
<1>14. proton' = new BY <1>8 DEF Mailed, Came
<1>15. CASE ~req[c].plan
  <2>1. due[1] = {} /\ due[2] = {} /\ due[3] = {} BY <1>15 DEF DueOf
  <2>2. Listed(new) = Listed(proton) BY <1>2, <1>11, <1>15
  <2>3. Listed(pay) \cup Listed(row) = {} \/ (pay.when = row.when /\ pay.place = row.place)
    BY <1>1, <1>15 DEF Admitted, Unconcerned, OccurrenceDeletionOnly
  <2>4. p \in Listed(new) => new.when = proton.when /\ new.place = proton.place
    BY <1>4, <1>5, <1>7, <2>2, <2>3
  <2>5. \A m : Right(m, p) => Right(m, p)' BY <1>14, <2>2, <2>4 DEF Right
  <2>6. \A i \in 1..3 : p \notin due[i] BY <2>1
  <2> HIDE DEF new, due, seq
  <2> QED BY <1>1, <1>8, <1>10, <1>13, <2>5, <2>6, GuestMailed
<1>16. CASE req[c].plan
  <2>1. /\ due[1] = Listed(row) \ Listed(pay) /\ due[2] = Listed(pay) \ Listed(row)
        /\ due[3] = IF Significant(in, row) THEN Listed(pay) \cap Listed(row) ELSE {}
        /\ seq = IF Structural(in, row) \/ Listed(pay) # Listed(row)
                 THEN row.seq + 1 ELSE row.seq
    BY <1>1, <1>16, PlanIs DEF DueOf, SeqOf, NewsOf
  <2>2. replace <=> Listed(pay) # Listed(row) BY <1>2, <1>16
  <2>3. people <=> Listed(pay) # Listed(row) BY <1>1, <1>4, <2>2
  <2>4. Listed(new) = Listed(pay) BY <1>1, <1>4, <1>5, <1>11, <2>3
  <2>5. Structural(in, row) <=> Restructured(in, proton) BY <1>1, <1>4, SameBump
  <2>6. seq = new.seq BY <1>4, <1>5, <2>1, <2>3, <2>5
  <2>7. ASSUME Significant(in, row) PROVE new # proton
    <3>1. CASE in.when # row.when \/ in.place # row.place BY <1>4, <1>5, <3>1
    <3>2. CASE in.rule # row.rule
      <4>1. new.rule # proton.rule BY <1>4, <1>6, <3>2
      <4> QED BY <4>1
    <3>3. CASE in.rule /\ in.ex # row.ex BY <1>4, <1>5, <3>3
    <3> QED BY <2>7, <3>1, <3>2, <3>3 DEF Significant, Structural
  <2>8. ~Significant(in, row) => new.when = proton.when /\ new.place = proton.place
    BY <1>4, <1>5 DEF Significant, Structural
  <2>9. ASSUME \A i \in 1..3 : p \notin due[i] PROVE \A m : Right(m, p) => Right(m, p)'
    <3>1. p \notin due[1] /\ p \notin due[2] /\ p \notin due[3] BY <2>9
    <3>2. p \in Listed(new) <=> p \in Listed(proton) BY <1>4, <2>1, <2>4, <3>1
    <3>3. p \in Listed(new) => new.when = proton.when /\ new.place = proton.place
      BY <1>4, <2>1, <2>4, <2>8, <3>1, <3>2
    <3> QED BY <1>14, <3>2, <3>3 DEF Right
  <2>10. ASSUME NEW i \in 1..3, p \in due[i]
         PROVE  /\ new # proton
                /\ p \in Listed(new) <=> i # 1
                /\ i # 1 => pay.when = new.when /\ pay.place = new.place
                /\ \A j \in 1..3 : p \in due[j] => i = j
    <3>1. new # proton
      <4>1. CASE i = 3
        <5>1. Significant(in, row) BY <2>1, <2>10, <4>1
        <5> QED BY <2>7, <5>1
      <4>2. CASE i # 3
        <5>1. Listed(new) # Listed(proton)
          <6>1. i = 1 \/ i = 2 BY <4>2
          <6>2. Listed(pay) # Listed(row) BY <2>1, <2>10, <6>1
          <6> QED BY <1>4, <2>4, <6>2
        <5> QED BY <5>1
      <4> QED BY <4>1, <4>2
    <3>2. p \in Listed(new) <=> i # 1
      <4>1. i = 1 \/ i = 2 \/ i = 3 OBVIOUS
      <4> HIDE DEF due, pay, row, in, new
      <4> QED BY <2>1, <2>4, <2>10, <4>1
    <3>3. pay.when = new.when /\ pay.place = new.place BY <1>5, <1>7
    <3>4. ASSUME NEW j \in 1..3, p \in due[j] PROVE i = j
      <4>1. (i = 1 \/ i = 2 \/ i = 3) /\ (j = 1 \/ j = 2 \/ j = 3) OBVIOUS
      <4> HIDE DEF due, pay, row, in
      <4> QED BY <2>1, <2>10, <3>4, <4>1
    <3> QED BY <3>1, <3>2, <3>3, <3>4
  <2> HIDE DEF new, due, seq, pay, row, in, people
  <2>11. (\E i \in 1..3 : p \in due[i]) =>
           /\ new # proton /\ seq \in Nat
           /\ \A m : Has(m, p) => m.seq <= seq
           /\ new # None => seq <= new.seq
           /\ Subject(c) \in Event
           /\ \A i, j \in 1..3 : p \in due[i] /\ p \in due[j] => i = j
           /\ \A i \in 1..3 : p \in due[i] =>
                /\ p \in Listed(new) <=> i # 1
                /\ i # 1 => Subject(c).when = new.when /\ Subject(c).place = new.place
    <3>1. (\E i \in 1..3 : p \in due[i]) => new # proton BY <2>10
    <3>2. seq \in Nat /\ seq <= new.seq /\ \A m : Has(m, p) => m.seq <= seq
      BY <1>10, <1>13, <2>6
    <3>3. \A i, j \in 1..3 : p \in due[i] /\ p \in due[j] => i = j BY <2>10
    <3>4. \A i \in 1..3 : p \in due[i] =>
                /\ p \in Listed(new) <=> i # 1
                /\ i # 1 => Subject(c).when = new.when /\ Subject(c).place = new.place
      BY <1>9, <2>10
    <3>5. Subject(c) \in Event BY <1>1, <1>9 DEF pay
    <3> QED BY <3>1, <3>2, <3>3, <3>4, <3>5
  <2>12. (\A i \in 1..3 : p \notin due[i]) => \A m : Right(m, p) => Right(m, p)' BY <2>9
  <2>13. new # None => new.seq \in Nat /\ \A m : Has(m, p) => m.seq <= new.seq
    BY <1>10, <1>13
  <2> QED BY <1>1, <1>8, <2>11, <2>12, <2>13, GuestMailed
<1> QED BY <1>15, <1>16

\* A first event: nothing was sent before, and those invited are told of it.
LEMMA GuestCreate ==
  ASSUME InviteInv, NEW c \in Clients, Create(c), ~raced', ~crossed',
         NEW p \in Guests, Orderly(p)
  PROVE  Orderly(p)'
<1> DEFINE pay == req[c].pay
           new == Created(pay)
           due == CreateDue(c)
<1>1. /\ pay \in Event /\ proton = None /\ stamps \in Nat /\ req[c].pc = "create"
      /\ Listed(pay) # {} => req[c].plan
      /\ Mailed(c, new, due, 0)
  BY CreateKept, MailedBy, RowOn DEF Create
<1>2. stamps = 0
  <2>1. ~(stamps > 0) BY <1>1 DEF Create
  <2> QED BY <1>1, <2>1
<1>3. \A m : Has(m, p) => m.seq = 0
  <2> SUFFICES ASSUME NEW m, Has(m, p) PROVE m.seq = 0 OBVIOUS
  <2>1. m.stamp \in Nat BY HasTyped DEF HasOK
  <2>2. m.stamp <= stamps /\ (m.stamp = 0 => m.seq = 0) BY DEF Orderly
  <2> QED BY <1>2, <2>1, <2>2
<1>4. /\ new \in Event /\ Listed(new) = Listed(pay) /\ new.seq = 0
      /\ new.when = pay.when /\ new.place = pay.place
  BY <1>1, CreatedTyped
<1>5. new # proton /\ proton' = new BY <1>1, <1>4, EventRow DEF Mailed, Came
<1>6. due[1] = {} /\ due[3] = {} /\ due[2] = Listed(pay) BY <1>1 DEF CreateDue
<1>7. Subject(c) = pay BY <1>1, EventRow DEF Subject
<1>8. (\A i \in 1..3 : p \notin due[i]) => \A m : Right(m, p) => Right(m, p)'
  <2> SUFFICES ASSUME \A i \in 1..3 : p \notin due[i], NEW m, Right(m, p) PROVE Right(m, p)'
    OBVIOUS
  <2>1. p \notin due[2] OBVIOUS
  <2>2. p \notin Listed(new) BY <1>4, <1>6, <2>1
  <2>3. p \notin Listed(proton) BY <1>1, NoneRow
  <2> QED BY <1>5, <2>2, <2>3 DEF Right
<1>9. \A i \in 1..3 : p \in due[i] => i = 2 /\ p \in Listed(pay)
  <2> SUFFICES ASSUME NEW i \in 1..3, p \in due[i] PROVE i = 2 /\ p \in Listed(pay) OBVIOUS
  <2>1. i = 1 \/ i = 2 \/ i = 3 OBVIOUS
  <2> HIDE DEF due
  <2> QED BY <1>6, <2>1
<1> HIDE DEF pay, new, due
<1>10. (\E i \in 1..3 : p \in due[i]) =>
           /\ new # proton /\ 0 \in Nat
           /\ \A m : Has(m, p) => m.seq <= 0
           /\ new # None => 0 <= new.seq
           /\ Subject(c) \in Event
           /\ \A i, j \in 1..3 : p \in due[i] /\ p \in due[j] => i = j
           /\ \A i \in 1..3 : p \in due[i] =>
                /\ p \in Listed(new) <=> i # 1
                /\ i # 1 => Subject(c).when = new.when /\ Subject(c).place = new.place
  <2>1. \A i, j \in 1..3 : p \in due[i] /\ p \in due[j] => i = j BY <1>9
  <2>2. \A i \in 1..3 : p \in due[i] =>
                /\ p \in Listed(new) <=> i # 1
                /\ i # 1 => Subject(c).when = new.when /\ Subject(c).place = new.place
    BY <1>4, <1>7, <1>9
  <2>3. \A m : Has(m, p) => m.seq <= 0 BY <1>3
  <2> QED BY <1>1, <1>4, <1>5, <1>7, <2>1, <2>2, <2>3
<1>11. new # None => new.seq \in Nat /\ \A m : Has(m, p) => m.seq <= new.seq BY <1>3, <1>4
<1>12. req[c].pc # "mail" BY <1>1
<1> QED BY <1>1, <1>8, <1>10, <1>11, <1>12, GuestMailed

\* The event is deleted as it was served: its guests are told, with a SEQUENCE
\* above any they have.
LEMMA GuestDelete ==
  ASSUME InviteInv, Ours, NEW c \in Clients, Delete(c), ~raced', ~crossed',
         NEW p \in Guests, Orderly(p)
  PROVE  Orderly(p)'
<1> DEFINE row == req[c].row
           due == <<IF row.org = Me THEN Listed(row) ELSE {}, {}, {}>>
           seq == IF row.org = Me THEN row.seq + 1 ELSE 0
<1>1. /\ row \in Event /\ row # None /\ row.seq \in Nat /\ row.org \in {Me, Third, Nobody}
      /\ Kin(row) /\ row.org # Third /\ req[c].pay \in Event \cup {None}
      /\ proton \in Event /\ proton # None /\ proton.seq \in Nat /\ req[c].pc = "delete"
  BY CallOn, DeleteKept, EventRow DEF Ours, Delete
<1>2. Mailed(c, None, due, seq) BY MailedBy
<1>3. Listed(proton) = Listed(row) /\ proton.seq <= row.seq
  <2>1. Listed(proton) = Listed(row) /\ ~(proton.seq > row.seq) BY DEF Delete
  <2> QED BY <1>1, <2>1
<1>4. Listed(row) # {} => row.org = Me BY <1>1 DEF Kin
<1>5. due[1] = Listed(row) /\ due[2] = {} /\ due[3] = {} BY <1>4
<1>6. proton' = None BY <1>2 DEF Mailed, Came
<1>7. \A i \in 1..3 : p \in due[i] => i = 1 /\ p \in Listed(row)
  <2> SUFFICES ASSUME NEW i \in 1..3, p \in due[i] PROVE i = 1 /\ p \in Listed(row) OBVIOUS
  <2>1. i = 1 \/ i = 2 \/ i = 3 OBVIOUS
  <2> HIDE DEF due
  <2> QED BY <1>5, <2>1
<1>8. (\A i \in 1..3 : p \notin due[i]) => \A m : Right(m, p) => Right(m, p)'
  <2> SUFFICES ASSUME \A i \in 1..3 : p \notin due[i], NEW m, Right(m, p) PROVE Right(m, p)'
    OBVIOUS
  <2>1. p \notin due[1] OBVIOUS
  <2>2. p \notin Listed(proton) BY <1>3, <1>5, <2>1
  <2> QED BY <1>6, <2>2, NoneRow DEF Right
<1>9. Subject(c) \in Event BY <1>1 DEF Subject
<1> HIDE DEF row, due, seq
<1>10. (\E i \in 1..3 : p \in due[i]) =>
           /\ None # proton /\ seq \in Nat
           /\ \A m : Has(m, p) => m.seq <= seq
           /\ None # None => seq <= None.seq
           /\ Subject(c) \in Event
           /\ \A i, j \in 1..3 : p \in due[i] /\ p \in due[j] => i = j
           /\ \A i \in 1..3 : p \in due[i] =>
                /\ p \in Listed(None) <=> i # 1
                /\ i # 1 => Subject(c).when = None.when /\ Subject(c).place = None.place
  <2> SUFFICES ASSUME \E i \in 1..3 : p \in due[i]
               PROVE  /\ seq \in Nat /\ \A m : Has(m, p) => m.seq <= seq
    BY <1>1, <1>7, <1>9, NoneRow
  <2>1. row.org = Me BY <1>4, <1>7
  <2>2. seq = row.seq + 1 BY <2>1 DEF seq
  <2>3. \A m : Has(m, p) => m.seq \in Nat /\ m.seq <= proton.seq
    BY <1>1, HasTyped DEF HasOK, Orderly
  <2> QED BY <1>1, <1>3, <2>2, <2>3
<1>11. req[c].pc # "mail" BY <1>1
<1> QED BY <1>2, <1>8, <1>10, <1>11, GuestMailed

\* A request that has no message to a guest but that the event is off.
LEMMA SilentKept ==
  ASSUME NEW p \in Guests, Silent(p), NEW c \in Clients, \A d \in Clients \ {c} : req'[d] = req[d],
         agenda' = agenda, p \notin req'[c].due[2], p \notin req'[c].due[3]
  PROVE  Silent(p)'
BY DEF Silent

LEMMA SilentMailed ==
  ASSUME NEW p \in Guests, Silent(p), NEW c \in Clients, NEW new, NEW due, NEW seq,
         Mailed(c, new, due, seq), p \notin due[2], p \notin due[3]
  PROVE  Silent(p)'
<1>1. agenda' = agenda /\ \A d \in Clients \ {c} : req'[d] = req[d] BY DEF Mailed, Came
<1>2. CASE Posted(c, due, seq)
  <2>1. req'[c].due = due BY <1>2 DEF Posted
  <2> QED BY <1>1, <2>1, SilentKept
<1>3. CASE req'[c] = Idle
  <2>1. p \notin req'[c].due[2] /\ p \notin req'[c].due[3] BY <1>3, IdleTyped
  <2> QED BY <1>1, <2>1, SilentKept
<1> QED BY <1>2, <1>3 DEF Mailed

LEMMA SilentSend ==
  ASSUME InviteInv, NEW c \in Clients, NEW q \in Recipients, Send(c, q), NEW p \in Guests,
         Silent(p)
  PROVE  Silent(p)'
<1>1. Posting(c, q) /\ req[c].pc = "mail" BY SendPosts
<1>2. /\ \A d \in Clients \ {c} : req'[d] = req[d]
      /\ \A i \in 1..3 : i # Batch(c) => req'[c].due[i] = req[c].due[i]
      /\ req'[c].due[Batch(c)] = req[c].due[Batch(c)] \ {q}
      /\ Batch(c) \in 1..3 /\ q \in req[c].due[Batch(c)]
  BY <1>1 DEF Posting
<1>3. \A i \in 1..3 : req'[c].due[i] \subseteq req[c].due[i] BY <1>2
<1>4. p \notin req'[c].due[2] /\ p \notin req'[c].due[3] BY <1>3 DEF Silent
<1>5. \A d \in Clients : p \notin req'[d].due[2] \cup req'[d].due[3]
  BY <1>2, <1>4 DEF Silent
<1>6. ~agenda'[p].live
  <2>1. CASE agenda'[p] = agenda[p] BY <2>1 DEF Silent
  <2>2. CASE q = p /\ agenda' = [agenda EXCEPT ![p] = Taken(@, Letter(c, Batch(c)))]
    <3>1. agenda = [g \in Guests |-> agenda[g]] BY DEF InviteInv, TypeOK
    <3>2. agenda'[p] = Taken(agenda[p], Letter(c, Batch(c))) BY <2>2, <3>1
    <3>3. Batch(c) = 1
      <4>1. p \notin req[c].due[2] /\ p \notin req[c].due[3] BY DEF Silent
      <4> QED BY <1>2, <2>2, <4>1
    <3>4. ~Letter(c, Batch(c)).live
      <4>1. Batch(c) \in 1..4 /\ ~(Batch(c) # 1) BY <3>3
      <4> QED BY <1>1, <4>1, LetterTyped
    <3>5. agenda'[p] = agenda[p] \/ agenda'[p] = Letter(c, Batch(c)) BY <3>2 DEF Taken
    <3>6. CASE agenda'[p] = Letter(c, Batch(c)) BY <3>4, <3>6
    <3> QED BY <2>1, <3>5, <3>6
  <2>3. \/ agenda'[p] = agenda[p]
        \/ q = p /\ agenda' = [agenda EXCEPT ![p] = Taken(@, Letter(c, Batch(c)))]
    <3>1. CASE agenda' = agenda BY <3>1
    <3>2. CASE agenda' = [agenda EXCEPT ![q] = Taken(@, Letter(c, Batch(c)))]
      <4>1. agenda = [g \in Guests |-> agenda[g]] BY DEF InviteInv, TypeOK
      <4>2. q # p => agenda'[p] = agenda[p] BY <3>2, <4>1
      <4> QED BY <3>2, <4>2
    <3> QED BY <3>1, <3>2 DEF Send, Delivered
  <2> QED BY <2>1, <2>2, <2>3
<1> QED BY <1>5, <1>6 DEF Silent

\* Of an event that is somebody else's the gateway tells the guests nothing.
LEMMA SilentNext ==
  ASSUME InviteInv, Theirs, NEW p \in Guests, Silent(p), [Next]_vars
  PROVE  Silent(p)'
<1>1. CASE UNCHANGED vars \/ Tick \/ Poll
  <2>1. UNCHANGED <<req, agenda>> BY <1>1 DEF vars, counters, Tick, Poll
  <2> QED BY <2>1 DEF Silent
<1>2. CASE Others
  <2>1. proton # None /\ proton.org = Third /\ OtherWrites(proton')
    BY <1>2, OthersRow, EventRow DEF Theirs
  <2>2. req' = req BY <2>1 DEF OtherWrites
  <2>3. proton' # None => proton'.org = Third BY <1>2, <2>1, OthersRow
  <2>4. ASSUME NEW e, NEW people, NEW seq, Told(e, people, seq), e.org = Third
        PROVE  agenda'[p] = agenda[p]
    BY <2>4, PeopleAssumption DEF Told
  <2>5. agenda'[p] = agenda[p]
    <3>1. ASSUME NEW w \in Whens, OtherMoves(w) PROVE agenda'[p] = agenda[p]
      <4>1. proton' # None
        <5>1. proton' = [proton EXCEPT !.when = w, !.seq = @ + 1]
          BY <3>1 DEF OtherMoves, OtherWrites
        <5>2. proton \in Event /\ proton.seq < MaxSeq BY <1>2, <2>1, OthersRow, RowOn
        <5>3. proton' \in Event BY <5>1, <5>2, RowTouched
        <5> QED BY <5>3, EventRow
      <4> QED BY <2>3, <2>4, <3>1, <4>1 DEF OtherMoves
    <3>2. ~\E g \in Guests : OtherInvites(g) BY <2>1, PeopleAssumption DEF OtherInvites
    <3>3. OtherDeletes => agenda'[p] = agenda[p] BY <2>1, <2>4 DEF OtherDeletes
    <3>4. OtherCancels \/ (\E g \in People, s \in Replies : OtherAnswers(g, s))
            => agenda'[p] = agenda[p]
      BY DEF OtherCancels, OtherAnswers
    <3> QED BY <1>2, <3>1, <3>2, <3>3, <3>4 DEF Others
  <2> QED BY <2>2, <2>5 DEF Silent
<1>3. ASSUME NEW c \in Clients, PutStart(c) PROVE Silent(p)'
  <2>1. /\ \A d \in Clients \ {c} : req'[d] = req[d]
        /\ req'[c].due = <<{}, {}, {}>> /\ agenda' = agenda
    BY <1>3, PutStarts DEF PutStart
  <2>2. p \notin req'[c].due[2] /\ p \notin req'[c].due[3] BY <2>1
  <2> QED BY <2>1, <2>2, SilentKept
<1>4. ASSUME NEW c \in Clients, DeleteStart(c) PROVE Silent(p)'
  <2>1. /\ \A d \in Clients \ {c} : req'[d] = req[d]
        /\ req'[c].due = <<{}, {}, {}>> /\ agenda' = agenda
    BY <1>4, DeleteStarts DEF DeleteStart
  <2>2. p \notin req'[c].due[2] /\ p \notin req'[c].due[3] BY <2>1
  <2> QED BY <2>1, <2>2, SilentKept
<1>5. ASSUME NEW c \in Clients, CallFails(c) \/ NotFound(c) \/ Finish(c) PROVE Silent(p)'
  <2>1. /\ \A d \in Clients \ {c} : req'[d] = req[d]
        /\ req'[c] = Idle /\ agenda' = agenda
    BY <1>5, EndsKept, FinishKept
  <2>2. p \notin req'[c].due[2] /\ p \notin req'[c].due[3] BY <2>1, IdleTyped
  <2> QED BY <2>1, <2>2, SilentKept
<1>6. ASSUME NEW c \in Clients, Update(c) PROVE Silent(p)'
  <2>1. PICK replace \in BOOLEAN : Mailed(c, Patched(proton, NewsOf(c), replace), DueOf(c), SeqOf(c))
    BY <1>6, MailedBy
  <2>2. ~req[c].plan BY <1>6 DEF Theirs, Update
  <2>3. p \notin DueOf(c)[2] /\ p \notin DueOf(c)[3] BY <2>2 DEF DueOf
  <2> QED BY <2>1, <2>3, SilentMailed
<1>7. ASSUME NEW c \in Clients, Answer(c) PROVE Silent(p)'
  <2>1. Mailed(c, WithStatus(proton, Me, req[c].reply), <<{}, {}, {Third}>>, req[c].row.seq)
    BY <1>7, MailedBy
  <2>2. p # Third BY ThirdIsNobodyHere DEF People
  <2>3. p \notin <<{}, {}, {Third}>>[2] /\ p \notin <<{}, {}, {Third}>>[3] BY <2>2
  <2> QED BY <2>1, <2>3, SilentMailed
<1>8. ASSUME NEW c \in Clients, Drop(c) PROVE Silent(p)'
  <2>1. Mailed(c, None, <<{}, {}, {}>>, 0) BY <1>8, MailedBy
  <2>2. p \notin <<{}, {}, {}>>[2] /\ p \notin <<{}, {}, {}>>[3] OBVIOUS
  <2> QED BY <2>1, <2>2, SilentMailed
<1>9. ASSUME NEW c \in Clients, Delete(c) PROVE Silent(p)'
  <2> DEFINE due == <<IF req[c].row.org = Me THEN Listed(req[c].row) ELSE {}, {}, {}>>
             seq == IF req[c].row.org = Me THEN req[c].row.seq + 1 ELSE 0
  <2>1. Mailed(c, None, due, seq) BY <1>9, MailedBy
  <2>2. p \notin due[2] /\ p \notin due[3] OBVIOUS
  <2> HIDE DEF due, seq
  <2> QED BY <2>1, <2>2, SilentMailed
<1>10. ASSUME NEW c \in Clients, NEW q \in Recipients, Send(c, q) PROVE Silent(p)'
  BY <1>10, SilentSend
<1>11. \A c \in Clients : ~Create(c) BY DEF Theirs, Create
<1> QED BY <1>1, <1>2, <1>3, <1>4, <1>5, <1>6, <1>7, <1>8, <1>9, <1>10, <1>11 DEF Next, Handler

\* Once a write met another row than it was decided on, that is remembered.
LEMMA RacedStays == [Next]_vars /\ ~raced' => ~raced
<1> SUFFICES ASSUME [Next]_vars, raced PROVE raced' OBVIOUS
<1>1. CASE UNCHANGED vars \/ Tick \/ Poll
  <2>1. raced' = raced BY <1>1 DEF vars, Tick, Poll
  <2> QED BY <2>1, Zenon
<1>2. CASE Others
  <2>1. raced' = raced
    BY <1>2 DEF Others, OtherMoves, OtherInvites, OtherCancels, OtherDeletes, OtherAnswers,
                OtherWrites
  <2> QED BY <2>1, Zenon
<1>3. ASSUME NEW c \in Clients, PutStart(c) \/ DeleteStart(c) PROVE raced'
  <2>1. raced' = raced BY <1>3 DEF PutStart, DeleteStart
  <2> QED BY <2>1, Zenon
<1>4. ASSUME NEW c \in Clients,
             \/ CallFails(c) \/ NotFound(c) \/ Answer(c) \/ Drop(c) \/ Finish(c)
             \/ \E p \in Recipients : Send(c, p)
      PROVE  raced'
  <2>1. raced' = raced BY <1>4 DEF CallFails, NotFound, Answer, Drop, Finish, Send
  <2> QED BY <2>1, Zenon
<1>5. ASSUME NEW c \in Clients, Create(c) \/ Update(c) \/ Delete(c) PROVE raced'
  BY <1>5, Zenon DEF Create, Update, Delete
<1> QED BY <1>1, <1>2, <1>3, <1>4, <1>5 DEF Next, Handler

LEMMA OrderlyNext ==
  ASSUME InviteInv, Ours, NEW p \in Guests, Orderly(p), [Next]_vars, ~raced',
         ~crossed'
  PROVE  Orderly(p)'
<1>1. CASE UNCHANGED vars \/ Tick \/ Poll
  <2>1. UNCHANGED <<proton, req, agenda, lost, stamps>>
    BY <1>1 DEF vars, counters, Tick, Poll
  <2>2. ASSUME NEW m PROVE Has(m, p)' <=> Has(m, p)
    <3>1. \A d \in Clients : Bound(m, p, d)' <=> Bound(m, p, d) BY <2>1, BoundSame
    <3> QED BY <2>1, <3>1 DEF Has
  <2>3. \A m : Right(m, p) => Right(m, p)' BY <2>1 DEF Right
  <2>4. HasOK(p) /\ stamps \in Nat /\ stamps' \in Nat /\ stamps <= stamps'
    BY <2>1, HasTyped, RowOn
  <2>5. proton' # None => \A m : Has(m, p) => m.seq <= proton'.seq BY <2>1 DEF Orderly
  <2> QED BY <2>1, <2>2, <2>3, <2>4, <2>5, OrderlyStays
<1>2. CASE Others BY <1>2, GuestOthers
<1>3. ASSUME NEW c \in Clients,
             \/ PutStart(c) \/ DeleteStart(c) \/ CallFails(c) \/ NotFound(c) \/ Finish(c)
      PROVE  Orderly(p)'
  BY <1>3, StillSteps, GuestStill
<1>4. ASSUME NEW c \in Clients, Create(c) PROVE Orderly(p)' BY <1>4, GuestCreate
<1>5. ASSUME NEW c \in Clients, Update(c) PROVE Orderly(p)' BY <1>5, GuestUpdate
<1>6. ASSUME NEW c \in Clients, Delete(c) PROVE Orderly(p)' BY <1>6, GuestDelete
<1>7. ASSUME NEW c \in Clients, NEW q \in Recipients, Send(c, q) PROVE Orderly(p)'
  BY <1>7, GuestSend
<1>8. ASSUME NEW c \in Clients PROVE ~Answer(c) /\ ~Drop(c)
  <2>1. req[c].pc # "answer" /\ req[c].row.org # Third /\ Admitted(req[c])
    BY CallOn DEF Ours
  <2> QED BY <2>1 DEF Answer, Drop, Admitted
<1> QED BY <1>1, <1>2, <1>3, <1>4, <1>5, <1>6, <1>7, <1>8 DEF Next, Handler

\* Whose event the UID is changes with its deletion at most.
LEMMA AllKept == InviteInv /\ [Next]_vars => (Ours => Ours') /\ (Theirs => Theirs')
<1> SUFFICES ASSUME InviteInv, [Next]_vars PROVE (Ours => Ours') /\ (Theirs => Theirs') OBVIOUS
<1>1. CASE UNCHANGED vars BY <1>1 DEF vars, counters, Ours, Theirs
<1>2. CASE Tick \/ Poll BY <1>2, TickKept, PollKept DEF Kept
<1>3. CASE Others BY <1>3, OthersKept
<1>4. ASSUME NEW c \in Clients, PutStart(c) \/ DeleteStart(c)
      PROVE  (Ours => Ours') /\ (Theirs => Theirs')
  BY <1>4, PutStarts, DeleteStarts DEF Kept
<1>5. ASSUME NEW c \in Clients, Handler(c) PROVE (Ours => Ours') /\ (Theirs => Theirs')
  BY <1>5, EndsKept, CreateKept, UpdateKept, AnswerKept, DropKept, DeleteKept, SendKept,
     FinishKept DEF Handler, Kept
<1> QED BY <1>1, <1>2, <1>3, <1>4, <1>5 DEF Next

LEMMA GuestNext == InviteInv /\ GuestInv /\ [Next]_vars => GuestInv'
<1> SUFFICES ASSUME InviteInv, GuestInv, [Next]_vars, ~raced', ~crossed', NEW p \in Guests
             PROVE  (Ours' /\ Orderly(p)') \/ (Theirs' /\ Silent(p)')
  BY DEF GuestInv
<1>1. (Ours /\ Orderly(p)) \/ (Theirs /\ Silent(p)) BY RacedStays, CrossedStays DEF GuestInv
<1>2. CASE Ours /\ Orderly(p) BY <1>2, AllKept, OrderlyNext
<1>3. CASE Theirs /\ Silent(p) BY <1>3, AllKept, SilentNext
<1> QED BY <1>1, <1>2, <1>3

LEMMA GuestInit == Init => GuestInv
<1> SUFFICES ASSUME Init, NEW p \in Guests
             PROVE  (Ours /\ Orderly(p)) \/ (Theirs /\ Silent(p))
  BY DEF GuestInv
<1> DEFINE first == Draft(Me, Guests, TRUE)
           informed == IF proton # None /\ proton.org = Me THEN Listed(proton) ELSE {}
           live == p \in informed
<1>1. /\ proton \in InitialRows /\ mirror = proton /\ req = [c \in Clients |-> Idle]
      /\ agenda[p] = Says(first, live, 0, 0)
      /\ stamps = 0
  BY DEF Init
<1>2. agenda[p].live = live BY <1>1 DEF Says
<1>3. agenda[p].live <=> live BY <1>2, Zenon
<1>4. /\ agenda[p].when = first.when /\ agenda[p].place = first.place
      /\ agenda[p].seq = 0 /\ agenda[p].stamp = 0
  BY <1>1 DEF Says
<1>5. InviteInv BY InviteInit
<1>6. CASE proton.org = Third
  <2>1. proton # None /\ Listed(proton) # {} BY <1>1, <1>6, InitialRow DEF People
  <2>2. informed = {} BY <1>6, PeopleAssumption
  <2>3. Silent(p)
    <3>1. ~agenda[p].live BY <1>3, <2>2
    <3>2. \A c \in Clients : p \notin req[c].due[2] \cup req[c].due[3] BY <1>1, IdleTyped
    <3> QED BY <3>1, <3>2 DEF Silent
  <2>4. Theirs BY <1>1, <1>6, <2>1, IdleTyped DEF Theirs
  <2> QED BY <2>3, <2>4
<1>7. CASE proton.org # Third
  <2>1. Ours BY <1>1, <1>7, IdleTyped, NoneRow, PeopleAssumption DEF Ours
  <2>2. \A m : Has(m, p) <=> m = agenda[p] BY <1>1, IdleTyped DEF Has, Bound
  <2>3. proton # None => /\ proton \in Event /\ proton.seq = 0
                         /\ proton.when = first.when /\ proton.place = first.place
    BY <1>1, InitialRow
  <2>4. p \in Listed(proton) => live
    <3> SUFFICES ASSUME p \in Listed(proton) PROVE p \in informed OBVIOUS
    <3>1. proton # None BY NoneRow
    <3>2. proton.org = Me
      <4>1. proton.org \in {Me, Third, Nobody} BY <2>3, <3>1, EventRow
      <4>2. proton.org # Nobody BY <1>1, InitialRow
      <4> QED BY <1>7, <4>1, <4>2
    <3> QED BY <3>1, <3>2
  <2>5. live => p \in Listed(proton) OBVIOUS
  <2>6. Right(agenda[p], p)
    <3>1. p \in Listed(proton) => proton # None BY NoneRow
    <3> HIDE DEF live, first
    <3> QED BY <1>3, <1>4, <2>3, <2>4, <2>5, <3>1 DEF Right
  <2>7. Orderly(p)
    <3>1. ASSUME NEW m, Has(m, p)
          PROVE  /\ m.stamp <= stamps /\ (m.stamp = 0 => m.seq = 0)
                 /\ (proton # None => m.seq <= proton.seq)
      <4>1. m.stamp = 0 /\ m.seq = 0 BY <1>4, <2>2, <3>1
      <4> HIDE DEF live, informed, first
      <4> QED BY <1>1, <2>3, <4>1
    <3>2. \A m, n : Has(m, p) /\ Has(n, p) =>
            (m.stamp < n.stamp => m.seq <= n.seq) /\ (m.stamp = n.stamp => m = n)
      <4> SUFFICES ASSUME NEW m, NEW n, Has(m, p), Has(n, p)
                   PROVE  (m.stamp < n.stamp => m.seq <= n.seq) /\ (m.stamp = n.stamp => m = n)
        OBVIOUS
      <4>1. m = n /\ n.seq = 0 BY <1>4, <2>2
      <4> QED BY <4>1
    <3>3. ASSUME NEW m, Has(m, p) PROVE Right(m, p) BY <2>2, <2>6, <3>3
    <3> QED BY <3>1, <3>2, <3>3 DEF Orderly
  <2> QED BY <2>1, <2>7
<1> QED BY <1>6, <1>7

\* Messages of several requests overtake one another, a message may be lost or
\* cut by the quota, and a calendar goes by SEQUENCE and DTSTAMP; yet, when no
\* request is in progress, every write met the row it was decided on and the
\* DTSTAMPs came in the order of the writes, each guest of the account's own event
\* that no message to was lost has it as it is: its when and where if he is invited,
\* and that he is not if he is not.
THEOREM GuestsKnow == Spec => []InviteesInformed
<1>1. InviteInv /\ GuestInv => InviteesInformed
  <2> SUFFICES ASSUME InviteInv, GuestInv, Quiet, ~raced, ~crossed,
                      proton = None \/ proton.org # Third,
                      NEW p \in Guests, lost[p] = 0
               PROVE  IF p \in Listed(proton)
                      THEN /\ agenda[p].live /\ agenda[p].when = proton.when
                           /\ agenda[p].place = proton.place
                      ELSE ~agenda[p].live
    BY DEF InviteesInformed, GuestsAgree
  <2>1. CASE Orderly(p)
    <3>1. \A m : Has(m, p) <=> m = agenda[p] BY DEF Has, Bound, Quiet
    <3>2. agenda[p].stamp \in Nat BY <3>1, HasTyped DEF HasOK
    <3>3. Newest(agenda[p], p) /\ lost[p] <= agenda[p].stamp BY <3>1, <3>2 DEF Newest
    <3>4. Right(agenda[p], p) BY <2>1, <3>1, <3>3 DEF Orderly
    <3> QED BY <3>4 DEF Right
  <2>2. CASE Theirs /\ Silent(p)
    <3>1. proton = None BY <2>2 DEF Theirs
    <3> QED BY <2>2, <3>1, NoneRow DEF Silent
  <2> QED BY <2>1, <2>2 DEF GuestInv
<1> QED BY InviteInit, InviteNext, GuestInit, GuestNext, <1>1, PTL DEF Spec
-----------------------------------------------------------------------------
(* Sums over finite sets: what FoldSet computes.                            *)

OneOf(s) == CHOOSE x \in s : TRUE
Sum(f, S) == FoldSet(LAMBDA u, n : n + f[u], 0, S)

\* g has the sums over the sets of D, as FoldSet takes them apart.
SumAt(f, g, s) == IF s = {} THEN 0 ELSE g[s \ {OneOf(s)}] + f[OneOf(s)]
Sums(f, D, g) == g = [s \in D |-> SumAt(f, g, s)]

LEMMA SumIs ==
  ASSUME NEW f, NEW S
  PROVE  Sum(f, S) = (CHOOSE g : Sums(f, SUBSET S, g))[S]
BY DEF Sum, FoldSet, MapThenFoldSet, Sums, SumAt, OneOf

\* A set of naturals with an element has a least one.
LEMMA Least ==
  ASSUME NEW T \in SUBSET Nat, T # {}
  PROVE  \E n \in T : \A m \in T : n <= m
<1> DEFINE Less == {p \in Nat \X Nat : p[1] < p[2]}
<1>1. IsWellFoundedOn(Less, Nat) BY NatLessThanWellFounded DEF OpToRel
<1> HIDE DEF Less
<1>2. PICK n \in T : \A m \in T : ~(<<m, n>> \in Less) BY <1>1, WFMin
<1>3. \A m \in T : ~(m < n) BY <1>2 DEF Less
<1> QED BY <1>3

\* The subsets of M with at most n elements.
Small(M, n) == {s \in SUBSET M : Cardinality(s) <= n}

LEMMA OneOfIn == ASSUME NEW s, s # {} PROVE OneOf(s) \in s
BY DEF OneOf

LEMMA SmallerSet ==
  ASSUME NEW M, IsFiniteSet(M), NEW s \in SUBSET M, NEW x \in s
  PROVE  /\ IsFiniteSet(s) /\ Cardinality(s) \in Nat \ {0}
         /\ s \ {x} \in SUBSET M /\ Cardinality(s \ {x}) = Cardinality(s) - 1
<1>1. IsFiniteSet(s) BY FS_Subset
<1>2. Cardinality(s) \in Nat BY <1>1, FS_CardinalityType
<1>3. Cardinality(s \ {x}) = Cardinality(s) - 1 /\ IsFiniteSet(s \ {x})
  BY <1>1, FS_RemoveElement
<1>4. Cardinality(s \ {x}) \in Nat BY <1>3, FS_CardinalityType
<1> QED BY <1>1, <1>2, <1>3, <1>4

\* The sums over the sets of at most n elements exist, whatever n.
LEMMA SmallSums ==
  ASSUME NEW M, IsFiniteSet(M), NEW f
  PROVE  \A n \in Nat : \E g : Sums(f, Small(M, n), g)
<1> DEFINE Bad == {n \in Nat : ~\E g : Sums(f, Small(M, n), g)}
<1>1. ASSUME Bad # {} PROVE FALSE
  <2>1. PICK n \in Bad : \A m \in Bad : n <= m BY <1>1, Least
  <2>2. CASE n = 0
    <3> DEFINE g == [s \in Small(M, 0) |-> 0]
    <3>1. ASSUME NEW s \in Small(M, 0) PROVE s = {}
      <4>1. ASSUME s # {} PROVE FALSE
        <5>1. PICK x \in s : TRUE BY <4>1
        <5>2. Cardinality(s) \in Nat \ {0} BY <5>1, SmallerSet DEF Small
        <5> QED BY <5>2 DEF Small
      <4> QED BY <4>1
    <3>2. \A s \in Small(M, 0) : SumAt(f, g, s) = 0 BY <3>1 DEF SumAt
    <3>3. Sums(f, Small(M, 0), g) BY <3>2 DEF Sums
    <3> QED BY <2>1, <2>2, <3>3
  <2>3. CASE n # 0
    <3>1. n - 1 \in Nat /\ n - 1 \notin Bad BY <2>1, <2>3
    <3>2. PICK g : Sums(f, Small(M, n - 1), g) BY <3>1
    <3> DEFINE h == [s \in Small(M, n) |-> SumAt(f, g, s)]
    <3>3. \A s \in Small(M, n) : s # {} => s \ {OneOf(s)} \in Small(M, n - 1)
      <4> SUFFICES ASSUME NEW s \in Small(M, n), s # {} PROVE s \ {OneOf(s)} \in Small(M, n - 1)
        OBVIOUS
      <4>1. OneOf(s) \in s BY OneOfIn
      <4>2. s \in SUBSET M /\ Cardinality(s) <= n BY DEF Small
      <4>3. Cardinality(s) \in Nat \ {0} /\ s \ {OneOf(s)} \in SUBSET M
            /\ Cardinality(s \ {OneOf(s)}) = Cardinality(s) - 1
        BY <4>1, <4>2, SmallerSet
      <4> QED BY <4>2, <4>3, <2>1 DEF Small
    <3>4. \A s \in Small(M, n - 1) : s \in Small(M, n)
      <4> SUFFICES ASSUME NEW s \in Small(M, n - 1) PROVE Cardinality(s) <= n BY DEF Small
      <4>1. IsFiniteSet(s) BY FS_Subset DEF Small
      <4>2. Cardinality(s) \in Nat BY <4>1, FS_CardinalityType
      <4> QED BY <2>1, <4>2 DEF Small
    <3>5. \A s \in Small(M, n - 1) : h[s] = g[s] BY <3>2, <3>4 DEF Sums
    <3>6. \A s \in Small(M, n) : SumAt(f, h, s) = SumAt(f, g, s)
      <4> SUFFICES ASSUME NEW s \in Small(M, n) PROVE SumAt(f, h, s) = SumAt(f, g, s)
        OBVIOUS
      <4> HIDE DEF h
      <4>1. s # {} => h[s \ {OneOf(s)}] = g[s \ {OneOf(s)}] BY <3>3, <3>5
      <4> QED BY <4>1 DEF SumAt
    <3>7. h = [s \in Small(M, n) |-> SumAt(f, h, s)] BY <3>6
    <3>8. Sums(f, Small(M, n), h) BY <3>7 DEF Sums
    <3> QED BY <2>1, <3>8
  <2> QED BY <2>2, <2>3
<1> QED BY <1>1

\* Two functions with the sums are the same on the sets they share.
LEMMA SameSums ==
  ASSUME NEW M, IsFiniteSet(M), NEW N, IsFiniteSet(N), NEW f, NEW g, NEW h,
         Sums(f, SUBSET M, g), Sums(f, SUBSET N, h), NEW s, s \subseteq M, s \subseteq N
  PROVE  g[s] = h[s]
<1> DEFINE Bad == {n \in Nat : \E t : /\ t \subseteq M /\ t \subseteq N
                                       /\ Cardinality(t) = n /\ g[t] # h[t]}
<1>1. ASSUME Bad # {} PROVE FALSE
  <2>1. PICK n \in Bad : \A m \in Bad : n <= m BY <1>1, Least
  <2>2. PICK t : t \subseteq M /\ t \subseteq N /\ Cardinality(t) = n /\ g[t] # h[t]
    BY <2>1
  <2>3. g[t] = SumAt(f, g, t) /\ h[t] = SumAt(f, h, t) BY <2>2 DEF Sums
  <2>4. t # {} BY <2>2, <2>3 DEF SumAt
  <2>5. PICK x \in t : x = OneOf(t) BY <2>4, OneOfIn
  <2>6. PICK u : u = t \ {x} OBVIOUS
  <2>7. Cardinality(u) = n - 1 /\ n - 1 \in Nat
    <3>1. Cardinality(t) \in Nat \ {0} /\ Cardinality(t \ {x}) = Cardinality(t) - 1
      BY <2>2, SmallerSet
    <3> QED BY <2>2, <2>6, <3>1
  <2>8. n - 1 \notin Bad BY <2>1, <2>7
  <2>9. u \subseteq M /\ u \subseteq N BY <2>2, <2>6
  <2>10. g[u] = h[u] BY <2>7, <2>8, <2>9
  <2> QED BY <2>2, <2>3, <2>4, <2>5, <2>6, <2>10 DEF SumAt
<1>2. Cardinality(s) \in Nat BY FS_Subset, FS_CardinalityType
<1> QED BY <1>1, <1>2

\* FoldSet computes the sum, element by element.
LEMMA SumAtSet ==
  ASSUME NEW S, IsFiniteSet(S), NEW f
  PROVE  Sum(f, S) = IF S = {} THEN 0 ELSE Sum(f, S \ {OneOf(S)}) + f[OneOf(S)]
<1>1. \A T : IsFiniteSet(T) => \E g : Sums(f, SUBSET T, g)
  <2> SUFFICES ASSUME NEW T, IsFiniteSet(T) PROVE \E g : Sums(f, SUBSET T, g) OBVIOUS
  <2>1. Cardinality(T) \in Nat BY FS_CardinalityType
  <2>2. PICK n \in Nat : n = Cardinality(T) BY <2>1
  <2>3. PICK D : D = SUBSET T OBVIOUS
  <2>4. D = Small(T, n) BY <2>2, <2>3, FS_Subset DEF Small
  <2>5. \E g : Sums(f, D, g) BY <2>4, SmallSums
  <2> QED BY <2>3, <2>5
<1>2. \A T : IsFiniteSet(T) => /\ Sums(f, SUBSET T, CHOOSE g : Sums(f, SUBSET T, g))
                              /\ Sum(f, T) = (CHOOSE g : Sums(f, SUBSET T, g))[T]
  BY <1>1, SumIs
<1>3. PICK g : Sums(f, SUBSET S, g) /\ Sum(f, S) = g[S] BY <1>2
<1>4. Sum(f, S) = SumAt(f, g, S) BY <1>3 DEF Sums
<1>5. ASSUME S # {} PROVE g[S \ {OneOf(S)}] = Sum(f, S \ {OneOf(S)})
  <2>1. PICK T : T = S \ {OneOf(S)} OBVIOUS
  <2>2. IsFiniteSet(T) /\ T \subseteq S BY <2>1, FS_Subset
  <2>3. PICK h : Sums(f, SUBSET T, h) /\ Sum(f, T) = h[T] BY <1>2, <2>2
  <2>4. g[T] = h[T] BY <1>3, <2>2, <2>3, SameSums
  <2> QED BY <2>1, <2>3, <2>4
<1> QED BY <1>4, <1>5 DEF SumAt

\* In which order does not matter, as long as what is added up are naturals.
LEMMA SumOut ==
  ASSUME NEW M, IsFiniteSet(M), NEW f \in [M -> Nat]
  PROVE  \A S \in SUBSET M : /\ Sum(f, S) \in Nat
                              /\ \A x \in S : Sum(f, S) = Sum(f, S \ {x}) + f[x]
<1> DEFINE Fine(S) == /\ Sum(f, S) \in Nat
                      /\ \A x \in S : Sum(f, S) = Sum(f, S \ {x}) + f[x]
           Bad == {n \in Nat : \E S \in SUBSET M : Cardinality(S) = n /\ ~Fine(S)}
<1>1. ASSUME Bad # {} PROVE FALSE
  <2>1. PICK n \in Bad : \A m \in Bad : n <= m BY <1>1, Least
  <2>2. PICK S \in SUBSET M : Cardinality(S) = n /\ ~Fine(S) BY <2>1
  <2>3. \A x \in S : /\ S \ {x} \in SUBSET M /\ Cardinality(S \ {x}) = n - 1
                     /\ n - 1 \in Nat /\ Fine(S \ {x})
    <3> SUFFICES ASSUME NEW x \in S
                 PROVE  /\ S \ {x} \in SUBSET M /\ Cardinality(S \ {x}) = n - 1
                        /\ n - 1 \in Nat /\ Fine(S \ {x})
      OBVIOUS
    <3>1. /\ Cardinality(S) \in Nat \ {0} /\ S \ {x} \in SUBSET M
          /\ Cardinality(S \ {x}) = Cardinality(S) - 1
      BY SmallerSet
    <3>2. n - 1 \in Nat /\ n - 1 \notin Bad BY <2>1, <2>2, <3>1
    <3> HIDE DEF Fine
    <3> QED BY <2>2, <3>1, <3>2
  <2>4. IsFiniteSet(S) BY FS_Subset
  <2>5. S # {}
    <3>1. S = {} => Sum(f, S) = 0 BY <2>4, SumAtSet
    <3> QED BY <2>2, <3>1
  <2>6. PICK y \in S : y = OneOf(S) BY <2>5, OneOfIn
  <2>7. Sum(f, S) = Sum(f, S \ {y}) + f[y] BY <2>4, <2>5, <2>6, SumAtSet
  <2>8. Sum(f, S \ {y}) \in Nat /\ f[y] \in Nat BY <2>3
  <2>9. ASSUME NEW x \in S PROVE Sum(f, S) = Sum(f, S \ {x}) + f[x]
    <3>1. CASE x = y BY <2>7, <3>1
    <3>2. CASE x # y
      <4>1. Sum(f, S \ {y}) = Sum(f, (S \ {y}) \ {x}) + f[x] BY <2>3, <3>2
      <4>2. Sum(f, S \ {x}) = Sum(f, (S \ {x}) \ {y}) + f[y] BY <2>3, <3>2
      <4>3. (S \ {y}) \ {x} = (S \ {x}) \ {y} OBVIOUS
      <4>4. Sum(f, (S \ {x}) \ {y}) \in Nat
        <5>1. Sum(f, (S \ {x}) \ {y}) = Sum(f, (S \ {y}) \ {x}) BY <4>3
        <5>2. PICK T : T = S \ {x} OBVIOUS
        <5>3. Cardinality(T \ {y}) = Cardinality(T) - 1 /\ T \ {y} \in SUBSET M
              /\ Cardinality(T) = n - 1 /\ Cardinality(T) \in Nat \ {0}
          <6>1. T \in SUBSET M /\ Cardinality(T) = n - 1 /\ y \in T BY <2>3, <3>2, <5>2
          <6> QED BY <6>1, SmallerSet
        <5>4. n - 2 \in Nat /\ n - 2 \notin Bad BY <2>1, <5>3
        <5>5. Fine(T \ {y})
          <6> HIDE DEF Fine
          <6> QED BY <5>3, <5>4
        <5> QED BY <5>2, <5>5
      <4>5. f[x] \in Nat /\ f[y] \in Nat OBVIOUS
      <4>6. PICK T : T = (S \ {x}) \ {y} OBVIOUS
      <4>7. /\ Sum(f, S) = (Sum(f, T) + f[x]) + f[y]
            /\ Sum(f, S \ {x}) = Sum(f, T) + f[y] /\ Sum(f, T) \in Nat
        <5>1. (S \ {y}) \ {x} = T BY <4>6
        <5> QED BY <2>7, <4>1, <4>2, <4>4, <4>6, <5>1
      <4> QED BY <4>5, <4>7
    <3> QED BY <3>1, <3>2
  <2>10. Sum(f, S) \in Nat BY <2>7, <2>8
  <2> QED BY <2>2, <2>9, <2>10
<1>2. \A S \in SUBSET M : Cardinality(S) \in Nat BY FS_Subset, FS_CardinalityType
<1> HIDE DEF Fine
<1>3. \A S \in SUBSET M : Fine(S) BY <1>1, <1>2
<1> QED BY <1>3 DEF Fine
-----------------------------------------------------------------------------
(* The daily quota.                                                         *)

\* P[t] is what was sent before tick t.
Before(f, P) ==
  /\ P \in [0..(MaxNow + 1) -> Nat] /\ P[0] = 0
  /\ \A u \in 0..MaxNow : P[u + 1] = P[u] + f[u]

LEMMA Clock ==
  /\ MaxNow \in Nat /\ Day \in Nat \ {0} /\ MaxPerDay \in Nat \ {0} /\ MaxNow >= Day - 1
  /\ 0..MaxNow \in SUBSET Nat /\ IsFiniteSet(0..MaxNow)
<1>1. /\ MaxNow \in Nat /\ Day \in Nat \ {0} /\ MaxPerDay \in Nat \ {0} /\ MaxNow >= Day - 1
  BY BoundsAssumption
<1>2. \A a, b \in Int : IsFiniteSet(a..b) BY FS_Interval
<1>3. IsFiniteSet(0..MaxNow) BY <1>1, <1>2
<1> QED BY <1>1, <1>3

LEMMA BeforeAt ==
  ASSUME NEW f \in [0..MaxNow -> Nat], NEW P, Before(f, P)
  PROVE  /\ \A u \in 0..(MaxNow + 1) : P[u] \in Nat
         /\ \A u \in 1..(MaxNow + 1) :
              f[u - 1] \in Nat /\ P[u - 1] \in Nat /\ P[u] = P[u - 1] + f[u - 1]
<1>1. \A u \in 0..(MaxNow + 1) : P[u] \in Nat BY DEF Before
<1>2. ASSUME NEW u \in 1..(MaxNow + 1)
      PROVE  f[u - 1] \in Nat /\ P[u - 1] \in Nat /\ P[u] = P[u - 1] + f[u - 1]
  <2>1. PICK t : t = u - 1 OBVIOUS
  <2>2. t \in 0..MaxNow /\ t \in 0..(MaxNow + 1) /\ t + 1 = u BY <2>1, Clock
  <2>3. P[t + 1] = P[t] + f[t] BY <2>2 DEF Before
  <2> QED BY <1>1, <2>1, <2>2, <2>3
<1> QED BY <1>1, <1>2

LEMMA SumBetween ==
  ASSUME NEW f \in [0..MaxNow -> Nat], NEW P, Before(f, P), NEW a \in 0..(MaxNow + 1)
  PROVE  \A b \in a..(MaxNow + 1) : Sum(f, a..(b - 1)) = P[b] - P[a] /\ P[a] <= P[b]
<1> DEFINE Fine(b) == Sum(f, a..(b - 1)) = P[b] - P[a] /\ P[a] <= P[b]
           Bad == {b \in a..(MaxNow + 1) : ~Fine(b)}
<1>1. MaxNow \in Nat BY Clock
<1>2. PICK M : M = 0..MaxNow OBVIOUS
<1>3. IsFiniteSet(M) /\ f \in [M -> Nat] BY <1>2, Clock
<1>4. ASSUME Bad # {} PROVE FALSE
  <2>1. PICK b \in Bad : \A m \in Bad : b <= m
    <3>1. Bad \in SUBSET Nat BY <1>1
    <3> QED BY <1>4, <3>1, Least
  <2>2. b \in a..(MaxNow + 1) /\ ~Fine(b) OBVIOUS
  <2>3. P[a] \in Nat BY BeforeAt
  <2>4. CASE b = a
    <3>1. PICK E : E = a..(b - 1) OBVIOUS
    <3>2. E = {} BY <2>4, <3>1
    <3>3. Sum(f, E) = 0 BY <3>2, FS_EmptySet, SumAtSet
    <3> QED BY <2>2, <2>3, <2>4, <3>1, <3>3
  <2>5. CASE b # a
    <3>1. PICK c : c = b - 1 OBVIOUS
    <3>2. c \in a..(MaxNow + 1) /\ c \in 0..MaxNow /\ b \in 1..(MaxNow + 1)
          /\ c < b /\ c \in Nat /\ b \in Nat
      BY <1>1, <2>2, <2>5, <3>1
    <3>3. Fine(c) BY <2>1, <3>2
    <3>4. PICK S : S = a..c OBVIOUS
    <3>5. PICK T : T = a..(c - 1) OBVIOUS
    <3>6. S \in SUBSET M /\ c \in S /\ S \ {c} = T BY <1>1, <1>2, <3>2, <3>4, <3>5
    <3>7. Sum(f, S) = Sum(f, T) + f[c] BY <1>3, <3>6, SumOut
    <3>8. f[c] \in Nat /\ P[c] \in Nat /\ P[b] = P[c] + f[c] BY <3>1, <3>2, BeforeAt
    <3>9. Sum(f, T) = P[c] - P[a] /\ P[a] <= P[c] BY <3>3, <3>5
    <3>10. Sum(f, S) = P[b] - P[a] /\ P[a] <= P[b] BY <2>3, <3>7, <3>8, <3>9
    <3> QED BY <2>2, <3>1, <3>4, <3>10
  <2> QED BY <2>4, <2>5
<1> QED BY <1>4

LEMMA Rising ==
  ASSUME NEW f \in [0..MaxNow -> Nat], NEW P, Before(f, P),
         NEW a \in 0..(MaxNow + 1), NEW b \in 0..(MaxNow + 1), a <= b
  PROVE  P[a] \in Nat /\ P[b] \in Nat /\ P[a] <= P[b]
<1>1. b \in a..(MaxNow + 1) BY Clock
<1>2. P[a] <= P[b] BY <1>1, SumBetween
<1> QED BY <1>2, BeforeAt

\* Nothing is sent from a on: what was sent before a is all.
LEMMA Flat ==
  ASSUME NEW f \in [0..MaxNow -> Nat], NEW P, Before(f, P), NEW a \in 0..(MaxNow + 1),
         \A u \in 0..MaxNow : u >= a => f[u] = 0
  PROVE  P[MaxNow + 1] = P[a]
<1> DEFINE Bad == {b \in a..(MaxNow + 1) : P[b] # P[a]}
<1>1. ASSUME Bad # {} PROVE FALSE
  <2>1. PICK b \in Bad : \A m \in Bad : b <= m
    <3>1. Bad \in SUBSET Nat BY Clock
    <3> QED BY <1>1, <3>1, Least
  <2>2. PICK c : c = b - 1 OBVIOUS
  <2>3. b # a /\ b \in a..(MaxNow + 1) OBVIOUS
  <2>4. c \in a..(MaxNow + 1) /\ c \in 0..MaxNow /\ b \in 1..(MaxNow + 1) /\ c < b /\ c >= a
    BY <2>2, <2>3, Clock
  <2>5. P[c] = P[a] BY <2>1, <2>4
  <2>6. P[b] = P[c] + f[c] /\ P[c] \in Nat BY <2>2, <2>4, BeforeAt
  <2>7. f[c] = 0 BY <2>4
  <2>8. P[b] = P[a] BY <2>5, <2>6, <2>7
  <2> QED BY <2>8
<1>2. MaxNow + 1 \in a..(MaxNow + 1) BY Clock
<1> QED BY <1>1, <1>2

\* One more at tick n.
More(P, n) == [u \in 0..(MaxNow + 1) |-> IF u > n THEN P[u] + 1 ELSE P[u]]

LEMMA OneMore ==
  ASSUME NEW f \in [0..MaxNow -> Nat], NEW P, Before(f, P), NEW n \in 0..MaxNow,
         NEW g, g = [f EXCEPT ![n] = @ + 1]
  PROVE  /\ Before(g, More(P, n))
         /\ \A u \in 0..(MaxNow + 1) :
              (u <= n => More(P, n)[u] = P[u]) /\ (u > n => More(P, n)[u] = P[u] + 1)
<1> DEFINE N == More(P, n)
<1>1. \A u \in 0..(MaxNow + 1) : P[u] \in Nat BY BeforeAt
<1>2. \A u \in 0..(MaxNow + 1) : (u <= n => N[u] = P[u]) /\ (u > n => N[u] = P[u] + 1)
  BY Clock DEF More
<1>3. N \in [0..(MaxNow + 1) -> Nat] BY <1>1 DEF More
<1>4. P[0] = 0 BY DEF Before
<1> HIDE DEF N
<1>5. N[0] = 0
  <2>1. 0 \in 0..(MaxNow + 1) /\ 0 <= n BY Clock
  <2> QED BY <1>2, <1>4, <2>1
<1>6. ASSUME NEW u \in 0..MaxNow PROVE N[u + 1] = N[u] + g[u]
  <2>1. PICK t : t = u + 1 OBVIOUS
  <2>2. t \in 1..(MaxNow + 1) /\ t \in 0..(MaxNow + 1) /\ u \in 0..(MaxNow + 1) /\ t - 1 = u
    BY <2>1, Clock
  <2>3. f[u] \in Nat /\ P[u] \in Nat /\ P[t] = P[u] + f[u] BY <2>2, BeforeAt
  <2>4. g[u] = IF u = n THEN f[u] + 1 ELSE f[u] OBVIOUS
  <2>5. (u <= n => N[u] = P[u]) /\ (u > n => N[u] = P[u] + 1)
        /\ (t <= n => N[t] = P[t]) /\ (t > n => N[t] = P[t] + 1)
    BY <1>2, <2>2
  <2>6. N[t] = N[u] + g[u]
    <3>1. u \in Nat /\ n \in Nat BY Clock
    <3> QED BY <2>1, <2>3, <2>4, <2>5, <3>1
  <2> QED BY <2>1, <2>6
<1>7. Before(g, N) BY <1>3, <1>5, <1>6 DEF Before
<1> QED BY <1>2, <1>7 DEF N

\* The first tick that is not within a day of t.
DayAfter(t) == IF t + Day <= MaxNow + 1 THEN t + Day ELSE MaxNow + 1

\* What the window q counts is all that was sent since it opened, all of it within
\* a day; what was sent in the day before it opened fits into one quota, as does
\* what it counts.
Counted(f, q, P) ==
  /\ Before(f, P)
  /\ P[MaxNow + 1] - P[q.window] <= q.count
  /\ \A u \in 0..MaxNow : u >= q.window + Day => f[u] = 0
  /\ \A t \in 0..MaxNow : t <= q.window /\ t + Day > q.window => P[q.window] - P[t] <= MaxPerDay
  /\ \A t \in 0..MaxNow : P[DayAfter(t)] - P[t] <= 2 * MaxPerDay
QuotaInv == quota.window <= now /\ \E P : Counted(sent, quota, P)

LEMMA DayAfterIs ==
  ASSUME NEW t \in 0..MaxNow
  PROVE  DayAfter(t) \in 0..(MaxNow + 1) /\ t <= DayAfter(t) /\ DayAfter(t) <= t + Day
BY Clock DEF DayAfter

LEMMA QuotaInit == Init => QuotaInv
<1> SUFFICES ASSUME Init PROVE QuotaInv OBVIOUS
<1>1. PICK n \in {0, MaxPerDay} :
        /\ quota = [window |-> 0, count |-> n]
        /\ sent = [t \in 0..MaxNow |-> IF t = Day - 1 THEN n ELSE 0]
  BY DEF Init
<1>2. n \in Nat /\ n <= MaxPerDay /\ now = Day - 1 BY Clock DEF Init
<1> DEFINE P == [u \in 0..(MaxNow + 1) |-> IF u > Day - 1 THEN n ELSE 0]
<1>3. Before(sent, P)
  <2>1. P \in [0..(MaxNow + 1) -> Nat] BY <1>2
  <2>2. P[0] = 0 BY Clock
  <2>3. ASSUME NEW u \in 0..MaxNow PROVE P[u + 1] = P[u] + sent[u]
    <3>1. u \in 0..(MaxNow + 1) /\ u + 1 \in 0..(MaxNow + 1) /\ u \in Nat BY Clock
    <3>2. P[u + 1] = (IF u + 1 > Day - 1 THEN n ELSE 0)
          /\ P[u] = (IF u > Day - 1 THEN n ELSE 0)
      BY <3>1
    <3>3. sent[u] = IF u = Day - 1 THEN n ELSE 0 BY <1>1
    <3> HIDE DEF P
    <3> QED BY <1>2, <3>1, <3>2, <3>3, Clock
  <2> QED BY <2>1, <2>2, <2>3 DEF Before
<1>4. \A u \in 0..(MaxNow + 1) : P[u] \in Nat /\ P[u] <= n BY <1>2
<1>5. P[0] = 0 BY Clock
<1> HIDE DEF P
<1>6. quota.window = 0 /\ quota.count = n BY <1>1
<1>7. P[MaxNow + 1] - P[0] <= n
  <2>1. MaxNow + 1 \in 0..(MaxNow + 1) BY Clock
  <2>2. P[MaxNow + 1] \in Nat /\ P[MaxNow + 1] <= n BY <1>4, <2>1
  <2> QED BY <1>2, <1>5, <2>2
<1>8. ASSUME NEW t \in 0..MaxNow PROVE P[DayAfter(t)] - P[t] <= 2 * MaxPerDay
  <2>1. PICK e : e = DayAfter(t) OBVIOUS
  <2>2. e \in 0..(MaxNow + 1) /\ t \in 0..(MaxNow + 1) BY <2>1, Clock, DayAfterIs
  <2>3. P[e] \in Nat /\ P[e] <= n /\ P[t] \in Nat BY <1>4, <2>2
  <2>4. P[e] - P[t] <= 2 * MaxPerDay BY <1>2, <2>3, Clock
  <2> QED BY <2>1, <2>4
<1>9. \A u \in 0..MaxNow : u >= Day => sent[u] = 0 BY <1>1, Clock
<1>10. ASSUME NEW t \in 0..MaxNow, t <= 0 PROVE P[0] - P[t] <= MaxPerDay
  <2>1. t = 0 BY <1>10, Clock
  <2> QED BY <1>5, <2>1, Clock
<1>11. Counted(sent, quota, P) BY <1>3, <1>6, <1>7, <1>8, <1>9, <1>10, Clock DEF Counted
<1>12. quota.window <= now BY <1>2, <1>6, Clock
<1> QED BY <1>11, <1>12 DEF QuotaInv

\* A window that has ended: the message opens the next one.
LEMMA NextWindow ==
  ASSUME NEW f \in [0..MaxNow -> Nat], NEW q \in [window : 0..MaxNow, count : 0..MaxPerDay],
         NEW P, Counted(f, q, P), NEW n \in 0..MaxNow, n - q.window >= Day,
         NEW N,
         \A u \in 0..(MaxNow + 1) : (u <= n => N[u] = P[u]) /\ (u > n => N[u] = P[u] + 1)
  PROVE  /\ N[MaxNow + 1] - N[n] <= 1
         /\ \A t \in 0..MaxNow : t <= n /\ t + Day > n => N[n] - N[t] <= MaxPerDay
<1>1. PICK v, c : v = q.window /\ c = q.count OBVIOUS
<1>2. v \in 0..MaxNow /\ c \in 0..MaxPerDay BY <1>1
<1>3. PICK m : m = MaxNow + 1 OBVIOUS
<1>4. /\ Before(f, P) /\ P[m] - P[v] <= c
      /\ \A u \in 0..MaxNow : u >= v + Day => f[u] = 0
  BY <1>1, <1>3 DEF Counted
<1>5. /\ m \in 0..(MaxNow + 1) /\ n \in 0..(MaxNow + 1) /\ v \in 0..(MaxNow + 1)
      /\ m > n /\ v <= n /\ n <= m /\ n - v >= Day
  BY <1>1, <1>2, <1>3, Clock
<1>6. P[m] = P[n]
  <2>1. \A u \in 0..MaxNow : u >= n => f[u] = 0 BY <1>2, <1>4, <1>5, Clock
  <2> QED BY <1>3, <1>4, <1>5, <2>1, Flat
<1>7. P[n] \in Nat /\ N[m] = P[m] + 1 /\ N[n] = P[n] BY <1>4, <1>5, BeforeAt
<1>8. ASSUME NEW t \in 0..MaxNow, t <= n, t + Day > n PROVE N[n] - N[t] <= MaxPerDay
  <2>1. t \in 0..(MaxNow + 1) /\ v <= t BY <1>2, <1>5, <1>8, Clock
  <2>2. N[t] = P[t] BY <1>8, <2>1
  <2>3. P[v] \in Nat /\ P[t] \in Nat /\ P[v] <= P[t] BY <1>4, <1>5, <2>1, Rising
  <2>4. P[n] - P[v] <= c /\ c <= MaxPerDay /\ c \in Nat BY <1>2, <1>4, <1>6, Clock
  <2>5. P[n] - P[t] <= MaxPerDay
    <3>1. PICK i \in Nat, j \in Nat, h \in Nat, k \in Nat :
            i = P[n] /\ j = P[v] /\ h = P[t] /\ k = MaxPerDay
      BY <1>7, <2>3, Clock
    <3>2. i - j <= c /\ c <= k /\ c \in Nat /\ j <= h BY <2>3, <2>4, <3>1
    <3>3. i - h <= k BY <3>2
    <3> QED BY <3>1, <3>3
  <2> QED BY <1>7, <2>2, <2>5
<1> QED BY <1>3, <1>6, <1>7, <1>8

\* The window goes on.
LEMMA SameWindow ==
  ASSUME NEW f \in [0..MaxNow -> Nat], NEW q \in [window : 0..MaxNow, count : 0..MaxPerDay],
         NEW P, Counted(f, q, P), NEW n \in 0..MaxNow, n - q.window < Day, q.window <= n,
         NEW N,
         \A u \in 0..(MaxNow + 1) : (u <= n => N[u] = P[u]) /\ (u > n => N[u] = P[u] + 1)
  PROVE  /\ N[MaxNow + 1] - N[q.window] <= q.count + 1
         /\ \A t \in 0..MaxNow : t <= q.window /\ t + Day > q.window
                                   => N[q.window] - N[t] <= MaxPerDay
<1>1. PICK v, c : v = q.window /\ c = q.count OBVIOUS
<1>2. v \in 0..MaxNow /\ c \in 0..MaxPerDay BY <1>1
<1>3. PICK m : m = MaxNow + 1 OBVIOUS
<1>4. /\ Before(f, P) /\ P[m] - P[v] <= c
      /\ \A t \in 0..MaxNow : t <= v /\ t + Day > v => P[v] - P[t] <= MaxPerDay
  BY <1>1, <1>3 DEF Counted
<1>5. m \in 0..(MaxNow + 1) /\ v \in 0..(MaxNow + 1) /\ m > n /\ v <= n
  BY <1>1, <1>2, <1>3, Clock
<1>6. P[m] \in Nat /\ P[v] \in Nat /\ N[m] = P[m] + 1 /\ N[v] = P[v]
  BY <1>4, <1>5, BeforeAt
<1>7. N[m] - N[v] <= c + 1 BY <1>2, <1>4, <1>6
<1>8. ASSUME NEW t \in 0..MaxNow, t <= v, t + Day > v PROVE N[v] - N[t] <= MaxPerDay
  <2>1. t \in 0..(MaxNow + 1) /\ t <= n BY <1>2, <1>5, <1>8, Clock
  <2>2. N[t] = P[t] BY <2>1
  <2> QED BY <1>4, <1>6, <1>8, <2>2
<1> QED BY <1>1, <1>3, <1>7, <1>8

\* Either way no day sees more than two quotas.
LEMMA DayOf ==
  ASSUME NEW f \in [0..MaxNow -> Nat], NEW P, Before(f, P), NEW n \in 0..MaxNow,
         NEW N, NEW g \in [0..MaxNow -> Nat], Before(g, N),
         \A u \in 0..(MaxNow + 1) : (u <= n => N[u] = P[u]) /\ (u > n => N[u] = P[u] + 1),
         \A t \in 0..MaxNow : P[DayAfter(t)] - P[t] <= 2 * MaxPerDay,
         NEW x \in 0..MaxNow, x <= n, n - x < Day,
         N[MaxNow + 1] - N[x] <= MaxPerDay,
         \A t \in 0..MaxNow : t <= x /\ t + Day > x => N[x] - N[t] <= MaxPerDay
  PROVE  \A t \in 0..MaxNow : N[DayAfter(t)] - N[t] <= 2 * MaxPerDay
<1> SUFFICES ASSUME NEW t \in 0..MaxNow PROVE N[DayAfter(t)] - N[t] <= 2 * MaxPerDay
  OBVIOUS
<1>1. PICK e : e = DayAfter(t) OBVIOUS
<1>2. PICK m : m = MaxNow + 1 OBVIOUS
<1>3. /\ e \in 0..(MaxNow + 1) /\ t \in 0..(MaxNow + 1) /\ x \in 0..(MaxNow + 1)
      /\ m \in 0..(MaxNow + 1) /\ t <= e /\ e <= t + Day /\ e <= m
  BY <1>1, <1>2, Clock, DayAfterIs
<1>4. P[e] \in Nat /\ P[t] \in Nat /\ N[e] \in Nat /\ N[t] \in Nat /\ N[m] \in Nat
      /\ N[x] \in Nat
  BY <1>3, BeforeAt
<1>5. P[e] - P[t] <= 2 * MaxPerDay BY <1>1
<1>6. N[e] <= N[m] BY <1>3, Rising
<1>7. N[m] - N[x] <= MaxPerDay BY <1>2
<1>8. /\ (e <= n => N[e] = P[e]) /\ (e > n => N[e] = P[e] + 1)
      /\ (t <= n => N[t] = P[t]) /\ (t > n => N[t] = P[t] + 1)
  BY <1>3
<1>9. PICK k \in Nat, ne \in Nat, nt \in Nat, nm \in Nat, nx \in Nat,
           pe \in Nat, pt \in Nat :
        /\ k = MaxPerDay /\ ne = N[e] /\ nt = N[t] /\ nm = N[m] /\ nx = N[x]
        /\ pe = P[e] /\ pt = P[t]
  BY <1>4, Clock
<1>10. pe - pt <= 2 * k /\ ne <= nm /\ nm - nx <= k BY <1>5, <1>6, <1>7, <1>9
<1>11. x \in Nat /\ n \in Nat /\ t \in Nat /\ e \in Nat BY <1>3, Clock
<1>12. ne - nt <= 2 * k
  <2>1. CASE e <= n
    <3>1. t <= n BY <1>3, <1>11, <2>1
    <3>2. ne = pe /\ nt = pt BY <1>8, <1>9, <2>1, <3>1
    <3> QED BY <1>10, <3>2
  <2>2. CASE n < t
    <3>1. e > n BY <1>3, <1>11, <2>2
    <3>2. ne = pe + 1 /\ nt = pt + 1 BY <1>8, <1>9, <1>11, <2>2, <3>1
    <3> QED BY <1>10, <3>2
  <2>3. CASE t <= n /\ n < e /\ x <= t
    <3>1. nx <= nt BY <1>3, <1>9, <2>3, Rising
    <3> QED BY <1>10, <3>1
  <2>4. CASE t <= n /\ n < e /\ t < x
    <3>1. t <= x /\ t + Day > x BY <1>3, <1>11, <2>4, Clock
    <3>2. nx - nt <= k BY <1>9, <3>1
    <3> QED BY <1>10, <3>2
  <2> QED BY <1>11, <2>1, <2>2, <2>3, <2>4
<1> QED BY <1>1, <1>9, <1>12

\* A message let through is counted, in the window or as the first of the next one.
LEMMA QuotaSend ==
  ASSUME TypeOK, QuotaInv, QuotaLeft, quota' = Allowed, sent' = [sent EXCEPT ![now] = @ + 1],
         now' = now
  PROVE  QuotaInv'
<1> DEFINE f == sent  g == [sent EXCEPT ![now] = @ + 1]  q == quota
<1>1. /\ now \in 0..MaxNow /\ f \in [0..MaxNow -> Nat]
      /\ q \in [window : 0..MaxNow, count : 0..MaxPerDay]
  BY DEF TypeOK
<1>2. g \in [0..MaxNow -> Nat] BY <1>1, Clock
<1>3. PICK P : Counted(f, q, P) BY DEF QuotaInv
<1>4. q.window <= now BY DEF QuotaInv
<1>5. Before(f, P) BY <1>3 DEF Counted
<1> HIDE DEF f, q, g
<1>6. PICK N : /\ Before(g, N)
               /\ \A u \in 0..(MaxNow + 1) :
                    (u <= now => N[u] = P[u]) /\ (u > now => N[u] = P[u] + 1)
  <2>1. PICK n \in 0..MaxNow : n = now BY <1>1
  <2>2. PICK h, i : h = f /\ i = g OBVIOUS
  <2>3. i = [h EXCEPT ![n] = @ + 1] BY <2>1, <2>2 DEF f, g
  <2>4. h \in [0..MaxNow -> Nat] /\ Before(h, P) BY <1>1, <1>5, <2>2
  <2>5. /\ Before(i, More(P, n))
        /\ \A u \in 0..(MaxNow + 1) :
             (u <= n => More(P, n)[u] = P[u]) /\ (u > n => More(P, n)[u] = P[u] + 1)
    BY <2>3, <2>4, OneMore
  <2>6. PICK N : N = More(P, n) OBVIOUS
  <2> QED BY <2>1, <2>2, <2>5, <2>6
<1>7. PICK r : r = Allowed OBVIOUS
<1>8. /\ r.window \in 0..MaxNow /\ r.window <= now /\ now - r.window < Day
      /\ r.count \in 0..MaxPerDay
      /\ N[MaxNow + 1] - N[r.window] <= r.count
      /\ \A t \in 0..MaxNow : t <= r.window /\ t + Day > r.window => N[r.window] - N[t] <= MaxPerDay
      /\ \A u \in 0..MaxNow : u >= r.window + Day => g[u] = 0
  <2>1. \A u \in 0..MaxNow : u # now => g[u] = f[u] BY <1>1 DEF f, g
  <2>3. \A u \in 0..MaxNow : u >= q.window + Day => f[u] = 0 BY <1>3 DEF Counted
  <2>4. q.window \in 0..MaxNow /\ q.count \in 0..MaxPerDay BY <1>1
  <2>5. PICK w : w = r.window OBVIOUS
  <2>6. CASE now - q.window >= Day
    <3>1. w = now /\ r.count = 1 BY <1>7, <2>5, <2>6 DEF Allowed, q
    <3>2. /\ N[MaxNow + 1] - N[now] <= 1
          /\ \A t \in 0..MaxNow : t <= now /\ t + Day > now => N[now] - N[t] <= MaxPerDay
      <4>1. PICK n \in 0..MaxNow : n = now BY <1>1
      <4>2. n - q.window >= Day BY <2>6, <4>1
      <4>3. \A u \in 0..(MaxNow + 1) : (u <= n => N[u] = P[u]) /\ (u > n => N[u] = P[u] + 1)
        BY <1>6, <4>1
      <4>4. /\ N[MaxNow + 1] - N[n] <= 1
            /\ \A t \in 0..MaxNow : t <= n /\ t + Day > n => N[n] - N[t] <= MaxPerDay
        BY <1>1, <1>3, <4>2, <4>3, NextWindow
      <4> QED BY <4>1, <4>4
    <3>3. \A u \in 0..MaxNow : u >= w + Day => g[u] = 0
      <4> SUFFICES ASSUME NEW u \in 0..MaxNow, u >= w + Day PROVE g[u] = 0 OBVIOUS
      <4>1. u # now /\ u >= q.window + Day BY <1>1, <2>4, <2>6, <3>1, Clock
      <4> QED BY <2>1, <2>3, <4>1
    <3>4. w \in 0..MaxNow /\ w <= now /\ now - w < Day /\ 1 \in 0..MaxPerDay
      BY <1>1, <3>1, Clock
    <3> QED BY <2>5, <3>1, <3>2, <3>3, <3>4
  <2>7. CASE ~(now - q.window >= Day)
    <3>1. q.count < MaxPerDay BY <2>7 DEF QuotaLeft, q
    <3>2. w = q.window /\ r.count = q.count + 1
      <4>1. r = [q EXCEPT !.count = @ + 1] BY <1>7, <2>7 DEF Allowed, q
      <4> QED BY <1>1, <2>5, <4>1
    <3>3. now - q.window < Day BY <1>1, <2>4, <2>7, Clock
    <3>4. /\ N[MaxNow + 1] - N[q.window] <= q.count + 1
          /\ \A t \in 0..MaxNow : t <= q.window /\ t + Day > q.window
                                    => N[q.window] - N[t] <= MaxPerDay
      <4>1. PICK n \in 0..MaxNow : n = now BY <1>1
      <4>2. PICK h, k : h = f /\ k = q OBVIOUS
      <4>3. n - k.window < Day /\ k.window <= n /\ Counted(h, k, P)
            /\ h \in [0..MaxNow -> Nat] /\ k \in [window : 0..MaxNow, count : 0..MaxPerDay]
        BY <1>1, <1>3, <1>4, <3>3, <4>1, <4>2
      <4>4. \A u \in 0..(MaxNow + 1) : (u <= n => N[u] = P[u]) /\ (u > n => N[u] = P[u] + 1)
        BY <1>6, <4>1
      <4>5. /\ N[MaxNow + 1] - N[k.window] <= k.count + 1
            /\ \A t \in 0..MaxNow : t <= k.window /\ t + Day > k.window
                                      => N[k.window] - N[t] <= MaxPerDay
        BY <4>3, <4>4, SameWindow
      <4> QED BY <4>2, <4>5
    <3>5. \A u \in 0..MaxNow : u >= w + Day => g[u] = 0
      <4> SUFFICES ASSUME NEW u \in 0..MaxNow, u >= w + Day PROVE g[u] = 0 OBVIOUS
      <4>1. u # now /\ u >= q.window + Day BY <1>1, <2>4, <3>2, <3>3, Clock
      <4> QED BY <2>1, <2>3, <4>1
    <3>6. w \in 0..MaxNow /\ w <= now /\ now - w < Day /\ q.count + 1 \in 0..MaxPerDay
      BY <1>1, <1>4, <2>4, <3>1, <3>2, <3>3, Clock
    <3> QED BY <2>5, <3>2, <3>4, <3>5, <3>6
  <2> QED BY <2>6, <2>7
<1>9. \A t \in 0..MaxNow : N[DayAfter(t)] - N[t] <= 2 * MaxPerDay
  <2>1. PICK n \in 0..MaxNow : n = now BY <1>1
  <2>2. PICK x \in 0..MaxNow : x = r.window BY <1>8
  <2>3. \A t \in 0..MaxNow : P[DayAfter(t)] - P[t] <= 2 * MaxPerDay BY <1>3 DEF Counted
  <2>4. \A u \in 0..(MaxNow + 1) : (u <= n => N[u] = P[u]) /\ (u > n => N[u] = P[u] + 1)
    BY <1>6, <2>1
  <2>5. x <= n /\ n - x < Day BY <1>8, <2>1, <2>2
  <2>6. N[MaxNow + 1] - N[x] <= MaxPerDay
    <3>1. PICK m : m = MaxNow + 1 OBVIOUS
    <3>2. m \in 0..(MaxNow + 1) /\ x \in 0..(MaxNow + 1) BY <3>1, Clock
    <3>3. N[m] \in Nat /\ N[x] \in Nat BY <1>2, <1>6, <3>2, BeforeAt
    <3>4. N[m] - N[x] <= r.count /\ r.count \in 0..MaxPerDay BY <1>8, <2>2, <3>1
    <3> QED BY <3>1, <3>3, <3>4, Clock
  <2>7. \A t \in 0..MaxNow : t <= x /\ t + Day > x => N[x] - N[t] <= MaxPerDay
    BY <1>8, <2>2
  <2> QED BY <1>1, <1>2, <1>5, <1>6, <2>3, <2>4, <2>5, <2>6, <2>7, DayOf
<1>10. Counted(g, r, N) BY <1>6, <1>8, <1>9 DEF Counted
<1>11. sent' = g /\ quota' = r BY <1>7 DEF g
<1> QED BY <1>8, <1>10, <1>11 DEF QuotaInv

\* Everybody else leaves both alone, and the clock goes forward.
LEMMA QuotaStill ==
  ASSUME TypeOK, QuotaInv, UNCHANGED <<quota, sent>>, now' = now \/ now' = now + 1
  PROVE  QuotaInv'
<1>1. quota.window \in Nat /\ now \in Nat /\ quota.window <= now BY Clock DEF TypeOK, QuotaInv
<1>2. quota'.window <= now' BY <1>1
<1>3. \E P : Counted(sent', quota', P) BY DEF QuotaInv
<1> QED BY <1>2, <1>3 DEF QuotaInv

LEMMA QuotaNext == TypeOK /\ QuotaInv /\ [Next]_vars => QuotaInv'
<1> SUFFICES ASSUME TypeOK, QuotaInv, [Next]_vars PROVE QuotaInv' OBVIOUS
<1> DEFINE Stays == UNCHANGED <<quota, sent>> /\ (now' = now \/ now' = now + 1)
<1>1. ASSUME Tick \/ Poll \/ UNCHANGED vars PROVE Stays
  BY <1>1 DEF Tick, Poll, vars, counters
<1>2. ASSUME Others PROVE Stays
  BY <1>2 DEF Others, OtherMoves, OtherInvites, OtherCancels, OtherDeletes, OtherAnswers,
     OtherWrites, Told
<1>3. ASSUME NEW c \in Clients, PutStart(c) \/ DeleteStart(c) PROVE Stays
  BY <1>3 DEF PutStart, DeleteStart
<1>4. ASSUME NEW c \in Clients, CallFails(c) \/ NotFound(c) \/ Finish(c) PROVE Stays
  BY <1>4 DEF CallFails, NotFound, Finish, counters
<1>5. ASSUME NEW c \in Clients,
             Create(c) \/ Update(c) \/ Answer(c) \/ Drop(c) \/ Delete(c)
      PROVE  Stays
  <2>1. \A new, instead, due, seq : Wrote(c, new, instead, due, seq) => Stays
    BY DEF Wrote
  <2> HIDE DEF Stays
  <2>2. CASE Create(c)
    <3>1. CASE proton = None BY <2>1, <2>2, <3>1 DEF Create
    <3>2. CASE proton # None
      <4>1. UNCHANGED <<quota, sent, counters>> BY <2>2, <3>2 DEF Create
      <4> QED BY <4>1 DEF Stays, counters
    <3> QED BY <3>1, <3>2
  <2>3. CASE Update(c)
    <3>1. CASE req[c].plan BY <2>1, <2>3, <3>1 DEF Update
    <3>2. CASE ~req[c].plan BY <2>1, <2>3, <3>2 DEF Update
    <3> QED BY <3>1, <3>2
  <2>4. CASE Answer(c) BY <2>1, <2>4 DEF Answer
  <2>5. CASE Drop(c) BY <2>1, <2>5 DEF Drop
  <2>6. CASE Delete(c)
    <3>1. CASE req[c].row.org = Me BY <2>1, <2>6, <3>1 DEF Delete
    <3>2. CASE req[c].row.org # Me BY <2>1, <2>6, <3>2 DEF Delete
    <3> QED BY <3>1, <3>2
  <2> QED BY <1>5, <2>2, <2>3, <2>4, <2>5, <2>6
<1>6. ASSUME NEW c \in Clients, NEW p \in Recipients, Send(c, p) PROVE QuotaInv'
  <2>1. now' = now BY <1>6 DEF Send
  <2>2. CASE QuotaLeft
    <3>1. quota' = Allowed /\ sent' = [sent EXCEPT ![now] = @ + 1] BY <1>6, <2>2 DEF Send
    <3> QED BY <2>1, <2>2, <3>1, QuotaSend
  <2>3. CASE ~QuotaLeft
    <3>1. UNCHANGED <<quota, sent>> BY <1>6, <2>3 DEF Send
    <3> QED BY <2>1, <3>1, QuotaStill
  <2> QED BY <2>2, <2>3
<1>7. Stays => QuotaInv' BY QuotaStill
<1> HIDE DEF Stays
<1> QED BY <1>1, <1>2, <1>3, <1>4, <1>5, <1>6, <1>7 DEF Next, Handler

LEMMA QuotaUse == TypeOK /\ QuotaInv => QuotaBound
<1> SUFFICES ASSUME TypeOK, QuotaInv, NEW t \in 0..MaxNow
             PROVE  Sum(sent, {u \in t..(t + Day - 1) : u <= MaxNow}) <= 2 * MaxPerDay
  BY DEF QuotaBound, Sum
<1>1. PICK P : Counted(sent, quota, P) BY DEF QuotaInv
<1>2. sent \in [0..MaxNow -> Nat] BY DEF TypeOK
<1>3. PICK e : e = DayAfter(t) OBVIOUS
<1>4. PICK S : S = {u \in t..(t + Day - 1) : u <= MaxNow} OBVIOUS
<1>5. S = t..(e - 1) BY <1>3, <1>4, Clock DEF DayAfter
<1>6. t \in 0..(MaxNow + 1) /\ e \in t..(MaxNow + 1) BY <1>3, Clock, DayAfterIs
<1>7. Before(sent, P) /\ P[e] - P[t] <= 2 * MaxPerDay BY <1>1, <1>3 DEF Counted
<1>8. Sum(sent, t..(e - 1)) = P[e] - P[t] BY <1>2, <1>6, <1>7, SumBetween
<1> QED BY <1>4, <1>5, <1>7, <1>8

\* No 24 hours see more than twice maxInvitesPerDay messages let through, whatever
\* the instances of the constants: inviteRateLimiter.allow counts by windows, and
\* two of them can meet within a day.
THEOREM TwiceAtMost == Spec => []QuotaBound
<1>1. InviteInv => TypeOK BY DEF InviteInv
<1>2. TypeOK' /\ QuotaInv' => QuotaBound' BY QuotaUse, PTL
<1> QED BY <1>1, InviteInvariant, QuotaInit, QuotaNext, QuotaUse, PTL DEF Spec
=============================================================================
