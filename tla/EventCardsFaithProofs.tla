----------------------- MODULE EventCardsFaithProofs -----------------------
(***************************************************************************)
(* Changes arrive whole: proof that Faithful is an invariant of EventCards *)
(* for ordinary rows and clients (Ordinary).                               *)
(*                                                                         *)
(* Describes(r, in, c) is the contract between the two halves of the       *)
(* gateway: the input in says, field by field, what change c makes of row  *)
(* r.  An update keeps it (UpdatedRight): patched with such an input, the  *)
(* row shows exactly Changed, whatever else is on its cards.  And what a   *)
(* client that was served the same row sends meets it (InputDescribes),    *)
(* through eventToVEvent and veventToInput.  The invariant carries the     *)
(* contract across the steps between the two: as long as nobody else's     *)
(* change is missing from the mirror, what is in hand describes the change *)
(* of the row that was fetched and, for the retry after a lost answer, of  *)
(* the row as it has become (UpdatedDescribes).                            *)
(***************************************************************************)
EXTENDS EventCardsProofs, FiniteSetTheorems

-----------------------------------------------------------------------------
(* The reference, field by field. *)

\* An event as all see it, by its fields.
Ev(start, form, rule, ex, organizer, seq, title, note, status, lines, rsvp, own, rings, x) ==
  [start |-> start, form |-> form, rule |-> rule, ex |-> ex, organizer |-> organizer,
   seq |-> seq, title |-> title, note |-> note, status |-> status, lines |-> lines,
   rsvp |-> rsvp, own |-> own, rings |-> rings, x |-> x]

\* What a change makes of every field.
StartAfter(e, c) == IF c.f = "move" THEN c.start ELSE e.start
FormOf(e, c) == IF c.f = "move" THEN FormAfter(e.form, c) ELSE e.form
RuleAfter(e, c) == CASE c.f = "once" -> FALSE [] c.f = "repeat" -> TRUE [] OTHER -> e.rule
ExAfter(e, c) == CASE c.f = "once" -> {} [] c.f = "repeat" -> c.ex [] OTHER -> e.ex
OrganizerAfter(e, c) == IF c.f = "guests" THEN c.guests # {} ELSE e.organizer
TitleAfter(e, c) == IF c.f = "title" THEN titleOrDefault(c.text) ELSE e.title
NoteAfter(e, c) == IF c.f = "note" THEN c.text ELSE e.note
StatusAfter(e, c) == IF c.f = "status" THEN StatusFor(c.text) ELSE e.status
LinesAfter(e, c) ==
  IF c.f = "guests"
  THEN [g \in Guests |-> IF g \in c.guests THEN (IF e.lines[g] = "none" THEN "own" ELSE e.lines[g])
                         ELSE "none"]
  ELSE e.lines
AnswersAfter(e, c) == IF c.f = "guests" THEN e.rsvp \cap c.guests ELSE e.rsvp
RingsAfter(e, c) ==
  CASE c.f = "move" -> RingsAt(e.rings, FormAfter(e.form, c))
    [] c.f = "alarms" -> UNION {Rings(a, e.form = "DATE") : a \in c.alarms}
    [] OTHER -> e.rings
OwnAfter(e, c) == IF c.f = "alarms" THEN e.own \/ RingsAfter(e, c) # {} ELSE e.own

-----------------------------------------------------------------------------
(* The inductive invariant. *)

\* What the gateway takes in says what change c makes of row r.
Describes(r, in, c) ==
  LET e == View(r)
      cur == decryptEvent(r)
  IN  /\ in.start = StartAfter(e, c)
      /\ in.day <=> FormOf(e, c) = "DATE"
      /\ FormOf(e, c) = IF BoundsMove(cur, in) THEN DateForm(writeTZ(in.tz, cur.tz), in.day) ELSE e.form
      /\ in.rule <=> RuleAfter(e, c)
      /\ ExAfter(e, c) = IF in.rule THEN {o[1] : o \in in.ex} ELSE {}
      /\ titleOrDefault(in.title) = TitleAfter(e, c)
      /\ in.note = NoteAfter(e, c)
      /\ statusOrDefault(in.status) = StatusAfter(e, c)
      /\ Meaning(in.alarms) = RingsAfter(e, c)
      /\ OwnAfter(e, c) <=> e.own \/ in.alarms # {}
      /\ GuestsChange(cur, in) => c.f = "guests" /\ in.guests = c.guests
      /\ c.f = "guests" /\ ~GuestsChange(cur, in) => c.guests = Listed(r.list.lines)
      /\ \A n \in in.alarms : Settled(n, in.day)

\* A mirror row that decrypts to what the row does.
Fresh(r, q) == decryptEvent(r) = decryptEvent(q)

\* A mirror nobody is known to be ahead of is fresh.
MirrorFresh == Exists(row) /\ unseen = {} => Exists(mirror) /\ Fresh(mirror, row)

\* What is in hand says, of the row it was fetched with, what the client asked.
HandDescribes ==
  /\ w.pc = "put" /\ ~w.blind => Describes(w.row, Input(w.base, w.c), w.c)
  /\ w.pc # "idle" => Sensible(eventToVEvent(decryptEvent(w.base)), w.c)

\* And of the row as it is now, which only the update itself may have changed: a
\* retry puts the same once more.
AgainDescribes ==
  w.pc # "idle" /\ ~w.blind /\ mirror = w.base /\ "theirs" \notin unseen =>
     Fresh(row, w.base) \/ Describes(row, Input(w.base, w.c), w.c)

\* All rows are as Proton and the gateway write them.
AllSound ==
  /\ Exists(row) => Sound(row)
  /\ Exists(mirror) => Sound(mirror)
  /\ w.pc # "idle" => Sound(w.row) /\ Sound(w.base)

FaithInv == MirrorFresh /\ HandDescribes /\ AgainDescribes /\ AllSound /\ w.blind \in BOOLEAN

-----------------------------------------------------------------------------
(* The event as all see it, and what a change makes of it, field by field. *)

\* The fields of an event.
LEMMA EvFields ==
  ASSUME NEW start, NEW form, NEW rule, NEW ex, NEW organizer, NEW seq, NEW title, NEW note,
         NEW status, NEW lines, NEW rsvp, NEW own, NEW rings, NEW x, NEW e,
         e = Ev(start, form, rule, ex, organizer, seq, title, note, status, lines, rsvp, own,
                rings, x)
  PROVE  /\ e.start = start /\ e.form = form /\ e.rule = rule /\ e.ex = ex
         /\ e.organizer = organizer /\ e.seq = seq /\ e.title = title
         /\ e.note = note /\ e.status = status /\ e.lines = lines
         /\ e.rsvp = rsvp /\ e.own = own /\ e.rings = rings /\ e.x = x
BY DEF Ev

\* An event, its fields being all it has.
IsEv(e) ==
  e = Ev(e.start, e.form, e.rule, e.ex, e.organizer, e.seq, e.title, e.note, e.status, e.lines,
         e.rsvp, e.own, e.rings, e.x)

\* What Apply makes of an event, with SEQUENCE as given.
AppliedTo(e, c, seq) ==
  Ev(StartAfter(e, c), FormOf(e, c), RuleAfter(e, c), ExAfter(e, c), OrganizerAfter(e, c), seq,
     TitleAfter(e, c), NoteAfter(e, c), StatusAfter(e, c), LinesAfter(e, c), AnswersAfter(e, c),
     OwnAfter(e, c), RingsAfter(e, c), e.x)

\* What all see of a row, field by field.
LEMMA ViewIs ==
  ASSUME NEW r
  PROVE  LET at == The(r.signed.DTSTART)
         IN  /\ IsEv(View(r))
             /\ View(r).start = at[1]
             /\ View(r).form = IF at[2] = "odd" THEN "UTC" ELSE at[2]
             /\ View(r).rule = (r.signed.RRULE # {})
             /\ View(r).ex = {e[1] : e \in r.signed.EXDATE}
             /\ View(r).organizer = (r.signed.ORGANIZER # {})
             /\ View(r).seq = The(r.signed.SEQUENCE)
             /\ View(r).title = titleOrDefault(TextOf(r.text.lines.SUMMARY))
             /\ View(r).note = TextOf(r.text.lines.DESCRIPTION)
             /\ View(r).status = statusOrDefault(TextOf(r.status))
             /\ View(r).lines = r.list.lines /\ View(r).rsvp = r.rsvp
             /\ View(r).own = r.alarms.own /\ View(r).rings = Meaning(r.alarms.list)
             /\ View(r).x = <<r.signed.X, r.text.lines.X>>
<1> DEFINE at == The(r.signed.DTSTART)
           start == at[1]
           form == IF at[2] = "odd" THEN "UTC" ELSE at[2]
           rule == r.signed.RRULE # {}
           ex == {e[1] : e \in r.signed.EXDATE}
           organizer == r.signed.ORGANIZER # {}
           seq == The(r.signed.SEQUENCE)
           title == titleOrDefault(TextOf(r.text.lines.SUMMARY))
           note == TextOf(r.text.lines.DESCRIPTION)
           status == statusOrDefault(TextOf(r.status))
           lines == r.list.lines
           rsvp == r.rsvp
           own == r.alarms.own
           rings == Meaning(r.alarms.list)
           x == <<r.signed.X, r.text.lines.X>>
<1>1. View(r) = Ev(start, form, rule, ex, organizer, seq, title, note, status, lines, rsvp, own,
                   rings, x)
  BY Zenon DEF View, Ev
<1> HIDE DEF at, start, form, rule, ex, organizer, seq, title, note, status, lines, rsvp, own,
     rings, x
<1>2. /\ View(r).start = start /\ View(r).form = form /\ View(r).rule = rule /\ View(r).ex = ex
      /\ View(r).organizer = organizer /\ View(r).seq = seq /\ View(r).title = title
      /\ View(r).note = note /\ View(r).status = status /\ View(r).lines = lines
      /\ View(r).rsvp = rsvp /\ View(r).own = own /\ View(r).rings = rings /\ View(r).x = x
  BY <1>1, EvFields
<1>3. IsEv(View(r))
  BY <1>1, <1>2 DEF IsEv
<1> QED
  BY <1>2, <1>3, Zenon
     DEF at, start, form, rule, ex, organizer, seq, title, note, status, lines, rsvp, own, rings, x

\* Apply, field by field.
LEMMA ApplyIs ==
  ASSUME NEW e, IsEv(e), NEW c
  PROVE  Apply(e, c) = AppliedTo(e, c, e.seq)
<1> DEFINE kind == c.f
           form == FormAfter(e.form, c)
           at == RingsAt(e.rings, form)
           lines == [g \in Guests |-> IF g \in c.guests
                                      THEN (IF e.lines[g] = "none" THEN "own" ELSE e.lines[g])
                                      ELSE "none"]
           some == c.guests # {}
           rsvp == e.rsvp \cap c.guests
           rings == UNION {Rings(a, e.form = "DATE") : a \in c.alarms}
           own == e.own \/ rings # {}
<1>1. Apply(e, c) =
        CASE kind = "move" -> [e EXCEPT !.start = c.start, !.form = form, !.rings = at]
          [] kind = "once" -> [e EXCEPT !.rule = FALSE, !.ex = {}]
          [] kind = "repeat" -> [e EXCEPT !.rule = TRUE, !.ex = c.ex]
          [] kind = "title" -> [e EXCEPT !.title = titleOrDefault(c.text)]
          [] kind = "note" -> [e EXCEPT !.note = c.text]
          [] kind = "status" -> [e EXCEPT !.status = StatusFor(c.text)]
          [] kind = "guests" -> [e EXCEPT !.lines = lines, !.organizer = some, !.rsvp = rsvp]
          [] kind = "alarms" -> [e EXCEPT !.rings = rings, !.own = own]
          [] OTHER -> e
  BY Zenon DEF Apply
<1>2. /\ StartAfter(e, c) = IF kind = "move" THEN c.start ELSE e.start
      /\ FormOf(e, c) = IF kind = "move" THEN form ELSE e.form
      /\ RuleAfter(e, c) = CASE kind = "once" -> FALSE [] kind = "repeat" -> TRUE [] OTHER -> e.rule
      /\ ExAfter(e, c) = CASE kind = "once" -> {} [] kind = "repeat" -> c.ex [] OTHER -> e.ex
      /\ OrganizerAfter(e, c) = IF kind = "guests" THEN some ELSE e.organizer
      /\ TitleAfter(e, c) = IF kind = "title" THEN titleOrDefault(c.text) ELSE e.title
      /\ NoteAfter(e, c) = IF kind = "note" THEN c.text ELSE e.note
      /\ StatusAfter(e, c) = IF kind = "status" THEN StatusFor(c.text) ELSE e.status
  BY DEF StartAfter, FormOf, RuleAfter, ExAfter, OrganizerAfter, TitleAfter, NoteAfter, StatusAfter
<1>3. /\ LinesAfter(e, c) = IF kind = "guests" THEN lines ELSE e.lines
      /\ AnswersAfter(e, c) = IF kind = "guests" THEN rsvp ELSE e.rsvp
      /\ RingsAfter(e, c) = CASE kind = "move" -> at [] kind = "alarms" -> rings [] OTHER -> e.rings
  BY DEF LinesAfter, AnswersAfter, RingsAfter
<1>4. OwnAfter(e, c) = IF kind = "alarms" THEN own ELSE e.own
  <2>1. kind = "alarms" => RingsAfter(e, c) = rings
    BY <1>3
  <2> HIDE DEF rings
  <2> QED
    BY <2>1 DEF OwnAfter
<1> DEFINE start0 == e.start
           form0 == e.form
           rule0 == e.rule
           ex0 == e.ex
           organizer0 == e.organizer
           seq0 == e.seq
           title0 == e.title
           note0 == e.note
           status0 == e.status
           lines0 == e.lines
           rsvp0 == e.rsvp
           own0 == e.own
           rings0 == e.rings
           x0 == e.x
           start1 == StartAfter(e, c)
           form1 == FormOf(e, c)
           rule1 == RuleAfter(e, c)
           ex1 == ExAfter(e, c)
           organizer1 == OrganizerAfter(e, c)
           title1 == TitleAfter(e, c)
           note1 == NoteAfter(e, c)
           status1 == StatusAfter(e, c)
           lines1 == LinesAfter(e, c)
           rsvp1 == AnswersAfter(e, c)
           own1 == OwnAfter(e, c)
           rings1 == RingsAfter(e, c)
           words == titleOrDefault(c.text)
           was == c.start
           say == c.text
           now == StatusFor(c.text)
           occs == c.ex
           yes == TRUE
           no == FALSE
           never == {}
<1> HIDE DEF kind, form, at, lines, some, rsvp, rings, own, words, was, say, now, occs, yes, no,
     never
<1> HIDE DEF start0, form0, rule0, ex0, organizer0, seq0, title0, note0, status0, lines0, rsvp0,
     own0, rings0, x0, start1, form1, rule1, ex1, organizer1, title1, note1, status1, lines1,
     rsvp1, own1, rings1
<1>5. e = Ev(start0, form0, rule0, ex0, organizer0, seq0, title0, note0, status0, lines0, rsvp0,
             own0, rings0, x0)
  BY DEF IsEv, start0, form0, rule0, ex0, organizer0, seq0, title0, note0, status0, lines0, rsvp0,
       own0, rings0, x0
<1>6. AppliedTo(e, c, e.seq) = Ev(start1, form1, rule1, ex1, organizer1, seq0, title1, note1,
                                  status1, lines1, rsvp1, own1, rings1, x0)
  BY Zenon DEF AppliedTo, seq0, x0, start1, form1, rule1, ex1, organizer1, title1, note1, status1,
       lines1, rsvp1, own1, rings1
<1>7. /\ start1 = IF kind = "move" THEN was ELSE start0
      /\ form1 = IF kind = "move" THEN form ELSE form0
      /\ rule1 = CASE kind = "once" -> no [] kind = "repeat" -> yes [] OTHER -> rule0
      /\ ex1 = CASE kind = "once" -> never [] kind = "repeat" -> occs [] OTHER -> ex0
      /\ organizer1 = IF kind = "guests" THEN some ELSE organizer0
      /\ title1 = IF kind = "title" THEN words ELSE title0
      /\ note1 = IF kind = "note" THEN say ELSE note0
      /\ status1 = IF kind = "status" THEN now ELSE status0
      /\ lines1 = IF kind = "guests" THEN lines ELSE lines0
      /\ rsvp1 = IF kind = "guests" THEN rsvp ELSE rsvp0
      /\ own1 = IF kind = "alarms" THEN own ELSE own0
      /\ rings1 = CASE kind = "move" -> at [] kind = "alarms" -> rings [] OTHER -> rings0
  BY <1>2, <1>3, <1>4, Zenon DEF words, was, say, now, occs, yes, no, never, start0, form0, rule0,
       ex0, organizer0, title0, note0, status0, lines0, rsvp0, own0, rings0, start1, form1, rule1,
       ex1, organizer1, title1, note1, status1, lines1, rsvp1, own1, rings1
<1>8. Apply(e, c) =
        CASE kind = "move" -> [e EXCEPT !.start = was, !.form = form, !.rings = at]
          [] kind = "once" -> [e EXCEPT !.rule = no, !.ex = never]
          [] kind = "repeat" -> [e EXCEPT !.rule = yes, !.ex = occs]
          [] kind = "title" -> [e EXCEPT !.title = words]
          [] kind = "note" -> [e EXCEPT !.note = say]
          [] kind = "status" -> [e EXCEPT !.status = now]
          [] kind = "guests" -> [e EXCEPT !.lines = lines, !.organizer = some, !.rsvp = rsvp]
          [] kind = "alarms" -> [e EXCEPT !.rings = rings, !.own = own]
          [] OTHER -> e
  BY <1>1 DEF words, was, say, now, occs, yes, no, never
<1>9. CASE kind = "move"
  <2>1. Apply(e, c) = [e EXCEPT !.start = was, !.form = form, !.rings = at]
    BY <1>8, <1>9
  <2> DEFINE e1 == [e EXCEPT !.start = was]
             e2 == [e1 EXCEPT !.form = form]
             e3 == [e2 EXCEPT !.rings = at]
  <2>2. Apply(e, c) = e3
    BY <2>1, <1>5 DEF Ev
  <2>3. e1 = Ev(was, form0, rule0, ex0, organizer0, seq0, title0, note0, status0, lines0, rsvp0,
                own0, rings0, x0)
    BY <1>5 DEF Ev
  <2> HIDE DEF e1
  <2>4. e2 = Ev(was, form, rule0, ex0, organizer0, seq0, title0, note0, status0, lines0, rsvp0,
                own0, rings0, x0)
    BY <2>3 DEF Ev
  <2> HIDE DEF e2
  <2>5. e3 = Ev(was, form, rule0, ex0, organizer0, seq0, title0, note0, status0, lines0, rsvp0,
                own0, at, x0)
    BY <2>4 DEF Ev
  <2> HIDE DEF e3
  <2> QED
    BY <2>2, <2>5, <1>6, <1>7, <1>9
<1>10. CASE kind = "once"
  <2>1. Apply(e, c) = [e EXCEPT !.rule = no, !.ex = never]
    BY <1>8, <1>10
  <2> DEFINE e1 == [e EXCEPT !.rule = no]
             e2 == [e1 EXCEPT !.ex = never]
  <2>2. Apply(e, c) = e2
    BY <2>1, <1>5 DEF Ev
  <2>3. e1 = Ev(start0, form0, no, ex0, organizer0, seq0, title0, note0, status0, lines0, rsvp0,
                own0, rings0, x0)
    BY <1>5 DEF Ev
  <2> HIDE DEF e1
  <2>4. e2 = Ev(start0, form0, no, never, organizer0, seq0, title0, note0, status0, lines0, rsvp0,
                own0, rings0, x0)
    BY <2>3 DEF Ev
  <2> HIDE DEF e2
  <2> QED
    BY <2>2, <2>4, <1>6, <1>7, <1>10
<1>11. CASE kind = "repeat"
  <2>1. Apply(e, c) = [e EXCEPT !.rule = yes, !.ex = occs]
    BY <1>8, <1>11
  <2> DEFINE e1 == [e EXCEPT !.rule = yes]
             e2 == [e1 EXCEPT !.ex = occs]
  <2>2. Apply(e, c) = e2
    BY <2>1, <1>5 DEF Ev
  <2>3. e1 = Ev(start0, form0, yes, ex0, organizer0, seq0, title0, note0, status0, lines0, rsvp0,
                own0, rings0, x0)
    BY <1>5 DEF Ev
  <2> HIDE DEF e1
  <2>4. e2 = Ev(start0, form0, yes, occs, organizer0, seq0, title0, note0, status0, lines0, rsvp0,
                own0, rings0, x0)
    BY <2>3 DEF Ev
  <2> HIDE DEF e2
  <2> QED
    BY <2>2, <2>4, <1>6, <1>7, <1>11
<1>12. CASE kind = "title"
  <2>1. Apply(e, c) = [e EXCEPT !.title = words]
    BY <1>8, <1>12
  <2>2. Apply(e, c) = Ev(start0, form0, rule0, ex0, organizer0, seq0, words, note0, status0,
                         lines0, rsvp0, own0, rings0, x0)
    BY <2>1, <1>5 DEF Ev
  <2> QED
    BY <2>2, <1>6, <1>7, <1>12
<1>13. CASE kind = "note"
  <2>1. Apply(e, c) = [e EXCEPT !.note = say]
    BY <1>8, <1>13
  <2>2. Apply(e, c) = Ev(start0, form0, rule0, ex0, organizer0, seq0, title0, say, status0,
                         lines0, rsvp0, own0, rings0, x0)
    BY <2>1, <1>5 DEF Ev
  <2> QED
    BY <2>2, <1>6, <1>7, <1>13
<1>14. CASE kind = "status"
  <2>1. Apply(e, c) = [e EXCEPT !.status = now]
    BY <1>8, <1>14
  <2>2. Apply(e, c) = Ev(start0, form0, rule0, ex0, organizer0, seq0, title0, note0, now, lines0,
                         rsvp0, own0, rings0, x0)
    BY <2>1, <1>5 DEF Ev
  <2> QED
    BY <2>2, <1>6, <1>7, <1>14
<1>15. CASE kind = "guests"
  <2>1. Apply(e, c) = [e EXCEPT !.lines = lines, !.organizer = some, !.rsvp = rsvp]
    BY <1>8, <1>15
  <2> DEFINE e1 == [e EXCEPT !.lines = lines]
             e2 == [e1 EXCEPT !.organizer = some]
             e3 == [e2 EXCEPT !.rsvp = rsvp]
  <2>2. Apply(e, c) = e3
    BY <2>1, <1>5 DEF Ev
  <2>3. e1 = Ev(start0, form0, rule0, ex0, organizer0, seq0, title0, note0, status0, lines, rsvp0,
                own0, rings0, x0)
    BY <1>5 DEF Ev
  <2> HIDE DEF e1
  <2>4. e2 = Ev(start0, form0, rule0, ex0, some, seq0, title0, note0, status0, lines, rsvp0, own0,
                rings0, x0)
    BY <2>3 DEF Ev
  <2> HIDE DEF e2
  <2>5. e3 = Ev(start0, form0, rule0, ex0, some, seq0, title0, note0, status0, lines, rsvp, own0,
                rings0, x0)
    BY <2>4 DEF Ev
  <2> HIDE DEF e3
  <2> QED
    BY <2>2, <2>5, <1>6, <1>7, <1>15
<1>16. CASE kind = "alarms"
  <2>1. Apply(e, c) = [e EXCEPT !.rings = rings, !.own = own]
    BY <1>8, <1>16
  <2> DEFINE e1 == [e EXCEPT !.rings = rings]
             e2 == [e1 EXCEPT !.own = own]
  <2>2. Apply(e, c) = e2
    BY <2>1, <1>5 DEF Ev
  <2>3. e1 = Ev(start0, form0, rule0, ex0, organizer0, seq0, title0, note0, status0, lines0,
                rsvp0, own0, rings, x0)
    BY <1>5 DEF Ev
  <2> HIDE DEF e1
  <2>4. e2 = Ev(start0, form0, rule0, ex0, organizer0, seq0, title0, note0, status0, lines0,
                rsvp0, own, rings, x0)
    BY <2>3 DEF Ev
  <2> HIDE DEF e2
  <2> QED
    BY <2>2, <2>4, <1>6, <1>7, <1>16
<1>17. CASE kind \notin {"move", "once", "repeat", "title", "note", "status", "guests", "alarms"}
  <2>1. Apply(e, c) = e
    BY <1>8, <1>17
  <2> QED
    BY <2>1, <1>5, <1>6, <1>7, <1>17
<1> QED
  BY <1>9, <1>10, <1>11, <1>12, <1>13, <1>14, <1>15, <1>16, <1>17

\* The fields of what a change makes.
LEMMA AppliedFields ==
  ASSUME NEW e, NEW c, NEW seq
  PROVE  LET a == AppliedTo(e, c, seq)
         IN  /\ IsEv(a)
             /\ a.start = StartAfter(e, c) /\ a.form = FormOf(e, c) /\ a.rule = RuleAfter(e, c)
             /\ a.ex = ExAfter(e, c) /\ a.organizer = OrganizerAfter(e, c) /\ a.seq = seq
             /\ a.title = TitleAfter(e, c) /\ a.note = NoteAfter(e, c)
             /\ a.status = StatusAfter(e, c) /\ a.lines = LinesAfter(e, c)
             /\ a.rsvp = AnswersAfter(e, c) /\ a.own = OwnAfter(e, c)
             /\ a.rings = RingsAfter(e, c) /\ a.x = e.x
<1> DEFINE start == StartAfter(e, c)
           form == FormOf(e, c)
           rule == RuleAfter(e, c)
           ex == ExAfter(e, c)
           organizer == OrganizerAfter(e, c)
           title == TitleAfter(e, c)
           note == NoteAfter(e, c)
           status == StatusAfter(e, c)
           lines == LinesAfter(e, c)
           rsvp == AnswersAfter(e, c)
           own == OwnAfter(e, c)
           rings == RingsAfter(e, c)
           x == e.x
           a == AppliedTo(e, c, seq)
<1>1. a = Ev(start, form, rule, ex, organizer, seq, title, note, status, lines, rsvp, own, rings, x)
  BY Zenon DEF AppliedTo
<1> HIDE DEF start, form, rule, ex, organizer, title, note, status, lines, rsvp, own, rings, x, a
<1>2. /\ a.start = start /\ a.form = form /\ a.rule = rule /\ a.ex = ex
      /\ a.organizer = organizer /\ a.seq = seq /\ a.title = title
      /\ a.note = note /\ a.status = status /\ a.lines = lines
      /\ a.rsvp = rsvp /\ a.own = own /\ a.rings = rings /\ a.x = x
  BY <1>1, EvFields
<1>3. IsEv(a)
  BY <1>1, <1>2 DEF IsEv
<1> QED
  BY <1>2, <1>3, Zenon
     DEF start, form, rule, ex, organizer, title, note, status, lines, rsvp, own, rings, x, a

\* Two events are the same when all of their fields are.
LEMMA SameEv ==
  ASSUME NEW e, NEW a, IsEv(e), IsEv(a),
         a.start = e.start, a.form = e.form, a.rule = e.rule, a.ex = e.ex,
         a.organizer = e.organizer, a.seq = e.seq, a.title = e.title, a.note = e.note,
         a.status = e.status, a.lines = e.lines, a.rsvp = e.rsvp, a.own = e.own,
         a.rings = e.rings, a.x = e.x
  PROVE  a = e
BY Zenon DEF IsEv

\* The schedule a change makes.
PlanAfter(e, c) ==
  <<StartAfter(e, c), FormOf(e, c), RuleAfter(e, c), ExAfter(e, c), Listed(LinesAfter(e, c))>>

\* Changed, field by field.
LEMMA ChangedIs ==
  ASSUME NEW e, IsEv(e), NEW c
  PROVE  Changed(e, c) =
           AppliedTo(e, c, IF PlanAfter(e, c) = Schedule(e) THEN e.seq ELSE e.seq + 1)
<1> DEFINE a == AppliedTo(e, c, e.seq)
<1>1. Apply(e, c) = a
  BY ApplyIs
<1>2. /\ a.start = StartAfter(e, c) /\ a.form = FormOf(e, c) /\ a.rule = RuleAfter(e, c)
      /\ a.ex = ExAfter(e, c) /\ a.lines = LinesAfter(e, c) /\ a.seq = e.seq
  BY AppliedFields
<1> HIDE DEF a
<1>3. Schedule(a) = PlanAfter(e, c)
  BY <1>2, Zenon DEF Schedule, PlanAfter
<1> DEFINE more == e.seq + 1
           b == AppliedTo(e, c, more)
<1>4. [a EXCEPT !.seq = @ + 1] = [a EXCEPT !.seq = more]
  BY <1>2, Zenon
<1>5. [a EXCEPT !.seq = more] = b
  <2> HIDE DEF more
  <2> QED
    BY DEF AppliedTo, Ev, a
<1>6. Changed(e, c) = IF PlanAfter(e, c) = Schedule(e) THEN a ELSE b
  BY <1>1, <1>3, <1>4, <1>5 DEF Changed
<1> QED
  BY <1>6 DEF a

-----------------------------------------------------------------------------
(* A reminder through normalizeTriggerDuration, the column and a VALARM. *)

\* The minutes of a duration.
Minutes(d) == totalSeconds(d) \div 60

\* What the fold makes of them.
LEMMA FoldedShape ==
  ASSUME NEW d \in Duration
  PROVE  \/ Folded(d) = Only("minutes", Minutes(d)) /\ Minutes(d) % 60 # 0
         \/ \E n \in Nat : Folded(d) = Only("hours", n) /\ Minutes(d) = 60 * n /\ Minutes(d) % 1440 # 0
         \/ \E n \in Nat : Folded(d) = Only("days", n) /\ Minutes(d) = 1440 * n
         \/ \E n \in Nat : Folded(d) = Only("weeks", n) /\ Minutes(d) = 10080 * n
<1> DEFINE minutes == Minutes(d)
           hours == minutes \div 60
           days == hours \div 24
           weeks == days \div 7
<1>1. minutes \in Nat
  BY TotalIsNat DEF Minutes
<1>2. Folded(d) = CASE minutes % 60 # 0 -> Only("minutes", minutes)
        [] minutes % 60 = 0 /\ hours % 24 # 0 -> Only("hours", hours)
        [] minutes % 1440 = 0 /\ days % 7 # 0 -> Only("days", days)
        [] OTHER -> Only("weeks", weeks)
  BY DEF Folded, Minutes
<1> HIDE DEF minutes
<1>3. hours \in Nat /\ minutes = 60 * hours + (minutes % 60)
  BY <1>1
<1> HIDE DEF hours
<1>4. days \in Nat /\ hours = 24 * days + (hours % 24)
  BY <1>3
<1> HIDE DEF days
<1>5. weeks \in Nat /\ days = 7 * weeks + (days % 7)
  BY <1>4
<1> HIDE DEF weeks
<1>6. minutes % 60 = 0 /\ hours % 24 = 0 => minutes = 1440 * days
  BY <1>3, <1>4
<1>7. minutes = 1440 * days => minutes % 1440 = 0
  BY <1>4
<1>8. minutes % 1440 = 0 => minutes % 60 = 0 /\ hours % 24 = 0
  <2>1. ASSUME minutes % 1440 = 0
        PROVE  minutes = 1440 * (minutes \div 1440) /\ minutes \div 1440 \in Nat
    BY <1>1, <2>1
  <2> DEFINE q == minutes \div 1440
  <2> HIDE DEF q
  <2>2. ASSUME minutes = 1440 * q, q \in Nat
        PROVE  minutes % 60 = 0 /\ hours = 24 * q
    <3>1. minutes % 60 = 0
      BY <2>2
    <3> QED
      BY <2>2, <1>3, <3>1
  <2> QED
    BY <2>1, <2>2 DEF q
<1>9. CASE minutes % 60 # 0
  <2>1. Folded(d) = Only("minutes", minutes)
    BY <1>2, <1>9, <1>8
  <2> QED
    BY <2>1, <1>9 DEF minutes
<1>10. CASE minutes % 60 = 0 /\ hours % 24 # 0
  <2>1. Folded(d) = Only("hours", hours)
    BY <1>2, <1>10, <1>8
  <2>2. minutes = 60 * hours /\ minutes % 1440 # 0
    BY <1>3, <1>8, <1>10
  <2> QED
    BY <2>1, <2>2, <1>3 DEF minutes
<1>11. CASE minutes % 60 = 0 /\ hours % 24 = 0 /\ days % 7 # 0
  <2>1. Folded(d) = Only("days", days)
    BY <1>2, <1>11, <1>6, <1>7
  <2>2. minutes = 1440 * days
    BY <1>6, <1>11
  <2> QED
    BY <2>1, <2>2, <1>4 DEF minutes
<1>12. CASE minutes % 60 = 0 /\ hours % 24 = 0 /\ days % 7 = 0
  <2>1. Folded(d) = Only("weeks", weeks)
    BY <1>2, <1>12
  <2>2. minutes = 10080 * weeks
    BY <1>4, <1>5, <1>6, <1>12
  <2> QED
    BY <2>1, <2>2, <1>5 DEF minutes
<1> QED
  BY <1>9, <1>10, <1>11, <1>12

\* A duration Proton has a form for, without seconds.
Exact(d) == d \in Duration /\ d["seconds"] = 0 /\ Fits(d)

\* A duration counts units.
LEMMA UnitsOf ==
  ASSUME NEW d \in Duration
  PROVE  /\ d["weeks"] \in Nat /\ d["days"] \in Nat /\ d["hours"] \in Nat
         /\ d["minutes"] \in Nat /\ d["seconds"] \in Nat
BY DEF Duration, Units

\* Leaving the seconds out, or counting weeks as days, keeps the minutes.
LEMMA SameMinutes ==
  ASSUME NEW d \in Duration, Fits(d), NEW e \in Duration,
         e["seconds"] = 0, e["minutes"] = d["minutes"], e["hours"] = d["hours"],
         e["days"] + 7 * e["weeks"] = d["days"] + 7 * d["weeks"]
  PROVE  Exact(e) /\ totalSeconds(e) = 60 * Minutes(d) /\ Minutes(e) = Minutes(d)
<1>1. PICK a \in Nat, k \in Nat, h \in Nat, m \in Nat, s \in Nat :
        /\ d["weeks"] = a /\ d["days"] = k /\ d["hours"] = h /\ d["minutes"] = m
        /\ d["seconds"] = s
  BY UnitsOf
<1>2. PICK a2 \in Nat, k2 \in Nat : e["weeks"] = a2 /\ e["days"] = k2
  BY UnitsOf
<1> DEFINE M == 10080 * a + 1440 * k + 60 * h + m
<1>3. totalSeconds(d) = 60 * M + s
  BY <1>1, SMT DEF totalSeconds
<1>4. s < 60
  BY <1>1, SMT DEF Fits
<1>5. k2 + 7 * a2 = k + 7 * a
  BY <1>1, <1>2
<1>6. totalSeconds(e) = 60 * M
  <2>1. totalSeconds(e) = 604800 * a2 + 86400 * k2 + 3600 * h + 60 * m + 0
    BY <1>1, <1>2, SMT DEF totalSeconds
  <2>2. 604800 * a2 + 86400 * k2 = 604800 * a + 86400 * k
    <3>1. a2 \in Int /\ k2 \in Int /\ a \in Int /\ k \in Int
      OBVIOUS
    <3>2. k2 = k + 7 * a - 7 * a2
      BY <1>5, <3>1, SMT
    <3> QED
      BY <3>2, <3>1, SMT
  <2>3. 60 * M = 604800 * a + 86400 * k + 3600 * h + 60 * m
    BY SMT
  <2>4. totalSeconds(e) = 604800 * a + 86400 * k + 3600 * h + 60 * m
    BY <2>1, <2>2, SMT
  <2> QED
    BY <2>3, <2>4
<1>7. M \in Nat
  OBVIOUS
<1> HIDE DEF M
<1>8. Minutes(d) = M /\ Minutes(e) = M
  BY <1>3, <1>4, <1>6, <1>7, SMT DEF Minutes
<1>9. Fits(e)
  BY <1>1, <1>2, <1>8, SMT DEF Fits, Minutes
<1> QED
  BY <1>6, <1>8, <1>9 DEF Exact

\* A duration of one unit has no other.
LEMMA OnlyOf ==
  ASSUME NEW u \in Units, NEW n \in Nat
  PROVE  \A v \in Units : Only(u, n)[v] = IF u = v THEN n ELSE 0
  BY DEF Only, Zero, Units

\* Folded into one unit, it still fits.
LEMMA FoldedFits ==
  ASSUME NEW d \in Duration, Fits(d)
  PROVE  Exact(Folded(d)) /\ totalSeconds(Folded(d)) = 60 * Minutes(d)
<1> DEFINE e == Folded(d)
           M == Minutes(d)
<1>1. e \in Duration /\ totalSeconds(e) = 60 * M
  BY FoldKeepsMinutes DEF Minutes
<1>2. M \in Nat
  BY TotalIsNat DEF Minutes
<1>3. Minutes(e) = M
  BY <1>1, <1>2 DEF Minutes
<1>4. /\ M % 60 # 0 => M <= 9999
      /\ M % 1440 # 0 => M <= 60 * 999
      /\ M <= 10080 * 999
  BY SMT DEF Fits, Minutes
<1>5. SUFFICES /\ e["seconds"] = 0 /\ e["minutes"] <= 9999 /\ e["hours"] <= 999
               /\ e["days"] + 7 * e["weeks"] <= 6993
  BY <1>1, <1>3, <1>4, SMT DEF Exact, Fits, Minutes
<1>6. \/ e = Only("minutes", M) /\ M % 60 # 0
      \/ \E n \in Nat : e = Only("hours", n) /\ M = 60 * n /\ M % 1440 # 0
      \/ \E n \in Nat : e = Only("days", n) /\ M = 1440 * n
      \/ \E n \in Nat : e = Only("weeks", n) /\ M = 10080 * n
  BY FoldedShape
<1> HIDE DEF e, M
<1>7. CASE e = Only("minutes", M) /\ M % 60 # 0
  <2>1. /\ e["seconds"] = 0 /\ e["minutes"] = M /\ e["hours"] = 0 /\ e["days"] = 0
        /\ e["weeks"] = 0
    BY <1>7, <1>2, OnlyOf DEF Units
  <2> QED
    BY <2>1, <1>4, <1>7, SMT
<1>8. ASSUME NEW n \in Nat, e = Only("hours", n), M = 60 * n, M % 1440 # 0
      PROVE  /\ e["seconds"] = 0 /\ e["minutes"] <= 9999 /\ e["hours"] <= 999
             /\ e["days"] + 7 * e["weeks"] <= 6993
  <2>1. /\ e["seconds"] = 0 /\ e["minutes"] = 0 /\ e["hours"] = n /\ e["days"] = 0
        /\ e["weeks"] = 0
    BY <1>8, OnlyOf DEF Units
  <2> QED
    BY <2>1, <1>4, <1>8, SMT
<1>9. ASSUME NEW n \in Nat, e = Only("days", n), M = 1440 * n
      PROVE  /\ e["seconds"] = 0 /\ e["minutes"] <= 9999 /\ e["hours"] <= 999
             /\ e["days"] + 7 * e["weeks"] <= 6993
  <2>1. /\ e["seconds"] = 0 /\ e["minutes"] = 0 /\ e["hours"] = 0 /\ e["days"] = n
        /\ e["weeks"] = 0
    BY <1>9, OnlyOf DEF Units
  <2> QED
    BY <2>1, <1>4, <1>9, SMT
<1>10. ASSUME NEW n \in Nat, e = Only("weeks", n), M = 10080 * n
      PROVE  /\ e["seconds"] = 0 /\ e["minutes"] <= 9999 /\ e["hours"] <= 999
             /\ e["days"] + 7 * e["weeks"] <= 6993
  <2>1. /\ e["seconds"] = 0 /\ e["minutes"] = 0 /\ e["hours"] = 0 /\ e["days"] = 0
        /\ e["weeks"] = n
    BY <1>10, OnlyOf DEF Units
  <2> QED
    BY <2>1, <1>4, <1>10, SMT
<1> QED
  BY <1>6, <1>7, <1>8, <1>9, <1>10

\* A duration that fits is within the bounds of the column.
LEMMA ExactInBounds ==
  ASSUME NEW d, Exact(d)
  PROVE  InBounds(d)
BY UnitsOf, SMT DEF Exact, Fits, InBounds

\* Normalised, a reminder Proton has a form for is as long, to the minute.
LEMMA NormalFits ==
  ASSUME NEW d \in Duration, Fits(d), NEW negative \in BOOLEAN, NEW day \in BOOLEAN
  PROVE  LET e == Normal(negative, d, day)
         IN  Exact(e) /\ totalSeconds(e) = 60 * Minutes(d)
<1> DEFINE e0 == [d EXCEPT !["seconds"] = 0]
           weeks == d["days"] + 7 * d["weeks"]
           e1 == [e0 EXCEPT !["days"] = weeks, !["weeks"] = 0]
<1>1. weeks \in Nat
  BY UnitsOf
<1>2. /\ e0 \in Duration /\ e0["seconds"] = 0 /\ e0["minutes"] = d["minutes"]
      /\ e0["hours"] = d["hours"] /\ e0["days"] = d["days"] /\ e0["weeks"] = d["weeks"]
  BY DEF Duration, Units
<1> HIDE DEF e0
<1>3. /\ e1 \in Duration /\ e1["seconds"] = 0 /\ e1["minutes"] = d["minutes"]
      /\ e1["hours"] = d["hours"] /\ e1["days"] = weeks /\ e1["weeks"] = 0
  <2> HIDE DEF weeks
  <2> QED
    BY <1>1, <1>2 DEF Duration, Units
<1>4. Exact(e0) /\ totalSeconds(e0) = 60 * Minutes(d)
  BY <1>2, SameMinutes
<1>5. Exact(e1) /\ totalSeconds(e1) = 60 * Minutes(d)
  <2>1. e1["days"] + 7 * e1["weeks"] = d["days"] + 7 * d["weeks"]
    BY <1>1, <1>3, SMT
  <2> HIDE DEF e1
  <2> QED
    BY <2>1, <1>3, SameMinutes
<1>6. NormalDay(negative, d) \in {e0, e1}
  BY <1>2 DEF NormalDay, e0
<1>7. NormalTimed(d) \in {e0, Folded(d)}
  BY DEF NormalTimed, e0
<1> QED
  BY <1>4, <1>5, <1>6, <1>7, FoldedFits DEF Normal

\* Written out and read again, it is as long and fits.
LEMMA WrittenFits ==
  ASSUME NEW d, Exact(d)
  PROVE  Exact(Written(d)) /\ totalSeconds(Written(d)) = totalSeconds(d)
<1> DEFINE weeks == d["days"] + 7 * d["weeks"]
           e1 == [d EXCEPT !["days"] = weeks, !["weeks"] = 0]
<1>1. weeks \in Nat /\ d \in Duration /\ Fits(d) /\ d["seconds"] = 0
  BY UnitsOf DEF Exact
<1>2. /\ e1 \in Duration /\ e1["seconds"] = 0 /\ e1["minutes"] = d["minutes"]
      /\ e1["hours"] = d["hours"] /\ e1["days"] = weeks /\ e1["weeks"] = 0
  <2> HIDE DEF weeks
  <2> QED
    BY <1>1 DEF Duration, Units
<1>3. Exact(e1) /\ totalSeconds(e1) = 60 * Minutes(d)
  <2>1. e1["days"] + 7 * e1["weeks"] = d["days"] + 7 * d["weeks"]
    BY <1>1, <1>2, SMT
  <2> HIDE DEF e1
  <2> QED
    BY <2>1, <1>1, <1>2, SameMinutes
<1>4. totalSeconds(d) = 60 * Minutes(d)
  BY <1>1, SameMinutes
<1>5. Written(d) \in {d, e1}
  BY DEF Written
<1> QED
  BY <1>3, <1>4, <1>5

\* A reminder Proton has a form for rings when the client's alarm does.
LEMMA RingsFit ==
  ASSUME NEW a \in VAlarms, NEW day \in BOOLEAN, Fits(a.d)
  PROVE  /\ Meaning(FromAlarm(a, day)) = Rings(a, day)
         /\ \A n \in FromAlarm(a, day) : Settled(n, day)
<1> DEFINE d == Normal(a.negative, a.d, day)
           M == Minutes(a.d)
           type == IF a.action = "EMAIL" THEN "email" ELSE "device"
           sign == a.negative /\ totalSeconds(d) # 0
           at == IF a.negative THEN -60 * M ELSE 60 * M
           proper == a.action \in {"DISPLAY", "AUDIO", "EMAIL"} /\ a.related = "START"
           n == Reminder(type, sign, Written(d))
           early == InTime(a.negative, d, day)
           before == at <= (IF day THEN 86399 ELSE 0)
<1>1. a.d \in Duration /\ a.negative \in BOOLEAN
  BY DEF VAlarms
<1>2. M \in Nat
  BY <1>1, TotalIsNat DEF Minutes
<1>3. Exact(d) /\ totalSeconds(d) = 60 * M
  BY <1>1, NormalFits
<1>4. InBounds(d)
  BY <1>3, ExactInBounds
<1>5. Exact(Written(d)) /\ totalSeconds(Written(d)) = 60 * M
  BY <1>3, WrittenFits
<1>6. M <= 999 * 10080
  BY SMT DEF Fits, Minutes
<1>7. Rings(a, day) = IF proper /\ before THEN {<<type, at>>} ELSE {}
  BY <1>6, SMT DEF Rings, Minutes
<1>8. FromAlarm(a, day) = IF proper /\ early THEN {n} ELSE {}
  BY <1>4 DEF FromAlarm
<1> DEFINE neg == a.negative
<1>9. neg \in BOOLEAN
  BY <1>1
<1>10. early <=> neg \/ 60 * M = 0 \/ (day /\ 60 * M < 86400)
  BY <1>3 DEF InTime
<1>11. before <=> (IF neg THEN -60 * M ELSE 60 * M) <= (IF day THEN 86399 ELSE 0)
  OBVIOUS
<1>12. /\ n.type = type /\ n.d = Written(d) /\ (n.negative <=> neg /\ 60 * M # 0)
  BY <1>3 DEF Reminder
<1>13. at = IF neg THEN -60 * M ELSE 60 * M
  OBVIOUS
<1> HIDE DEF d, M, type, sign, at, proper, n, early, before, neg
<1>14. early <=> before
  BY <1>2, <1>9, <1>10, <1>11, SMT
<1>15. signedSeconds(n) = at
  BY <1>2, <1>5, <1>9, <1>12, <1>13, SMT DEF signedSeconds
<1>16. early => Settled(n, day)
  <2>1. n.d["seconds"] = 0 /\ Fits(n.d)
    BY <1>5, <1>12 DEF Exact
  <2>2. early => InTime(n.negative, n.d, day)
    BY <1>2, <1>5, <1>9, <1>10, <1>12, SMT DEF InTime
  <2> QED
    BY <2>1, <2>2 DEF Settled
<1>17. Meaning({n}) = {<<type, at>>} /\ Meaning({}) = {}
  BY <1>12, <1>15 DEF Meaning
<1> QED
  BY <1>7, <1>8, <1>14, <1>16, <1>17

\* One that is too long is none.
LEMMA RingsTooLong ==
  ASSUME NEW a \in VAlarms, NEW day \in BOOLEAN, TooLong(a.d)
  PROVE  FromAlarm(a, day) = {} /\ Rings(a, day) = {}
<1> DEFINE d == Normal(a.negative, a.d, day)
           long == a.d
<1>1. long \in Duration /\ a.negative \in BOOLEAN
  BY DEF VAlarms
<1>2. PICK weeks \in Nat, days \in Nat :
        /\ long["weeks"] = weeks /\ long["days"] = days /\ (weeks = 0 \/ days = 0)
        /\ weeks > 999 \/ days > 6999
        /\ long["hours"] = 0 /\ long["minutes"] = 0 /\ long["seconds"] = 0
  <2>1. CASE long = Only("weeks", long["weeks"]) /\ long["weeks"] > 999
    <3>1. PICK m \in Nat : long["weeks"] = m
      BY <1>1, UnitsOf
    <3>2. long = Only("weeks", m) /\ m > 999
      BY <2>1, <3>1
    <3>3. /\ long["days"] = 0 /\ long["hours"] = 0 /\ long["minutes"] = 0 /\ long["seconds"] = 0
      BY <3>2, OnlyOf DEF Units
    <3> QED
      BY <3>1, <3>2, <3>3
  <2>2. CASE long = Only("days", long["days"]) /\ long["days"] > 6999
    <3>1. PICK m \in Nat : long["days"] = m
      BY <1>1, UnitsOf
    <3>2. long = Only("days", m) /\ m > 6999
      BY <2>2, <3>1
    <3>3. /\ long["weeks"] = 0 /\ long["hours"] = 0 /\ long["minutes"] = 0 /\ long["seconds"] = 0
      BY <3>2, OnlyOf DEF Units
    <3> QED
      BY <3>1, <3>2, <3>3
  <2> QED
    BY <2>1, <2>2 DEF TooLong
<1>3. Minutes(long) > 999 * 10080
  <2>1. totalSeconds(long) = 604800 * weeks + 86400 * days
    BY <1>2, SMT DEF totalSeconds
  <2> DEFINE m == 10080 * weeks + 1440 * days
  <2>2. totalSeconds(long) = 60 * m /\ m \in Nat /\ m > 999 * 10080
    BY <1>2, <2>1, SMT
  <2> HIDE DEF m
  <2>3. Minutes(long) = m
    BY <2>2, SMT DEF Minutes
  <2> QED
    BY <2>2, <2>3
<1>4. Rings(a, day) = {}
  <2> DEFINE m == Minutes(long)
  <2>1. m \in Nat
    BY <1>1, TotalIsNat DEF Minutes
  <2>2. m = totalSeconds(a.d) \div 60
    BY DEF Minutes
  <2> HIDE DEF m
  <2>3. ~(m <= 999 * 10080)
    BY <1>3, <2>1, SMT DEF m
  <2> QED
    BY <2>2, <2>3 DEF Rings
<1>5. d["weeks"] > 999 \/ d["days"] > 6999
  <2> DEFINE e0 == [long EXCEPT !["seconds"] = 0]
             both == long["days"] + 7 * long["weeks"]
             e1 == [e0 EXCEPT !["days"] = both, !["weeks"] = 0]
  <2>1. e0["weeks"] = weeks /\ e0["days"] = days
    BY <1>1, <1>2 DEF Duration, Units
  <2>2. NormalTimed(long) = e0
    <3> DEFINE S == {u \in Units \ {"seconds"} : long[u] # 0}
    <3>1. S = IF weeks > 999 THEN {"weeks"} ELSE {"days"}
      <4>1. weeks > 999 => weeks # 0 /\ days = 0
        BY <1>2
      <4>2. ~(weeks > 999) => weeks = 0 /\ days # 0
        BY <1>2
      <4> QED
        BY <4>1, <4>2, <1>2 DEF Units
    <3>2. Cardinality(S) <= 1
      <4> HIDE DEF S
      <4>1. PICK u : S = {u}
        BY <3>1
      <4>2. Cardinality({u}) = 1
        BY FS_Singleton
      <4> QED
        BY <4>1, <4>2
    <3> HIDE DEF e0
    <3> QED
      BY <3>2 DEF NormalTimed, e0
  <2>3. CASE weeks > 999
    <3>1. days = 0
      BY <1>2, <2>3
    <3>2. NormalDay(a.negative, long) = e0
      <4>1. KeepWeeks(a.negative, long)
        BY <1>2, <3>1 DEF KeepWeeks
      <4> QED
        BY <4>1 DEF NormalDay
    <3> HIDE DEF e0
    <3> QED
      BY <2>1, <2>2, <2>3, <3>2 DEF Normal
  <2>4. CASE days > 6999
    <3>1. weeks = 0 /\ both = days
      BY <1>2, <2>4
    <3>2. NormalDay(a.negative, long) = e1
      <4>1. ~KeepWeeks(a.negative, long)
        BY <1>2, <2>4 DEF KeepWeeks
      <4>2. e0["days"] = long["days"]
        BY <1>2, <2>1
      <4> QED
        BY <4>1, <4>2 DEF NormalDay
    <3>3. e1["days"] = days
      <4> HIDE DEF both
      <4>1. e0 \in Duration
        BY <1>1 DEF Duration, Units
      <4> HIDE DEF e0
      <4> QED
        BY <3>1, <4>1 DEF Duration, Units
    <3> HIDE DEF e0, e1
    <3> QED
      BY <2>1, <2>2, <2>4, <3>2, <3>3 DEF Normal
  <2> QED
    BY <1>2, <2>3, <2>4
<1>6. ~InBounds(d)
  <2>1. d \in Duration
    BY <1>1, NormalIsDuration
  <2> HIDE DEF d
  <2> QED
    BY <1>5, <2>1, UnitsOf, SMT DEF InBounds
<1> QED
  BY <1>4, <1>6 DEF FromAlarm

\* What a list of alarms becomes.
Taking(set, day) == UNION {FromAlarm(a, day) : a \in set}

\* The reminders the gateway takes from a client ring when its alarms do.
LEMMA RingsTaken ==
  ASSUME NEW set \in SUBSET VAlarms, NEW day \in BOOLEAN,
         \A a \in set : Fits(a.d) \/ TooLong(a.d)
  PROVE  /\ Meaning(Taking(set, day)) = UNION {Rings(a, day) : a \in set}
         /\ \A n \in Taking(set, day) : Settled(n, day)
<1>1. \A a \in set : /\ Meaning(FromAlarm(a, day)) = Rings(a, day)
                     /\ \A n \in FromAlarm(a, day) : Settled(n, day)
  <2> SUFFICES ASSUME NEW a \in set
               PROVE  /\ Meaning(FromAlarm(a, day)) = Rings(a, day)
                      /\ \A n \in FromAlarm(a, day) : Settled(n, day)
    OBVIOUS
  <2>1. a \in VAlarms
    OBVIOUS
  <2>2. CASE Fits(a.d)
    BY <2>1, <2>2, RingsFit
  <2>3. CASE TooLong(a.d)
    <3>1. FromAlarm(a, day) = {} /\ Rings(a, day) = {}
      BY <2>1, <2>3, RingsTooLong
    <3> QED
      BY <3>1 DEF Meaning
  <2> QED
    BY <2>2, <2>3
<1>2. Meaning(Taking(set, day)) = UNION {Meaning(FromAlarm(a, day)) : a \in set}
  <2> DEFINE F(a) == FromAlarm(a, day)
  <2>1. Taking(set, day) = UNION {F(a) : a \in set}
    BY Zenon DEF Taking
  <2> HIDE DEF F
  <2>2. Meaning(UNION {F(a) : a \in set}) = UNION {Meaning(F(a)) : a \in set}
    BY DEF Meaning
  <2> QED
    BY <2>1, <2>2 DEF F
<1>3. \A n \in Taking(set, day) : \E a \in set : n \in FromAlarm(a, day)
  BY DEF Taking
<1>4. UNION {Meaning(FromAlarm(a, day)) : a \in set} = UNION {Rings(a, day) : a \in set}
  BY <1>1, Zenon
<1> QED
  BY <1>1, <1>2, <1>3, <1>4

\* A settled entry, served and taken back on an event of either kind.
LEMMA RingsServed ==
  ASSUME NEW n \in Reminders, NEW was \in BOOLEAN, Settled(n, was), NEW day \in BOOLEAN
  PROVE  /\ Served(n) \in VAlarms /\ Fits(Served(n).d)
         /\ Rings(Served(n), day) = IF signedSeconds(n) <= 0 \/ day
                                    THEN {<<n.type, signedSeconds(n)>>} ELSE {}
         /\ signedSeconds(n) <= 0 \/ was
<1> DEFINE a == Served(n)
           M == Minutes(n.d)
           neg == n.negative
           at == signedSeconds(n)
<1>1. /\ a \in VAlarms /\ a.d = n.d /\ a.negative = neg /\ a.related = "START"
      /\ a.action = IF n.type = "email" THEN "EMAIL" ELSE "DISPLAY"
  BY ServedType DEF Served, Alarm
<1>2. n.d \in Duration /\ neg \in BOOLEAN /\ n.type \in {"device", "email"}
  BY DEF Reminders
<1>3. n.d["seconds"] = 0 /\ Fits(n.d) /\ InTime(neg, n.d, was)
  BY DEF Settled
<1>4. M \in Nat /\ totalSeconds(n.d) = 60 * M
  BY <1>2, <1>3, TotalIsNat, SameMinutes, SMT DEF Minutes
<1>5. M <= 999 * 10080
  BY <1>3, SMT DEF Fits, Minutes
<1>6. neg \/ 60 * M = 0 \/ (was /\ 60 * M < 86400)
  BY <1>3, <1>4 DEF InTime
<1>7. at = IF neg THEN -(60 * M) ELSE 60 * M
  BY <1>4 DEF signedSeconds
<1> DEFINE ring == IF neg THEN -60 * M ELSE 60 * M
           limit == IF day THEN 86399 ELSE 0
           type == IF a.action = "EMAIL" THEN "email" ELSE "device"
<1>8. type = n.type
  BY <1>1, <1>2
<1>9. a.action \in {"DISPLAY", "AUDIO", "EMAIL"}
  BY <1>1
<1> DEFINE long == Minutes(a.d)
           ring1 == IF a.negative THEN -60 * long ELSE 60 * long
           proper == a.action \in {"DISPLAY", "AUDIO", "EMAIL"} /\ a.related = "START"
<1>10. Rings(a, day) = IF ring <= limit THEN {<<type, ring>>} ELSE {}
  <2>1. long = M
    BY <1>1
  <2>2. long <= 999 * 10080
    BY <2>1, <1>5
  <2> HIDE DEF a
  <2>3. Rings(a, day) = IF proper /\ ring1 <= limit THEN {<<type, ring1>>} ELSE {}
    BY <2>2, SMT DEF Rings, Minutes
  <2>4. ring1 = ring
    BY <2>1, <1>1
  <2>5. proper
    BY <1>1, <1>9
  <2> HIDE DEF proper, ring1, ring, limit, type
  <2> QED
    BY <2>3, <2>4, <2>5
<1>11. ring = at
  <2> HIDE DEF M, neg, at
  <2> QED
    BY <1>2, <1>4, <1>7, SMT
<1>12. ring <= limit <=> at <= 0 \/ day
  <2> HIDE DEF M, neg, at
  <2> QED
    BY <1>2, <1>4, <1>6, <1>7, SMT
<1>13. at <= 0 \/ was
  <2> HIDE DEF M, neg, at
  <2> QED
    BY <1>2, <1>4, <1>6, <1>7, SMT
<1> HIDE DEF ring, limit, at, type, long, ring1, proper
<1>14. Rings(a, day) = IF at <= 0 \/ day THEN {<<n.type, at>>} ELSE {}
  BY <1>8, <1>10, <1>11, <1>12
<1> QED
  BY <1>1, <1>3, <1>13, <1>14 DEF at

\* The alarms a client is served for a column.
ServedAll(list) == {Served(n) : n \in list}

\* The column of a row, served and taken back.
LEMMA RingsBack ==
  ASSUME NEW list \in SUBSET Reminders, NEW was \in BOOLEAN, \A n \in list : Settled(n, was),
         NEW day \in BOOLEAN
  PROVE  LET back == Taking(ServedAll(list), day)
         IN  /\ Meaning(back) = {x \in Meaning(list) : x[2] <= 0 \/ day}
             /\ day = was => Meaning(back) = Meaning(list)
             /\ \A n \in back : Settled(n, day)
<1> DEFINE set == {Served(n) : n \in list}
           back == Taking(set, day)
<1>1. \A n \in list :
        /\ Served(n) \in VAlarms /\ Fits(Served(n).d)
        /\ Rings(Served(n), day) = IF signedSeconds(n) <= 0 \/ day
                                    THEN {<<n.type, signedSeconds(n)>>} ELSE {}
        /\ signedSeconds(n) <= 0 \/ was
  BY RingsServed
<1>2. set \in SUBSET VAlarms /\ \A a \in set : Fits(a.d) \/ TooLong(a.d)
  BY <1>1
<1> HIDE DEF set
<1>3. Meaning(back) = UNION {Rings(a, day) : a \in set} /\ \A n \in back : Settled(n, day)
  BY <1>2, RingsTaken
<1>4. UNION {Rings(a, day) : a \in set} = UNION {Rings(Served(n), day) : n \in list}
  BY Zenon DEF set
<1>5. UNION {Rings(Served(n), day) : n \in list} = {x \in Meaning(list) : x[2] <= 0 \/ day}
  <2> DEFINE R(n) == Rings(Served(n), day)
  <2>1. \A n \in list : R(n) = IF signedSeconds(n) <= 0 \/ day
                               THEN {<<n.type, signedSeconds(n)>>} ELSE {}
    BY <1>1
  <2> HIDE DEF R
  <2>2. UNION {R(n) : n \in list} = {x \in Meaning(list) : x[2] <= 0 \/ day}
    BY <2>1 DEF Meaning
  <2> QED
    BY <2>2 DEF R
<1>6. day = was => {x \in Meaning(list) : x[2] <= 0 \/ day} = Meaning(list)
  BY <1>1 DEF Meaning
<1> QED
  BY <1>3, <1>4, <1>5, <1>6, Zenon DEF set, ServedAll

\* The column says what the client asks for, whichever way.
LEMMA ColumnSays ==
  ASSUME NEW column, ColumnWhole(column), NEW want \in SUBSET Reminders
  PROVE  LET after == notificationsPayload(column, want)
         IN  /\ Meaning(after.list) = Meaning(want)
             /\ after.own <=> column.own \/ want # {}
             /\ after.list = column.list \/ after.list = want
<1> DEFINE after == notificationsPayload(column, want)
           own == column.own
<1>1. ~own => column.list = {}
  BY DEF ColumnWhole
<1>2. \A s : (Meaning(s) = {} <=> s = {})
  BY DEF Meaning
<1>3. CASE want = {} /\ column.list = {}
  <2>1. after = column
    BY <1>3 DEF notificationsPayload
  <2>2. after.own <=> own \/ want # {}
    BY <2>1, <1>3, Zenon
  <2>3. Meaning(after.list) = Meaning(want) /\ after.list = column.list
    BY <2>1, <1>3
  <2> HIDE DEF after
  <2> QED
    BY <2>2, <2>3, Zenon DEF own, after
<1>4. CASE want = {} /\ column.list # {}
  <2>1. after = OwnList({})
    BY <1>4 DEF notificationsPayload
  <2>2. after.own = TRUE /\ after.list = {}
    BY <2>1 DEF OwnList
  <2>3. after.own <=> own \/ want # {}
    BY <2>2, <1>1, <1>4, Zenon
  <2>4. Meaning(after.list) = Meaning(want) /\ after.list = want
    BY <2>2, <1>4
  <2> HIDE DEF after
  <2> QED
    BY <2>3, <2>4, Zenon DEF own, after
<1>5. CASE want # {} /\ notificationSetsEqual(column.list, want)
  <2>1. after = column
    BY <1>5 DEF notificationsPayload
  <2>2. Meaning(column.list) = Meaning(want)
    BY <1>5 DEF notificationSetsEqual
  <2>3. column.list # {}
    BY <2>2, <1>2, <1>5
  <2>4. after.own <=> own \/ want # {}
    BY <2>1, <2>3, <1>1, <1>5, Zenon
  <2>5. Meaning(after.list) = Meaning(want) /\ after.list = column.list
    BY <2>1, <2>2
  <2> HIDE DEF after
  <2> QED
    BY <2>4, <2>5, Zenon DEF own, after
<1>6. CASE want # {} /\ ~notificationSetsEqual(column.list, want)
  <2>1. after = OwnList(want)
    BY <1>6 DEF notificationsPayload
  <2>2. after.own = TRUE /\ after.list = want
    BY <2>1 DEF OwnList
  <2>3. after.own <=> own \/ want # {}
    BY <2>2, <1>6, Zenon
  <2>4. Meaning(after.list) = Meaning(want) /\ after.list = want
    BY <2>2
  <2> HIDE DEF after
  <2> QED
    BY <2>3, <2>4, Zenon DEF own, after
<1> QED
  BY <1>3, <1>4, <1>5, <1>6, Zenon

-----------------------------------------------------------------------------
(* What the client sends, and what the gateway takes, field by field. *)

\* How the client writes the dates it sends.
FormSent(form, c) ==
  CASE c.f = "move" -> c.form
    [] c.f # "move" /\ c.z /\ form # "DATE" -> "UTC"
    [] OTHER -> form

\* What the client sends, field by field.
LEMMA SentIs ==
  ASSUME NEW res \in Sendable, NEW c
  PROVE  LET s == Sent(res, c)
         IN  /\ s.start = IF c.f = "move" THEN c.start ELSE res.start
             /\ s.form = FormSent(res.form, c)
             /\ s.rule = CASE c.f = "once" -> FALSE [] c.f = "repeat" -> TRUE [] OTHER -> res.rule
             /\ s.ex = CASE c.f = "once" -> {} [] c.f = "repeat" -> c.ex [] OTHER -> res.ex
             /\ s.title = IF c.f = "title" THEN c.text ELSE res.title
             /\ s.note = IF c.f = "note" THEN c.text ELSE res.note
             /\ s.status = IF c.f = "status" THEN c.text ELSE res.status
             /\ s.guests = IF c.f = "guests" THEN c.guests ELSE res.guests
             /\ s.alarms = IF c.f = "alarms" THEN c.alarms ELSE res.alarms
<1> DEFINE utc == [res EXCEPT !.form = "UTC"]
           same == IF c.z /\ res.form # "DATE" THEN utc ELSE res
           kind == c.f
           yes == TRUE
           no == FALSE
           never == {}
           was == c.start
           to == c.form
           occs == c.ex
           say == c.text
           who == c.guests
           bells == c.alarms
           s == Sent(res, c)
<1>1. s = CASE kind = "move" -> [res EXCEPT !.start = was, !.form = to]
        [] kind = "once" -> [same EXCEPT !.rule = no, !.ex = never]
        [] kind = "repeat" -> [same EXCEPT !.rule = yes, !.ex = occs]
        [] kind = "title" -> [same EXCEPT !.title = say]
        [] kind = "note" -> [same EXCEPT !.note = say]
        [] kind = "status" -> [same EXCEPT !.status = say]
        [] kind = "guests" -> [same EXCEPT !.guests = who]
        [] kind = "alarms" -> [same EXCEPT !.alarms = bells]
        [] OTHER -> same
  BY Zenon DEF Sent
<1>2. /\ kind # "move" => same.form = FormSent(res.form, c)
      /\ kind = "move" => to = FormSent(res.form, c)
  BY DEF FormSent, Sendable
<1>3. /\ same \in Sendable
      /\ same.start = res.start /\ same.rule = res.rule /\ same.ex = res.ex
      /\ same.title = res.title /\ same.note = res.note /\ same.status = res.status
      /\ same.guests = res.guests /\ same.alarms = res.alarms
  <2>1. same = utc \/ same = res
    BY Zenon
  <2>2. /\ utc \in Sendable
        /\ utc.start = res.start /\ utc.rule = res.rule /\ utc.ex = res.ex
        /\ utc.title = res.title /\ utc.note = res.note /\ utc.status = res.status
        /\ utc.guests = res.guests /\ utc.alarms = res.alarms
    BY DEF Sendable, Forms
  <2> HIDE DEF same, utc
  <2> QED
    BY <2>1, <2>2
<1> DEFINE form == FormSent(res.form, c)
           rule == res.rule
           rule1 == same.rule
<1> HIDE DEF same, kind, yes, no, never, was, to, occs, say, who, bells, s, form
<1> DEFINE Goal ==
          /\ s.start = IF kind = "move" THEN was ELSE res.start
          /\ s.form = form
          /\ s.rule = CASE kind = "once" -> no [] kind = "repeat" -> yes [] OTHER -> rule
          /\ s.ex = CASE kind = "once" -> never [] kind = "repeat" -> occs [] OTHER -> res.ex
          /\ s.title = IF kind = "title" THEN say ELSE res.title
          /\ s.note = IF kind = "note" THEN say ELSE res.note
          /\ s.status = IF kind = "status" THEN say ELSE res.status
          /\ s.guests = IF kind = "guests" THEN who ELSE res.guests
          /\ s.alarms = IF kind = "alarms" THEN bells ELSE res.alarms
<1>4. Goal
  <2>1. CASE kind = "move"
    <3>1. s = [res EXCEPT !.start = was, !.form = to]
      BY <1>1, <2>1
    <3> QED
      BY <3>1, <1>2, <2>1 DEF Sendable, form
  <2>2. CASE kind = "once"
    <3>1. s = [same EXCEPT !.rule = no, !.ex = never]
      BY <1>1, <2>2
    <3> QED
      BY <3>1, <1>2, <1>3, <2>2 DEF Sendable, form
  <2>3. CASE kind = "repeat"
    <3>1. s = [same EXCEPT !.rule = yes, !.ex = occs]
      BY <1>1, <2>3
    <3> QED
      BY <3>1, <1>2, <1>3, <2>3 DEF Sendable, form
  <2>4. CASE kind = "title"
    <3>1. s = [same EXCEPT !.title = say]
      BY <1>1, <2>4
    <3> QED
      BY <3>1, <1>2, <1>3, <2>4 DEF Sendable, form
  <2>5. CASE kind = "note"
    <3>1. s = [same EXCEPT !.note = say]
      BY <1>1, <2>5
    <3> QED
      BY <3>1, <1>2, <1>3, <2>5 DEF Sendable, form
  <2>6. CASE kind = "status"
    <3>1. s = [same EXCEPT !.status = say]
      BY <1>1, <2>6
    <3> QED
      BY <3>1, <1>2, <1>3, <2>6 DEF Sendable, form
  <2>7. CASE kind = "guests"
    <3>1. s = [same EXCEPT !.guests = who]
      BY <1>1, <2>7
    <3> QED
      BY <3>1, <1>2, <1>3, <2>7 DEF Sendable, form
  <2>8. CASE kind = "alarms"
    <3>1. s = [same EXCEPT !.alarms = bells]
      BY <1>1, <2>8
    <3> QED
      BY <3>1, <1>2, <1>3, <2>8 DEF Sendable, form
  <2>9. CASE kind \notin {"move", "once", "repeat", "title", "note", "status", "guests", "alarms"}
    <3>1. s = same
      BY <1>1, <2>9
    <3> QED
      BY <3>1, <1>2, <1>3, <2>9 DEF form
  <2> HIDE DEF Goal
  <2> QED
    BY <2>1, <2>2, <2>3, <2>4, <2>5, <2>6, <2>7, <2>8, <2>9
<1> QED
  BY <1>4, Zenon DEF kind, yes, no, never, was, to, occs, say, who, bells, s, form

\* What the gateway knows of a row it can open.
LEMMA DecryptIs ==
  ASSUME NEW r, Whole(r), ~DecryptFailed(r)
  PROVE  LET at == The(r.signed.DTSTART)
             cur == decryptEvent(r)
         IN  /\ cur.start = at[1]
             /\ cur.day <=> at[2] = "DATE"
             /\ cur.tz = IF at[2] = "DATE" THEN "UTC" ELSE at[2]
             /\ cur.rule <=> r.signed.RRULE # {}
             /\ cur.ex = {Instant(e[1], e[2] = "DATE") : e \in r.signed.EXDATE}
             /\ cur.seq = The(r.signed.SEQUENCE)
             /\ cur.title = TextOf(r.text.lines.SUMMARY)
             /\ cur.note = TextOf(r.text.lines.DESCRIPTION)
             /\ cur.status = TextOf(r.status)
             /\ cur.guests = Listed(r.list.lines)
             /\ cur.alarms = r.alarms.list
<1> DEFINE at == The(r.signed.DTSTART)
           cur == decryptEvent(r)
           text == IF Opens(r, r.text) THEN r.text.lines ELSE NoText
           guests == IF Opens(r, r.list) THEN Listed(r.list.lines) ELSE {}
           start == at[1]
           day == at[2] = "DATE"
           tz == IF at[2] = "DATE" THEN "UTC" ELSE at[2]
           rule == r.signed.RRULE # {}
           ex == {Instant(e[1], e[2] = "DATE") : e \in r.signed.EXDATE}
           organizer == r.signed.ORGANIZER # {}
           seq == The(r.signed.SEQUENCE)
           title == TextOf(text.SUMMARY)
           note == TextOf(text.DESCRIPTION)
           status == TextOf(r.status)
           alarms == r.alarms.list
<1>1. cur = [start |-> start, day |-> day, tz |-> tz, rule |-> rule, ex |-> ex,
             organizer |-> organizer, seq |-> seq, title |-> title, note |-> note,
             status |-> status, guests |-> guests, alarms |-> alarms]
  BY Zenon DEF decryptEvent
<1>2. text = r.text.lines
  BY DEF DecryptFailed
<1>3. guests = Listed(r.list.lines)
  <2> DEFINE all == Listed(r.list.lines)
             open == Opens(r, r.list)
  <2>1. open \/ all = {}
    BY Zenon DEF DecryptFailed
  <2> HIDE DEF all, open
  <2> QED
    BY <2>1, Zenon DEF all, open
<1> DEFINE summary == TextOf(r.text.lines.SUMMARY)
           description == TextOf(r.text.lines.DESCRIPTION)
<1>4. title = summary /\ note = description
  BY <1>2
<1> HIDE DEF cur, start, day, tz, rule, ex, organizer, seq, title, note, status, alarms, guests
<1>5. /\ cur.start = start /\ cur.day = day /\ cur.tz = tz /\ cur.rule = rule /\ cur.ex = ex
      /\ cur.seq = seq /\ cur.title = title /\ cur.note = note /\ cur.status = status
      /\ cur.guests = guests /\ cur.alarms = alarms
  BY <1>1
<1>6. (cur.day <=> at[2] = "DATE") /\ (cur.rule <=> r.signed.RRULE # {})
  BY <1>5, Zenon DEF day, rule
<1>7. cur.title = summary /\ cur.note = description
  BY <1>4, <1>5
<1>8. cur.guests = Listed(r.list.lines)
  BY <1>3, <1>5, Zenon
<1> QED
  BY <1>5, <1>6, <1>7, <1>8, Zenon DEF cur, start, tz, ex, seq, status, alarms

\* The status the gateway takes from a client.
StatusSent(status) == IF status \in {"CONFIRMED", "CANCELLED"} THEN status ELSE ""

\* What the gateway takes from the client, field by field.
LEMMA InputIs ==
  ASSUME NEW base, Whole(base), NEW c \in Changes
  PROVE  LET cur == decryptEvent(base)
             in == Input(base, c)
             form == FormSent(DateForm(cur.tz, cur.day), c)
             day == form = "DATE"
         IN  /\ in.start = IF c.f = "move" THEN c.start ELSE cur.start
             /\ in.day <=> day
             /\ in.tz = IF form \in Zones THEN form ELSE ""
             /\ in.rule = CASE c.f = "once" -> FALSE [] c.f = "repeat" -> TRUE [] OTHER -> cur.rule
             /\ in.ex = {Instant(o, day) : o \in CASE c.f = "once" -> {} [] c.f = "repeat" -> c.ex
                                                    [] OTHER -> {e[1] : e \in cur.ex}}
             /\ in.title = IF c.f = "title" THEN c.text ELSE titleOrDefault(cur.title)
             /\ in.note = IF c.f = "note" THEN c.text ELSE cur.note
             /\ in.status = StatusSent(IF c.f = "status" THEN c.text ELSE cur.status)
             /\ in.guests = IF c.f = "guests" THEN c.guests ELSE cur.guests
             /\ in.alarms = Taking(IF c.f = "alarms" THEN c.alarms
                                   ELSE {Served(n) : n \in cur.alarms}, day)
             /\ in.replace <=> in.guests # cur.guests
<1> DEFINE cur == decryptEvent(base)
           res == eventToVEvent(cur)
           s == Sent(res, c)
           in0 == veventToInput(s)
           replace == in0.guests # cur.guests
           in == Input(base, c)
           form == FormSent(DateForm(cur.tz, cur.day), c)
           day == form = "DATE"
<1>1. cur \in Decrypted /\ res \in Sendable /\ s \in Sendable
  BY DecryptType, ResourceType, SentType
<1> DEFINE form0 == DateForm(cur.tz, cur.day)
           ex0 == {e[1] : e \in cur.ex}
           title0 == titleOrDefault(cur.title)
           alarms0 == {Served(n) : n \in cur.alarms}
<1>2. /\ res.start = cur.start /\ res.form = form0 /\ res.rule = cur.rule /\ res.ex = ex0
      /\ res.title = title0 /\ res.note = cur.note /\ res.status = cur.status
      /\ res.guests = cur.guests /\ res.alarms = alarms0
  <2> HIDE DEF cur, form0, ex0, title0, alarms0
  <2> DEFINE start == cur.start
             rule == cur.rule
             note == cur.note
             status == cur.status
             guests == cur.guests
  <2>1. res = [start |-> start, form |-> form0, rule |-> rule, ex |-> ex0, title |-> title0,
               note |-> note, status |-> status, guests |-> guests, alarms |-> alarms0]
    BY Zenon DEF eventToVEvent, form0, ex0, title0, alarms0
  <2> HIDE DEF res, start, rule, note, status, guests
  <2>2. /\ res.start = start /\ res.form = form0 /\ res.rule = rule /\ res.ex = ex0
        /\ res.title = title0 /\ res.note = note /\ res.status = status
        /\ res.guests = guests /\ res.alarms = alarms0
    BY <2>1
  <2> QED
    BY <2>2, Zenon DEF start, rule, note, status, guests
<1> HIDE DEF res, form0, ex0, title0, alarms0
<1> DEFINE rule1 == CASE c.f = "once" -> FALSE [] c.f = "repeat" -> TRUE [] OTHER -> cur.rule
           ex1 == CASE c.f = "once" -> {} [] c.f = "repeat" -> c.ex [] OTHER -> ex0
           alarms1 == IF c.f = "alarms" THEN c.alarms ELSE alarms0
           status1 == IF c.f = "status" THEN c.text ELSE cur.status
           note1 == IF c.f = "note" THEN c.text ELSE cur.note
           title1 == IF c.f = "title" THEN c.text ELSE title0
           guests1 == IF c.f = "guests" THEN c.guests ELSE cur.guests
           start1 == IF c.f = "move" THEN c.start ELSE cur.start
<1>3. /\ s.start = start1 /\ s.form = form /\ s.title = title1 /\ s.note = note1
      /\ s.status = status1 /\ s.guests = guests1 /\ s.alarms = alarms1
      /\ s.rule = rule1 /\ s.ex = ex1
  <2>1. /\ s.start = IF c.f = "move" THEN c.start ELSE res.start
        /\ s.form = FormSent(res.form, c)
        /\ s.rule = CASE c.f = "once" -> FALSE [] c.f = "repeat" -> TRUE [] OTHER -> res.rule
        /\ s.ex = CASE c.f = "once" -> {} [] c.f = "repeat" -> c.ex [] OTHER -> res.ex
        /\ s.title = IF c.f = "title" THEN c.text ELSE res.title
        /\ s.note = IF c.f = "note" THEN c.text ELSE res.note
        /\ s.status = IF c.f = "status" THEN c.text ELSE res.status
        /\ s.guests = IF c.f = "guests" THEN c.guests ELSE res.guests
        /\ s.alarms = IF c.f = "alarms" THEN c.alarms ELSE res.alarms
    BY <1>1, SentIs
  <2> HIDE DEF s, cur
  <2> QED
    BY <2>1, <1>2, Zenon DEF form0
<1> HIDE DEF s, start1, rule1, ex1, title1, note1, status1, guests1, alarms1
<1> DEFINE tz == IF form \in Zones THEN form ELSE ""
           ex == {Instant(o, day) : o \in ex1}
           status == StatusSent(status1)
           alarms == Taking(alarms1, day)
           start == s.start
           rule == s.rule
           title == s.title
           note == s.note
           guests == s.guests
           no == FALSE
<1> DEFINE form2 == s.form
           day2 == form2 = "DATE"
           tz2 == IF form2 \in Zones THEN form2 ELSE ""
           ex2 == {Instant(o, day2) : o \in s.ex}
           status2 == StatusSent(s.status)
           alarms2 == Taking(s.alarms, day2)
<1>4. in0 = [replace |-> no, start |-> start, day |-> day2, tz |-> tz2, rule |-> rule,
            ex |-> ex2, title |-> title, note |-> note, status |-> status2,
            guests |-> guests, alarms |-> alarms2]
  BY Zenon DEF veventToInput, StatusSent, Taking
<1>5. form2 = form /\ s.ex = ex1 /\ s.status = status1 /\ s.alarms = alarms1
  BY <1>3
<1> HIDE DEF form, form2
<1>6. day2 = day /\ tz2 = tz /\ ex2 = ex /\ status2 = status /\ alarms2 = alarms
  BY <1>5, Zenon
<1>7. in0 = [replace |-> no, start |-> start, day |-> day, tz |-> tz, rule |-> rule,
             ex |-> ex, title |-> title, note |-> note, status |-> status,
             guests |-> guests, alarms |-> alarms]
  <2> HIDE DEF day, tz, ex, status, alarms, day2, tz2, ex2, status2, alarms2, start, rule, title,
       note, guests, no, in0
  <2> QED
    BY <1>4, <1>6, Zenon
<1>8. in = [in0 EXCEPT !.replace = replace]
  BY DEF Input, s, res
<1>9. in0.guests = guests
  <2> HIDE DEF day, tz, ex, status, alarms, start, rule, title, note, guests, no, in0
  <2> QED
    BY <1>7
<1> HIDE DEF day, tz, ex, status, alarms, start, rule, title, note, guests, no, in0, replace, in
<1>10. /\ in.start = start /\ in.day = day /\ in.tz = tz /\ in.rule = rule /\ in.ex = ex
       /\ in.title = title /\ in.note = note /\ in.status = status /\ in.guests = guests
       /\ in.alarms = alarms /\ in.replace = replace
  BY <1>7, <1>8
<1>11. in.replace <=> in.guests # cur.guests
  BY <1>9, <1>10, Zenon DEF replace
<1>12. (in.day <=> day) /\ in.rule = rule1
  BY <1>3, <1>10, Zenon DEF rule
<1>13. in.start = start1 /\ in.title = title1 /\ in.note = note1 /\ in.guests = guests1
  BY <1>3, <1>10 DEF start, title, note, guests
<1> QED
  BY <1>10, <1>11, <1>12, <1>13, Zenon
     DEF form, day, tz, ex, status, alarms, in, start1, rule1, ex1, title1, note1, status1, guests1, alarms1,
         ex0, title0, alarms0

-----------------------------------------------------------------------------
(* The row after an update, and what all see of it. *)

\* The row after an update, line by line.
LEMMA UpdatedIs ==
  ASSUME NEW r, Whole(r), NEW in
  PROVE  LET cur == decryptEvent(r)
             q == Updated(r, in)
             form == DateForm(writeTZ(in.tz, cur.tz), in.day)
             change == GuestsChange(cur, in)
             status == statusOrDefault(in.status)
         IN  /\ q.packet = r.packet /\ q.text.key = r.packet.key /\ q.list.key = r.packet.key
             /\ q.signed.DTSTART = IF BoundsMove(cur, in) THEN {<<in.start, form>>}
                                   ELSE r.signed.DTSTART
             /\ q.signed.RRULE = IF in.rule # cur.rule THEN (IF in.rule THEN {"rule"} ELSE {})
                                 ELSE r.signed.RRULE
             /\ q.signed.EXDATE = IF ExdatesChange(cur, in) \/ ExdatesOrphaned(cur, in)
                                  THEN (IF in.rule THEN {<<e[1], form>> : e \in in.ex} ELSE {})
                                  ELSE r.signed.EXDATE
             /\ q.signed.ORGANIZER = IF change THEN (IF in.guests # {} THEN {"me"} ELSE {})
                                     ELSE r.signed.ORGANIZER
             /\ q.signed.SEQUENCE = IF Structural(cur, in) THEN {cur.seq + 1} ELSE r.signed.SEQUENCE
             /\ q.signed.X = r.signed.X
             /\ q.text.lines.SUMMARY = IF in.title # cur.title THEN Lines(in.title)
                                       ELSE r.text.lines.SUMMARY
             /\ q.text.lines.DESCRIPTION = IF in.note # cur.note THEN Lines(in.note)
                                           ELSE r.text.lines.DESCRIPTION
             /\ q.text.lines.X = r.text.lines.X
             /\ q.list.lines = IF change THEN KeptLines(r, in) ELSE r.list.lines
             /\ q.rsvp = IF change THEN KeptAnswers(r, in) ELSE r.rsvp
             /\ q.status = IF status # statusOrDefault(cur.status) THEN {status} ELSE r.status
             /\ q.alarms = notificationsPayload(r.alarms, in.alarms)
             /\ q.split = r.split
<1> DEFINE cur == decryptEvent(r)
           q == Updated(r, in)
           form == DateForm(writeTZ(in.tz, cur.tz), in.day)
           change == GuestsChange(cur, in)
           status == statusOrDefault(in.status)
           signed == patchCard(r.signed, SignedPatch(cur, in))
           words == patchCard(r.text.lines, TextPatch(cur, in))
           lines == IF change THEN KeptLines(r, in) ELSE r.list.lines
           answers == IF change THEN KeptAnswers(r, in) ELSE r.rsvp
           column == IF status # statusOrDefault(cur.status) THEN {status} ELSE r.status
           alarms == notificationsPayload(r.alarms, in.alarms)
           key == r.packet.key
           packet == r.packet
           split == r.split
           dtstart == IF BoundsMove(cur, in) THEN {<<in.start, form>>} ELSE r.signed.DTSTART
           rrule == IF in.rule # cur.rule THEN (IF in.rule THEN {"rule"} ELSE {})
                    ELSE r.signed.RRULE
           exdate == IF ExdatesChange(cur, in) \/ ExdatesOrphaned(cur, in)
                     THEN (IF in.rule THEN {<<e[1], form>> : e \in in.ex} ELSE {})
                     ELSE r.signed.EXDATE
           organizer == IF change THEN (IF in.guests # {} THEN {"me"} ELSE {})
                        ELSE r.signed.ORGANIZER
           sequence == IF Structural(cur, in) THEN {cur.seq + 1} ELSE r.signed.SEQUENCE
           x == r.signed.X
           summary == IF in.title # cur.title THEN Lines(in.title) ELSE r.text.lines.SUMMARY
           description == IF in.note # cur.note THEN Lines(in.note) ELSE r.text.lines.DESCRIPTION
           tx == r.text.lines.X
<1>1. q = RowOf(packet, signed, key, words, key, lines, split, answers, column, alarms)
  BY UpdatedAfter, Zenon
<1>2. signed = [DTSTART |-> dtstart, RRULE |-> rrule, EXDATE |-> exdate, ORGANIZER |-> organizer,
                SEQUENCE |-> sequence, X |-> x]
  BY SignedAfter, Zenon
<1>3. words = [SUMMARY |-> summary, DESCRIPTION |-> description, X |-> tx]
  BY TextAfter, Zenon
<1> HIDE DEF q, signed, words, lines, answers, column, alarms, key, packet, split
<1>4. /\ q.packet = packet /\ q.text.key = key /\ q.list.key = key /\ q.signed = signed
      /\ q.text.lines = words /\ q.list.lines = lines /\ q.split = split /\ q.rsvp = answers
      /\ q.status = column /\ q.alarms = alarms
  BY <1>1 DEF RowOf
<1> HIDE DEF dtstart, rrule, exdate, organizer, sequence, x, summary, description, tx
<1>5. /\ signed.DTSTART = dtstart /\ signed.RRULE = rrule /\ signed.EXDATE = exdate
      /\ signed.ORGANIZER = organizer /\ signed.SEQUENCE = sequence /\ signed.X = x
  BY <1>2
<1>6. words.SUMMARY = summary /\ words.DESCRIPTION = description /\ words.X = tx
  BY <1>3
<1>7. /\ q.signed.DTSTART = dtstart /\ q.signed.RRULE = rrule /\ q.signed.EXDATE = exdate
      /\ q.signed.ORGANIZER = organizer /\ q.signed.SEQUENCE = sequence /\ q.signed.X = x
      /\ q.text.lines.SUMMARY = summary /\ q.text.lines.DESCRIPTION = description
      /\ q.text.lines.X = tx
  BY <1>4, <1>5, <1>6
<1> QED
  BY <1>4, <1>7, Zenon
     DEF dtstart, rrule, exdate, organizer, sequence, x, summary, description, tx, q, lines,
         answers, column, alarms, key, packet, split

\* What the gateway knows of a row is what all see of it.
LEMMA Known ==
  ASSUME NEW r, Whole(r), ~DecryptFailed(r)
  PROVE  LET cur == decryptEvent(r)
             e == View(r)
         IN  /\ cur.start = e.start
             /\ cur.day <=> e.form = "DATE"
             /\ cur.day \in BOOLEAN
             /\ e.form = DateForm(cur.tz, cur.day)
             /\ cur.rule <=> e.rule
             /\ cur.rule \in BOOLEAN /\ e.rule \in BOOLEAN
             /\ e.ex = {o[1] : o \in cur.ex}
             /\ \A o \in cur.ex : o = Instant(o[1], cur.day)
             /\ ~cur.rule => e.ex = {}
             /\ cur.seq = e.seq
             /\ e.title = titleOrDefault(cur.title)
             /\ e.note = cur.note
             /\ e.status = statusOrDefault(cur.status)
             /\ cur.guests = Listed(e.lines)
             /\ e.rings = Meaning(cur.alarms)
             /\ cur.alarms = r.alarms.list
<1> DEFINE at == The(r.signed.DTSTART)
           cur == decryptEvent(r)
           e == View(r)
<1>1. /\ cur.start = at[1]
      /\ cur.day <=> at[2] = "DATE"
      /\ cur.tz = IF at[2] = "DATE" THEN "UTC" ELSE at[2]
      /\ cur.rule <=> r.signed.RRULE # {}
      /\ cur.ex = {Instant(o[1], o[2] = "DATE") : o \in r.signed.EXDATE}
      /\ cur.seq = The(r.signed.SEQUENCE)
      /\ cur.title = TextOf(r.text.lines.SUMMARY)
      /\ cur.note = TextOf(r.text.lines.DESCRIPTION)
      /\ cur.status = TextOf(r.status)
      /\ cur.guests = Listed(r.list.lines)
      /\ cur.alarms = r.alarms.list
  BY DecryptIs
<1>2. /\ e.start = at[1]
      /\ e.form = IF at[2] = "odd" THEN "UTC" ELSE at[2]
      /\ e.rule = (r.signed.RRULE # {})
      /\ e.ex = {o[1] : o \in r.signed.EXDATE}
      /\ e.seq = The(r.signed.SEQUENCE)
      /\ e.title = titleOrDefault(TextOf(r.text.lines.SUMMARY))
      /\ e.note = TextOf(r.text.lines.DESCRIPTION)
      /\ e.status = statusOrDefault(TextOf(r.status))
      /\ e.lines = r.list.lines
      /\ e.rings = Meaning(r.alarms.list)
  BY ViewIs
<1>3. at[1] \in Starts /\ at[2] \in Forms /\ r.signed.DTSTART = {at}
  BY OneStart
<1>4. cur.day \in BOOLEAN /\ cur.rule \in BOOLEAN
  BY DecryptType DEF Decrypted
<1>5. /\ r.signed.RRULE = {} => r.signed.EXDATE = {}
      /\ \A d \in r.signed.DTSTART, o \in r.signed.EXDATE :
           Instant(o[1], o[2] = "DATE") = Instant(o[1], d[2] = "DATE")
  BY DEF Whole, Legible, Matches
<1> DEFINE some == r.signed.RRULE # {}
<1>6. e.rule \in BOOLEAN /\ (e.rule <=> some)
  <2>1. some \in BOOLEAN
    OBVIOUS
  <2>2. e.rule = some
    BY ViewIs, Zenon
  <2> HIDE DEF some, e
  <2> QED
    BY <2>1, <2>2
<1> HIDE DEF at, cur, e
<1>7. (cur.day <=> e.form = "DATE") /\ e.form = DateForm(cur.tz, cur.day)
  <2>1. at[2] \in Zones \/ at[2] \in {"UTC", "DATE", "odd"}
    BY <1>3 DEF Forms
  <2>2. "UTC" \notin Zones /\ "DATE" \notin Zones /\ "odd" \notin Zones
    BY NamesAssumption
  <2>3. CASE at[2] = "DATE"
    BY <1>1, <1>2, <2>3 DEF DateForm
  <2>4. CASE at[2] = "UTC"
    BY <1>1, <1>2, <2>2, <2>4 DEF DateForm
  <2>5. CASE at[2] = "odd"
    BY <1>1, <1>2, <2>2, <2>5 DEF DateForm
  <2>6. CASE at[2] \in Zones
    <3>1. at[2] # "DATE" /\ at[2] # "odd"
      BY <2>2, <2>6
    <3>2. cur.tz = at[2] /\ e.form = at[2] /\ ~cur.day
      BY <3>1, <1>1, <1>2
    <3> QED
      BY <3>1, <3>2, <2>6 DEF DateForm
  <2> QED
    BY <2>1, <2>3, <2>4, <2>5, <2>6
<1>8. /\ e.ex = {o[1] : o \in cur.ex}
      /\ \A o \in cur.ex : o = Instant(o[1], cur.day)
  <2> DEFINE ex == r.signed.EXDATE
             F(o) == Instant(o[1], o[2] = "DATE")
  <2>1. \A o \in ex : F(o) = Instant(o[1], cur.day)
    <3> SUFFICES ASSUME NEW o \in ex
                 PROVE  F(o) = Instant(o[1], cur.day)
      OBVIOUS
    <3>1. at \in r.signed.DTSTART
      BY <1>3
    <3> DEFINE of == at[2] = "DATE"
    <3>2. F(o) = Instant(o[1], of)
      BY <3>1, <1>5
    <3>3. of = cur.day
      BY <1>1, <1>4
    <3> HIDE DEF of, F, ex
    <3> QED
      BY <3>2, <3>3
  <2>2. \A o \in ex : F(o) = Instant(o[1], cur.day) /\ F(o)[1] = o[1]
    <3> SUFFICES ASSUME NEW o \in ex
                 PROVE  F(o) = Instant(o[1], cur.day) /\ F(o)[1] = o[1]
      OBVIOUS
    <3>1. F(o)[1] = o[1]
      BY DEF Instant
    <3> QED
      BY <2>1, <3>1
  <2>3. cur.ex = {F(o) : o \in ex} /\ e.ex = {o[1] : o \in ex}
    BY <1>1, <1>2, Zenon
  <2> HIDE DEF ex, F
  <2>4. e.ex = {o[1] : o \in cur.ex}
    BY <2>2, <2>3
  <2>5. \A o \in cur.ex : o = Instant(o[1], cur.day)
    BY <2>2, <2>3
  <2> QED
    BY <2>4, <2>5
<1>9. ~cur.rule => e.ex = {}
  BY <1>1, <1>2, <1>5
<1> QED
  BY <1>1, <1>2, <1>4, <1>6, <1>7, <1>8, <1>9, Zenon DEF at, cur, e

\* Describes, part by part.
LEMMA DescribesParts ==
  ASSUME NEW r, NEW in, NEW c, Describes(r, in, c)
  PROVE  LET e == View(r)
             cur == decryptEvent(r)
         IN  /\ in.start = StartAfter(e, c)
             /\ in.day <=> FormOf(e, c) = "DATE"
             /\ FormOf(e, c) = IF BoundsMove(cur, in) THEN DateForm(writeTZ(in.tz, cur.tz), in.day) ELSE e.form
             /\ in.rule <=> RuleAfter(e, c)
             /\ ExAfter(e, c) = IF in.rule THEN {o[1] : o \in in.ex} ELSE {}
             /\ titleOrDefault(in.title) = TitleAfter(e, c)
             /\ in.note = NoteAfter(e, c)
             /\ statusOrDefault(in.status) = StatusAfter(e, c)
             /\ Meaning(in.alarms) = RingsAfter(e, c)
             /\ OwnAfter(e, c) <=> e.own \/ in.alarms # {}
             /\ GuestsChange(cur, in) => c.f = "guests" /\ in.guests = c.guests
             /\ c.f = "guests" /\ ~GuestsChange(cur, in) => c.guests = Listed(r.list.lines)
             /\ \A n \in in.alarms : Settled(n, in.day)
BY Zenon DEF Describes

\* What the gateway takes in, part by part.
LEMMA TakenParts ==
  ASSUME NEW in \in Taken, SameType(in)
  PROVE  /\ in.day \in BOOLEAN /\ in.rule \in BOOLEAN /\ in.guests \subseteq Guests
         /\ in.alarms \subseteq Reminders /\ in.start \in Starts
         /\ \A o \in in.ex : o = Instant(o[1], in.day)
BY DEF Taken, SameType

\* Who is listed after a change.
\* Who is invited after a change.
LEMMA ListedAfter ==
  ASSUME NEW e, e.lines \in GuestLines, NEW c
  PROVE  Listed(LinesAfter(e, c)) = IF c.f = "guests" THEN Guests \cap c.guests ELSE Listed(e.lines)
BY DEF Listed, LinesAfter, GuestLines

\* SEQUENCE is raised when the schedule is another one, and only then.
LEMMA RaisedWhen ==
  ASSUME NEW r, Whole(r), ~DecryptFailed(r), NEW in \in Taken, SameType(in), NEW c,
         Describes(r, in, c)
  PROVE  Structural(decryptEvent(r), in) <=> PlanAfter(View(r), c) # Schedule(View(r))
<1> DEFINE e == View(r)
           cur == decryptEvent(r)
           form == FormOf(e, c)
           rule == RuleAfter(e, c)
           ex == ExAfter(e, c)
           start == StartAfter(e, c)
           listed == Listed(LinesAfter(e, c))
           was == Listed(e.lines)
           change == GuestsChange(cur, in)
<1>1. /\ cur.start = e.start
      /\ cur.day <=> e.form = "DATE"
      /\ cur.day \in BOOLEAN
      /\ cur.rule <=> e.rule
      /\ cur.rule \in BOOLEAN /\ e.rule \in BOOLEAN
      /\ e.ex = {o[1] : o \in cur.ex}
      /\ \A o \in cur.ex : o = Instant(o[1], cur.day)
      /\ ~cur.rule => e.ex = {}
      /\ cur.guests = was
  BY Known
<1>2. /\ in.start = start
      /\ in.day <=> form = "DATE"
      /\ ~BoundsMove(cur, in) => form = e.form
      /\ in.rule <=> rule
      /\ ex = IF in.rule THEN {o[1] : o \in in.ex} ELSE {}
      /\ change => c.f = "guests" /\ in.guests = c.guests
      /\ c.f = "guests" /\ ~change => c.guests = Listed(r.list.lines)
  BY DescribesParts
<1>3. /\ in.day \in BOOLEAN /\ in.rule \in BOOLEAN /\ in.guests \subseteq Guests
      /\ \A o \in in.ex : o = Instant(o[1], in.day)
  BY TakenParts
<1>4. rule \in BOOLEAN
  BY <1>1 DEF RuleAfter
<1>5. e.lines = r.list.lines /\ e.lines \in GuestLines
  BY ViewIs, WholeParts
<1>6. listed = IF c.f = "guests" THEN Guests \cap c.guests ELSE was
  BY <1>5, ListedAfter
<1>7. PlanAfter(e, c) = <<start, form, rule, ex, listed>> /\ Schedule(e) = <<e.start, e.form, e.rule, e.ex, was>>
  BY Zenon DEF PlanAfter, Schedule
<1> HIDE DEF e, cur, form, rule, ex, start, listed, was
<1>8. PlanAfter(e, c) = Schedule(e) <=>
        start = e.start /\ form = e.form /\ rule = e.rule /\ ex = e.ex /\ listed = was
  BY <1>7
<1>9. BoundsMove(cur, in) <=> in.start # cur.start \/ in.day # cur.day
  BY Zenon DEF BoundsMove
<1>10. BoundsMove(cur, in) <=> start # e.start \/ form # e.form
  <2>1. CASE BoundsMove(cur, in)
    BY <1>1, <1>2, <1>3, <1>9, <2>1
  <2>2. CASE ~BoundsMove(cur, in)
    BY <1>1, <1>2, <1>9, <2>2
  <2> QED
    BY <2>1, <2>2
<1>11. in.rule # cur.rule <=> rule # e.rule
  BY <1>1, <1>2, <1>3, <1>4
<1>12. change <=> listed # was
  <2>1. CASE change
    <3>1. in.guests # cur.guests
      BY <2>1 DEF GuestsChange
    <3> QED
      BY <3>1, <2>1, <1>1, <1>2, <1>3, <1>6
  <2>2. CASE ~change
    <3>1. was \subseteq Guests
      BY DEF was, Listed
    <3>2. was = Listed(r.list.lines)
      BY <1>5 DEF was
    <3> QED
      BY <3>1, <3>2, <2>2, <1>2, <1>6
  <2> QED
    BY <2>1, <2>2
<1>13. ASSUME ~BoundsMove(cur, in), in.rule = cur.rule
       PROVE  ExdatesChange(cur, in) <=> ex # e.ex
  <2>1. in.day = cur.day
    BY <1>9, <1>13
  <2>2. CASE in.rule
    <3>1. ExdatesChange(cur, in) <=> in.ex # cur.ex
      BY <2>2, Zenon DEF ExdatesChange
    <3>2. ex = {o[1] : o \in in.ex} /\ e.ex = {o[1] : o \in cur.ex}
      BY <1>1, <1>2, <2>2
    <3>3. in.ex = {Instant(k, in.day) : k \in ex} /\ cur.ex = {Instant(k, in.day) : k \in e.ex}
      BY <3>2, <2>1, <1>1, <1>3
    <3> QED
      BY <3>1, <3>2, <3>3
  <2>3. CASE ~in.rule
    BY <2>3, <1>1, <1>2, <1>13 DEF ExdatesChange
  <2> QED
    BY <2>2, <2>3
<1>14. Structural(cur, in) <=>
         BoundsMove(cur, in) \/ in.rule # cur.rule \/ ExdatesChange(cur, in) \/ change
  BY Zenon DEF Structural
<1>15. Structural(cur, in) <=> PlanAfter(e, c) # Schedule(e)
  <2> HIDE DEF change
  <2> QED
    BY <1>8, <1>10, <1>11, <1>12, <1>13, <1>14
<1> QED
  BY <1>15 DEF e, cur

\* The parts of a whole row that all see.
LEMMA EventParts ==
  ASSUME NEW r, Whole(r)
  PROVE  LET e == View(r)
         IN  /\ e.lines \in GuestLines /\ e.lines = r.list.lines
             /\ e.rsvp = r.rsvp /\ r.rsvp \subseteq Listed(r.list.lines)
             /\ e.own = r.alarms.own /\ r.alarms.own \in BOOLEAN
             /\ (e.organizer <=> r.signed.ORGANIZER # {}) /\ e.organizer \in BOOLEAN
             /\ e.seq \in Nat /\ ColumnWhole(r.alarms)
             /\ ~r.alarms.own => r.alarms.list = {}
             /\ r.alarms.list \subseteq Reminders
<1> DEFINE some == r.signed.ORGANIZER # {}
           e == View(r)
<1>1. e.organizer = some
  BY ViewIs, Zenon
<1>2. some \in BOOLEAN
  OBVIOUS
<1>3. e.lines = r.list.lines /\ e.rsvp = r.rsvp /\ e.own = r.alarms.own
  BY ViewIs
<1>4. e.seq \in Nat
  BY ViewIs, OneSequence
<1>5. r.list.lines \in GuestLines /\ r.alarms \in Columns
  BY WholeParts
<1>6. r.rsvp \subseteq Listed(r.list.lines) /\ (~r.alarms.own => r.alarms.list = {})
  BY DEF Whole, Legible
<1>7. r.alarms.own \in BOOLEAN /\ r.alarms.list \subseteq Reminders
  BY <1>5 DEF Columns
<1>8. ColumnWhole(r.alarms)
  BY <1>5, <1>6 DEF ColumnWhole
<1> HIDE DEF some, e
<1>9. (e.organizer <=> some) /\ e.organizer \in BOOLEAN
  BY <1>1, <1>2
<1> QED
  BY <1>3, <1>4, <1>5, <1>6, <1>7, <1>8, <1>9, Zenon DEF some, e

\* No date is written in a zone nobody knows.
LEMMA NotOdd ==
  ASSUME NEW tz, NEW day \in BOOLEAN
  PROVE  DateForm(tz, day) # "odd"
BY DateFormType DEF ClientForms

\* What a row shows after an update, in terms of what the gateway takes in.
LEMMA UpdatedShows ==
  ASSUME NEW r, Whole(r), ~DecryptFailed(r), NEW in \in Taken, SameType(in)
  PROVE  LET e == View(r)
             cur == decryptEvent(r)
             v == View(Updated(r, in))
             change == GuestsChange(cur, in)
         IN  /\ v.start = in.start
             /\ v.form = IF BoundsMove(cur, in) THEN DateForm(writeTZ(in.tz, cur.tz), in.day) ELSE e.form
             /\ v.rule \in BOOLEAN /\ (v.rule <=> in.rule)
             /\ v.ex = IF in.rule THEN {o[1] : o \in in.ex} ELSE {}
             /\ v.organizer \in BOOLEAN
             /\ v.organizer <=> IF change THEN in.guests # {} ELSE e.organizer
             /\ v.seq = IF Structural(cur, in) THEN e.seq + 1 ELSE e.seq
             /\ v.title = titleOrDefault(in.title)
             /\ v.note = in.note
             /\ v.status = statusOrDefault(in.status)
             /\ v.lines = IF change THEN KeptLines(r, in) ELSE e.lines
             /\ v.rsvp = IF change THEN KeptAnswers(r, in) ELSE e.rsvp
             /\ v.own \in BOOLEAN /\ (v.own <=> e.own \/ in.alarms # {})
             /\ v.rings = Meaning(in.alarms)
             /\ v.x = e.x
<1> DEFINE e == View(r)
           cur == decryptEvent(r)
           q == Updated(r, in)
           v == View(q)
           form == DateForm(writeTZ(in.tz, cur.tz), in.day)
           change == GuestsChange(cur, in)
           moves == BoundsMove(cur, in)
           status == statusOrDefault(in.status)
           at == The(r.signed.DTSTART)
           to == The(q.signed.DTSTART)
<1>1. /\ cur.start = e.start
      /\ cur.day \in BOOLEAN
      /\ cur.rule <=> e.rule
      /\ cur.rule \in BOOLEAN
      /\ e.ex = {o[1] : o \in cur.ex}
      /\ ~cur.rule => e.ex = {}
      /\ cur.seq = e.seq
      /\ e.status = statusOrDefault(cur.status)
  BY Known
<1>2. /\ cur.title = TextOf(r.text.lines.SUMMARY)
      /\ cur.note = TextOf(r.text.lines.DESCRIPTION)
      /\ cur.status = TextOf(r.status)
      /\ cur.rule <=> r.signed.RRULE # {}
  BY DecryptIs
<1>3. /\ q.signed.DTSTART = IF moves THEN {<<in.start, form>>} ELSE r.signed.DTSTART
      /\ q.signed.RRULE = IF in.rule # cur.rule THEN (IF in.rule THEN {"rule"} ELSE {})
                          ELSE r.signed.RRULE
      /\ q.signed.EXDATE = IF ExdatesChange(cur, in) \/ ExdatesOrphaned(cur, in)
                           THEN (IF in.rule THEN {<<o[1], form>> : o \in in.ex} ELSE {})
                           ELSE r.signed.EXDATE
      /\ q.signed.ORGANIZER = IF change THEN (IF in.guests # {} THEN {"me"} ELSE {})
                              ELSE r.signed.ORGANIZER
      /\ q.signed.SEQUENCE = IF Structural(cur, in) THEN {cur.seq + 1} ELSE r.signed.SEQUENCE
      /\ q.signed.X = r.signed.X
      /\ q.text.lines.SUMMARY = IF in.title # cur.title THEN Lines(in.title)
                                ELSE r.text.lines.SUMMARY
      /\ q.text.lines.DESCRIPTION = IF in.note # cur.note THEN Lines(in.note)
                                    ELSE r.text.lines.DESCRIPTION
      /\ q.text.lines.X = r.text.lines.X
      /\ q.list.lines = IF change THEN KeptLines(r, in) ELSE r.list.lines
      /\ q.rsvp = IF change THEN KeptAnswers(r, in) ELSE r.rsvp
      /\ q.status = IF status # statusOrDefault(cur.status) THEN {status} ELSE r.status
      /\ q.alarms = notificationsPayload(r.alarms, in.alarms)
  <2>1. /\ q.signed.DTSTART = IF moves THEN {<<in.start, form>>} ELSE r.signed.DTSTART
        /\ q.signed.RRULE = IF in.rule # cur.rule THEN (IF in.rule THEN {"rule"} ELSE {})
                            ELSE r.signed.RRULE
        /\ q.signed.EXDATE = IF ExdatesChange(cur, in) \/ ExdatesOrphaned(cur, in)
                             THEN (IF in.rule THEN {<<o[1], form>> : o \in in.ex} ELSE {})
                             ELSE r.signed.EXDATE
    BY UpdatedIs, Zenon
  <2>2. /\ q.signed.ORGANIZER = IF change THEN (IF in.guests # {} THEN {"me"} ELSE {})
                                ELSE r.signed.ORGANIZER
        /\ q.signed.SEQUENCE = IF Structural(cur, in) THEN {cur.seq + 1} ELSE r.signed.SEQUENCE
        /\ q.signed.X = r.signed.X
    BY UpdatedIs, Zenon
  <2>3. /\ q.text.lines.SUMMARY = IF in.title # cur.title THEN Lines(in.title)
                                  ELSE r.text.lines.SUMMARY
        /\ q.text.lines.DESCRIPTION = IF in.note # cur.note THEN Lines(in.note)
                                      ELSE r.text.lines.DESCRIPTION
        /\ q.text.lines.X = r.text.lines.X
    BY UpdatedIs, Zenon
  <2>4. /\ q.list.lines = IF change THEN KeptLines(r, in) ELSE r.list.lines
        /\ q.rsvp = IF change THEN KeptAnswers(r, in) ELSE r.rsvp
        /\ q.status = IF status # statusOrDefault(cur.status) THEN {status} ELSE r.status
        /\ q.alarms = notificationsPayload(r.alarms, in.alarms)
    BY UpdatedIs, Zenon
  <2> HIDE DEF q, cur, form, change, moves, status
  <2> QED
    BY <2>1, <2>2, <2>3, <2>4, Zenon
<1>4. Whole(q)
  BY UpdatedWhole
<1>5. /\ v.start = to[1]
      /\ v.form = IF to[2] = "odd" THEN "UTC" ELSE to[2]
      /\ v.ex = {o[1] : o \in q.signed.EXDATE}
      /\ v.seq = The(q.signed.SEQUENCE)
      /\ v.title = titleOrDefault(TextOf(q.text.lines.SUMMARY))
      /\ v.note = TextOf(q.text.lines.DESCRIPTION)
      /\ v.status = statusOrDefault(TextOf(q.status))
      /\ v.rings = Meaning(q.alarms.list)
      /\ v.x = <<q.signed.X, q.text.lines.X>>
  BY ViewIs
<1>6. /\ e.start = at[1]
      /\ e.form = IF at[2] = "odd" THEN "UTC" ELSE at[2]
      /\ e.ex = {o[1] : o \in r.signed.EXDATE}
      /\ e.seq = The(r.signed.SEQUENCE)
      /\ e.x = <<r.signed.X, r.text.lines.X>>
  BY ViewIs
<1>7. in.day \in BOOLEAN /\ in.rule \in BOOLEAN /\ in.alarms \subseteq Reminders
  BY TakenParts
<1>8. /\ v.lines = q.list.lines /\ v.rsvp = q.rsvp /\ v.own = q.alarms.own /\ v.own \in BOOLEAN
      /\ (v.organizer <=> q.signed.ORGANIZER # {}) /\ v.organizer \in BOOLEAN
  BY <1>4, EventParts
<1>9. /\ e.lines = r.list.lines /\ e.rsvp = r.rsvp /\ e.own = r.alarms.own
      /\ (e.organizer <=> r.signed.ORGANIZER # {}) /\ e.seq \in Nat /\ ColumnWhole(r.alarms)
  BY EventParts
<1>10. v.rule \in BOOLEAN /\ (v.rule <=> q.signed.RRULE # {})
  <2> DEFINE some == q.signed.RRULE # {}
  <2>1. v.rule = some
    BY ViewIs, Zenon
  <2>2. some \in BOOLEAN
    OBVIOUS
  <2> HIDE DEF some, v, q
  <2>3. v.rule \in BOOLEAN /\ (v.rule <=> some)
    BY <2>1, <2>2
  <2> QED
    BY <2>3 DEF some
<1> HIDE DEF e, v, form, change, moves, at, status
<1>11. v.start = in.start /\ v.form = IF moves THEN form ELSE e.form
  <2>1. CASE moves
    <3>1. to = <<in.start, form>>
      BY <2>1, <1>3, TheOne
    <3>2. form # "odd"
      BY <1>7, NotOdd DEF form
    <3> QED
      BY <3>1, <3>2, <2>1, <1>5
  <2>2. CASE ~moves
    <3>1. to = at
      BY <2>2, <1>3 DEF at
    <3>2. in.start = cur.start
      BY <2>2 DEF moves, BoundsMove
    <3> QED
      BY <3>1, <3>2, <2>2, <1>1, <1>5, <1>6
  <2> QED
    BY <2>1, <2>2
<1>12. v.rule <=> in.rule
  <2> HIDE DEF cur, q
  <2>1. CASE in.rule # cur.rule
    BY <2>1, <1>3, <1>10
  <2>2. CASE in.rule = cur.rule
    BY <2>2, <1>2, <1>3, <1>10
  <2> QED
    BY <2>1, <2>2
<1>13. v.ex = IF in.rule THEN {o[1] : o \in in.ex} ELSE {}
  <2> DEFINE changed == ExdatesChange(cur, in) \/ ExdatesOrphaned(cur, in)
  <2>1. CASE changed /\ in.rule
    <3>1. q.signed.EXDATE = {<<o[1], form>> : o \in in.ex}
      BY <2>1, <1>3
    <3>2. {o[1] : o \in {<<p[1], form>> : p \in in.ex}} = {o[1] : o \in in.ex}
      <4> DEFINE P(o) == o[1]
                 F(o) == <<P(o), form>>
      <4>1. \A o : F(o)[1] = P(o)
        OBVIOUS
      <4> HIDE DEF P, F
      <4>2. {o[1] : o \in {F(p) : p \in in.ex}} = {P(o) : o \in in.ex}
        BY <4>1
      <4> QED
        BY <4>2 DEF P, F
    <3> QED
      BY <3>1, <3>2, <2>1, <1>5
  <2>2. CASE changed /\ ~in.rule
    BY <2>2, <1>3, <1>5
  <2>3. CASE ~changed
    <3>1. q.signed.EXDATE = r.signed.EXDATE
      BY <2>3, <1>3
    <3>2. v.ex = e.ex
      BY <3>1, <1>5, <1>6
    <3>3. in.rule => in.ex = cur.ex
      BY <2>3, Zenon DEF ExdatesChange
    <3>4. ~in.rule => ~cur.rule
      BY <2>3, Zenon DEF ExdatesOrphaned
    <3> QED
      BY <3>2, <3>3, <3>4, <1>1
  <2> QED
    BY <2>1, <2>2, <2>3
<1>14. v.organizer <=> IF change THEN in.guests # {} ELSE e.organizer
  BY <1>3, <1>8, <1>9
<1>15. v.seq = IF Structural(cur, in) THEN e.seq + 1 ELSE e.seq
  <2> DEFINE more == cur.seq + 1
             raised == Structural(cur, in)
  <2>1. q.signed.SEQUENCE = IF raised THEN {more} ELSE r.signed.SEQUENCE
    BY <1>3
  <2>2. more = e.seq + 1
    BY <1>1
  <2> HIDE DEF more, raised, q
  <2>3. v.seq = IF raised THEN more ELSE e.seq
    BY <2>1, <1>5, <1>6, TheOne
  <2> QED
    BY <2>2, <2>3 DEF raised
<1>16. v.title = titleOrDefault(in.title) /\ v.note = in.note
  BY <1>2, <1>3, <1>5, TextOfLines
<1>17. v.status = status
  <2>1. CASE status # statusOrDefault(cur.status)
    <3>1. TextOf({status}) = status
      BY TheOne DEF TextOf
    <3>2. statusOrDefault(status) = status
      BY DEF status, statusOrDefault
    <3> QED
      BY <3>1, <3>2, <2>1, <1>3, <1>5
  <2>2. CASE status = statusOrDefault(cur.status)
    BY <2>2, <1>2, <1>3, <1>5
  <2> QED
    BY <2>1, <2>2
<1>18. v.lines = IF change THEN KeptLines(r, in) ELSE e.lines
  BY <1>3, <1>8, <1>9
<1>19. v.rsvp = IF change THEN KeptAnswers(r, in) ELSE e.rsvp
  BY <1>3, <1>8, <1>9
<1>20. /\ v.own <=> e.own \/ in.alarms # {}
       /\ v.rings = Meaning(in.alarms)
  <2> DEFINE after == notificationsPayload(r.alarms, in.alarms)
  <2>1. /\ Meaning(after.list) = Meaning(in.alarms)
        /\ after.own <=> r.alarms.own \/ in.alarms # {}
    BY <1>7, <1>9, ColumnSays
  <2>2. q.alarms = after
    BY <1>3
  <2> HIDE DEF after, q
  <2>3. v.rings = Meaning(in.alarms)
    BY <2>1, <2>2, <1>5
  <2>4. v.own <=> e.own \/ in.alarms # {}
    <3>1. v.own = after.own /\ e.own = r.alarms.own
      BY <2>2, <1>8, <1>9
    <3> QED
      BY <3>1, <2>1, Zenon
  <2> QED
    BY <2>3, <2>4
<1>21. v.x = e.x
  BY <1>3, <1>5, <1>6
<1> HIDE DEF cur, q
<1>22. /\ v.start = in.start
       /\ v.form = IF moves THEN form ELSE e.form
       /\ v.rule \in BOOLEAN /\ (v.rule <=> in.rule)
       /\ v.organizer \in BOOLEAN
  BY <1>8, <1>10, <1>11, <1>12, Zenon
<1> QED
  BY <1>8, <1>22, <1>13, <1>14, <1>15, <1>16, <1>17, <1>18, <1>19, <1>20, <1>21, Zenon
     DEF e, v, q, cur, form, change, moves, status

\* Sound, part by part.
LEMMA SoundParts ==
  ASSUME NEW r, Sound(r)
  PROVE  /\ r.signed.ORGANIZER # {} <=> Listed(r.list.lines) # {}
         /\ "TENTATIVE" \notin r.status
         /\ \A n \in r.alarms.list : Settled(n, View(r).form = "DATE")
BY Zenon DEF Sound

\* The update makes of the row what the change makes of the event.
LEMMA UpdatedRight ==
  ASSUME NEW r, Whole(r), ~DecryptFailed(r), Sound(r), NEW in \in Taken, SameType(in), NEW c,
         Describes(r, in, c)
  PROVE  View(Updated(r, in)) = Changed(View(r), c)
<1> DEFINE e == View(r)
           cur == decryptEvent(r)
           v == View(Updated(r, in))
           change == GuestsChange(cur, in)
           seq == IF PlanAfter(e, c) = Schedule(e) THEN e.seq ELSE e.seq + 1
           a == AppliedTo(e, c, seq)
<1>1. IsEv(e) /\ IsEv(v)
  BY ViewIs
<1>2. Changed(e, c) = a
  BY <1>1, ChangedIs
<1>3. /\ IsEv(a)
      /\ a.start = StartAfter(e, c) /\ a.form = FormOf(e, c) /\ a.rule = RuleAfter(e, c)
      /\ a.ex = ExAfter(e, c) /\ a.organizer = OrganizerAfter(e, c) /\ a.seq = seq
      /\ a.title = TitleAfter(e, c) /\ a.note = NoteAfter(e, c)
      /\ a.status = StatusAfter(e, c) /\ a.lines = LinesAfter(e, c)
      /\ a.rsvp = AnswersAfter(e, c) /\ a.own = OwnAfter(e, c)
      /\ a.rings = RingsAfter(e, c) /\ a.x = e.x
  BY AppliedFields
<1>4. /\ v.start = in.start
      /\ v.form = IF BoundsMove(cur, in) THEN DateForm(writeTZ(in.tz, cur.tz), in.day) ELSE e.form
      /\ v.rule \in BOOLEAN /\ (v.rule <=> in.rule)
      /\ v.ex = IF in.rule THEN {o[1] : o \in in.ex} ELSE {}
      /\ v.organizer \in BOOLEAN
      /\ v.organizer <=> IF change THEN in.guests # {} ELSE e.organizer
      /\ v.seq = IF Structural(cur, in) THEN e.seq + 1 ELSE e.seq
      /\ v.title = titleOrDefault(in.title)
      /\ v.note = in.note
      /\ v.status = statusOrDefault(in.status)
      /\ v.lines = IF change THEN KeptLines(r, in) ELSE e.lines
      /\ v.rsvp = IF change THEN KeptAnswers(r, in) ELSE e.rsvp
      /\ v.own \in BOOLEAN /\ (v.own <=> e.own \/ in.alarms # {})
      /\ v.rings = Meaning(in.alarms)
      /\ v.x = e.x
  BY UpdatedShows, Zenon
<1>5. /\ in.start = StartAfter(e, c)
      /\ FormOf(e, c) = IF BoundsMove(cur, in) THEN DateForm(writeTZ(in.tz, cur.tz), in.day) ELSE e.form
      /\ in.rule <=> RuleAfter(e, c)
      /\ ExAfter(e, c) = IF in.rule THEN {o[1] : o \in in.ex} ELSE {}
      /\ titleOrDefault(in.title) = TitleAfter(e, c)
      /\ in.note = NoteAfter(e, c)
      /\ statusOrDefault(in.status) = StatusAfter(e, c)
      /\ Meaning(in.alarms) = RingsAfter(e, c)
      /\ OwnAfter(e, c) <=> e.own \/ in.alarms # {}
      /\ change => c.f = "guests" /\ in.guests = c.guests
      /\ c.f = "guests" /\ ~change => c.guests = Listed(r.list.lines)
  BY DescribesParts
<1>6. /\ e.lines \in GuestLines /\ e.lines = r.list.lines
      /\ e.rsvp = r.rsvp /\ r.rsvp \subseteq Listed(r.list.lines)
      /\ e.own = r.alarms.own /\ r.alarms.own \in BOOLEAN
      /\ (e.organizer <=> r.signed.ORGANIZER # {}) /\ e.organizer \in BOOLEAN
  BY EventParts
<1>7. r.signed.ORGANIZER # {} <=> Listed(r.list.lines) # {}
  BY SoundParts
<1>8. Structural(cur, in) <=> PlanAfter(e, c) # Schedule(e)
  BY RaisedWhen
<1>9. e.rule \in BOOLEAN
  BY Known
<1>10. in.guests \subseteq Guests
  BY TakenParts
<1> HIDE DEF e, cur, v, change, a
<1>11. a.start = v.start /\ a.form = v.form /\ a.ex = v.ex /\ a.x = v.x
  BY <1>3, <1>4, <1>5
<1>12. a.rule = v.rule
  <2>1. RuleAfter(e, c) \in BOOLEAN
    BY <1>9 DEF RuleAfter
  <2>2. v.rule <=> RuleAfter(e, c)
    BY <1>4, <1>5
  <2> QED
    BY <2>1, <2>2, <1>3, <1>4
<1>13. a.organizer = v.organizer
  <2>1. OrganizerAfter(e, c) \in BOOLEAN
    BY <1>6 DEF OrganizerAfter
  <2>2. v.organizer <=> OrganizerAfter(e, c)
    <3>1. CASE change
      BY <3>1, <1>4, <1>5 DEF OrganizerAfter
    <3>2. CASE ~change /\ c.f = "guests"
      <4>1. v.organizer <=> e.organizer
        BY <3>2, <1>4
      <4>2. OrganizerAfter(e, c) <=> c.guests # {}
        BY <3>2 DEF OrganizerAfter
      <4> QED
        BY <4>1, <4>2, <3>2, <1>5, <1>6, <1>7
    <3>3. CASE ~change /\ c.f # "guests"
      BY <3>3, <1>4 DEF OrganizerAfter
    <3> QED
      BY <3>1, <3>2, <3>3
  <2> QED
    BY <2>1, <2>2, <1>3, <1>4
<1>14. a.seq = v.seq
  BY <1>3, <1>4, <1>8
<1>15. a.title = v.title /\ a.note = v.note /\ a.status = v.status /\ a.rings = v.rings
  BY <1>3, <1>4, <1>5
<1>16. a.lines = v.lines
  <2>1. CASE change
    <3>1. v.lines = KeptLines(r, in) /\ in.guests = c.guests /\ c.f = "guests"
      BY <2>1, <1>4, <1>5
    <3>2. KeptLines(r, in) = LinesAfter(e, c)
      BY <3>1, <1>6 DEF KeptLines, LinesAfter
    <3> QED
      BY <3>1, <3>2, <1>3
  <2>2. CASE ~change /\ c.f = "guests"
    <3>1. v.lines = e.lines /\ c.guests = Listed(e.lines)
      BY <2>2, <1>4, <1>5, <1>6
    <3>2. LinesAfter(e, c) = e.lines
      BY <2>2, <3>1, <1>6 DEF LinesAfter, Listed, GuestLines
    <3> QED
      BY <3>1, <3>2, <1>3
  <2>3. CASE ~change /\ c.f # "guests"
    BY <2>3, <1>3, <1>4 DEF LinesAfter
  <2> QED
    BY <2>1, <2>2, <2>3
<1>17. a.rsvp = v.rsvp
  <2>1. CASE change
    <3>1. v.rsvp = KeptAnswers(r, in) /\ in.guests = c.guests /\ c.f = "guests"
      BY <2>1, <1>4, <1>5
    <3>2. KeptAnswers(r, in) = AnswersAfter(e, c)
      BY <3>1, <1>6 DEF KeptAnswers, AnswersAfter, Listed
    <3> QED
      BY <3>1, <3>2, <1>3
  <2>2. CASE ~change /\ c.f = "guests"
    BY <2>2, <1>3, <1>4, <1>5, <1>6 DEF AnswersAfter
  <2>3. CASE ~change /\ c.f # "guests"
    BY <2>3, <1>3, <1>4 DEF AnswersAfter
  <2> QED
    BY <2>1, <2>2, <2>3
<1>18. a.own = v.own
  <2> DEFINE own == OwnAfter(e, c)
             some == in.alarms # {}
             rings == RingsAfter(e, c) # {}
             was == e.own
  <2>1. own = IF c.f = "alarms" THEN was \/ rings ELSE was
    BY Zenon DEF OwnAfter
  <2>2. was \in BOOLEAN /\ (was \/ rings) \in BOOLEAN
    BY <1>6
  <2>3. v.own \in BOOLEAN /\ (v.own <=> was \/ some) /\ (own <=> was \/ some) /\ a.own = own
    BY <1>3, <1>4, <1>5
  <2> DEFINE either == was \/ rings
  <2> HIDE DEF either, own, some, was
  <2>4. own \in BOOLEAN
    BY <2>1, <2>2 DEF either
  <2> QED
    BY <2>3, <2>4
<1>19. a = v
  BY <1>1, <1>3, <1>11, <1>12, <1>13, <1>14, <1>15, <1>16, <1>17, <1>18, SameEv
<1> QED
  BY <1>2, <1>19 DEF e, v

-----------------------------------------------------------------------------
(* A change of what was served is taken in as that change. *)

\* What the client sends is what the change makes of the event it was served, and the
\* gateway takes it in so.
LEMMA InputDescribes ==
  ASSUME NEW r, Whole(r), ~DecryptFailed(r), Sound(r), NEW base, Whole(base), Fresh(r, base),
         NEW c \in Changes, Sensible(eventToVEvent(decryptEvent(base)), c), Ordinary
  PROVE  Describes(r, Input(base, c), c)
<1> DEFINE e == View(r)
           cur == decryptEvent(r)
           in == Input(base, c)
           form0 == DateForm(cur.tz, cur.day)
           form == FormSent(form0, c)
           day == form = "DATE"
           ex == {o[1] : o \in cur.ex}
           occs == CASE c.f = "once" -> {} [] c.f = "repeat" -> c.ex [] OTHER -> ex
           alarms0 == {Served(n) : n \in cur.alarms}
           alarms == IF c.f = "alarms" THEN c.alarms ELSE alarms0
           title0 == titleOrDefault(cur.title)
           status == IF c.f = "status" THEN c.text ELSE cur.status
<1>1. /\ in.start = IF c.f = "move" THEN c.start ELSE cur.start
      /\ in.day <=> day
      /\ in.tz = IF form \in Zones THEN form ELSE ""
      /\ in.rule = CASE c.f = "once" -> FALSE [] c.f = "repeat" -> TRUE [] OTHER -> cur.rule
      /\ in.ex = {Instant(o, day) : o \in occs}
      /\ in.title = IF c.f = "title" THEN c.text ELSE title0
      /\ in.note = IF c.f = "note" THEN c.text ELSE cur.note
      /\ in.status = StatusSent(status)
      /\ in.guests = IF c.f = "guests" THEN c.guests ELSE cur.guests
      /\ in.alarms = Taking(alarms, day)
      /\ in.replace <=> in.guests # cur.guests
  <2> DEFINE b == decryptEvent(base)
             form1 == FormSent(DateForm(b.tz, b.day), c)
             day1 == form1 = "DATE"
  <2>1. b = cur
    BY DEF Fresh
  <2>2. /\ in.start = IF c.f = "move" THEN c.start ELSE b.start
        /\ in.day <=> day1
        /\ in.tz = IF form1 \in Zones THEN form1 ELSE ""
        /\ in.rule = CASE c.f = "once" -> FALSE [] c.f = "repeat" -> TRUE [] OTHER -> b.rule
        /\ in.ex = {Instant(o, day1) : o \in CASE c.f = "once" -> {} [] c.f = "repeat" -> c.ex
                                               [] OTHER -> {o[1] : o \in b.ex}}
        /\ in.title = IF c.f = "title" THEN c.text ELSE titleOrDefault(b.title)
        /\ in.note = IF c.f = "note" THEN c.text ELSE b.note
        /\ in.status = StatusSent(IF c.f = "status" THEN c.text ELSE b.status)
        /\ in.guests = IF c.f = "guests" THEN c.guests ELSE b.guests
        /\ in.alarms = Taking(IF c.f = "alarms" THEN c.alarms
                              ELSE {Served(n) : n \in b.alarms}, day1)
        /\ in.replace <=> in.guests # b.guests
    BY InputIs, Zenon
  <2> HIDE DEF cur, in, b
  <2> QED
    BY <2>1, <2>2, Zenon
<1>2. /\ cur.start = e.start
      /\ cur.day <=> e.form = "DATE"
      /\ cur.day \in BOOLEAN
      /\ e.form = form0
      /\ cur.rule <=> e.rule
      /\ cur.rule \in BOOLEAN /\ e.rule \in BOOLEAN
      /\ e.ex = ex
      /\ ~cur.rule => e.ex = {}
      /\ e.title = title0
      /\ e.note = cur.note
      /\ e.status = statusOrDefault(cur.status)
      /\ cur.guests = Listed(e.lines)
      /\ e.rings = Meaning(cur.alarms)
      /\ cur.alarms = r.alarms.list
  BY Known
<1>3. /\ in.day \in BOOLEAN /\ in.rule \in BOOLEAN /\ in.guests \subseteq Guests
      /\ in.alarms \subseteq Reminders
  BY InputType, TakenParts
<1>4. /\ c.f = "move" => c.form \in ClientForms
      /\ c.f = "status" => c.text \in {"", "CANCELLED", "TENTATIVE"}
      /\ c.alarms \in SUBSET VAlarms
      /\ c.f = "alarms" => c.alarms \in AlarmSets
  BY ChangeType
<1>5. /\ e.lines = r.list.lines /\ e.own = r.alarms.own
      /\ e.own \in BOOLEAN /\ (~e.own => r.alarms.list = {})
      /\ r.alarms.list \subseteq Reminders
  BY EventParts
<1>6. /\ "TENTATIVE" \notin r.status
      /\ \A n \in r.alarms.list : Settled(n, e.form = "DATE")
  BY SoundParts
<1>7. c.f = "move" => c.start # e.start \/ (c.form = "DATE") # (e.form = "DATE")
  <2>1. decryptEvent(base) = cur
    BY DEF Fresh
  <2>2. eventToVEvent(cur).start = cur.start /\ eventToVEvent(cur).form = form0
    <3> HIDE DEF cur
    <3> QED
      BY DEF eventToVEvent
  <2>3. ~ZoneChanges
    BY DEF Ordinary
  <2>4. Sensible(eventToVEvent(cur), c)
    BY <2>1
  <2>5. c.f = "move" => \/ c.start # eventToVEvent(cur).start
                        \/ (c.form = "DATE") # (eventToVEvent(cur).form = "DATE")
    BY <2>3, <2>4 DEF Sensible
  <2> HIDE DEF cur, e, form0
  <2> QED
    BY <2>2, <2>5, <1>2
<1>8. "UTC" \notin Zones /\ "DATE" \notin Zones /\ "odd" \notin Zones /\ "" \notin Zones
  BY NamesAssumption
<1>9. cur.tz = "UTC" \/ e.form # "DATE"
  BY DecryptIs, ViewIs
<1> HIDE DEF e, cur, in
<1>10. form0 = e.form
  BY <1>2
<1> HIDE DEF form0
<1>11. in.day <=> FormOf(e, c) = "DATE"
  BY <1>1, <1>4, <1>8, <1>10 DEF FormOf, FormAfter, FormSent
<1>12. in.start = StartAfter(e, c)
  BY <1>1, <1>2 DEF StartAfter
<1> DEFINE moves == BoundsMove(cur, in)
           tz == writeTZ(in.tz, cur.tz)
<1>13. moves <=> in.start # cur.start \/ in.day # cur.day
  BY Zenon DEF BoundsMove
<1>14. FormOf(e, c) = IF moves THEN DateForm(tz, in.day) ELSE e.form
  <2> HIDE DEF moves, tz
  <2>1. CASE c.f = "move"
    <3>1. form = c.form /\ in.start = c.start /\ (in.day <=> c.form = "DATE")
      BY <2>1, <1>1 DEF FormSent
    <3>2. moves
      BY <3>1, <2>1, <1>2, <1>3, <1>7, <1>13
    <3>3. FormOf(e, c) = IF c.form = "UTC" /\ e.form \in Zones THEN e.form ELSE c.form
      BY <2>1 DEF FormOf, FormAfter
    <3>4. CASE c.form = "DATE"
      BY <3>1, <3>2, <3>3, <3>4 DEF DateForm
    <3>5. CASE c.form \in Zones
      <4>1. in.tz = c.form /\ c.form # "" /\ c.form # "UTC" /\ c.form # "DATE"
        BY <3>1, <3>5, <1>1, <1>8
      <4>2. tz = c.form
        BY <4>1 DEF tz, writeTZ
      <4> QED
        BY <4>1, <4>2, <3>1, <3>2, <3>3, <3>5 DEF DateForm
    <3>6. CASE c.form = "UTC"
      <4>1. in.tz = "" /\ ~in.day
        BY <3>1, <3>6, <1>1, <1>8
      <4>2. tz = IF cur.tz = "UTC" THEN "" ELSE cur.tz
        BY <4>1 DEF tz, writeTZ
      <4>3. CASE e.form \in Zones
        <5>1. e.form # "DATE" /\ e.form # "UTC"
          BY <4>3, <1>8
        <5>2. ~cur.day /\ e.form = DateForm(cur.tz, cur.day)
          BY <5>1, <1>2, <1>10 DEF form0
        <5>3. cur.tz = e.form
          BY <5>1, <5>2, <4>3 DEF DateForm
        <5> QED
          BY <5>1, <5>3, <4>1, <4>2, <4>3, <3>2, <3>3, <3>6 DEF DateForm
      <4>4. CASE e.form \notin Zones
        <5>1. FormOf(e, c) = "UTC"
          BY <4>4, <3>3, <3>6
        <5>2. tz \notin Zones
          <6>1. CASE cur.tz = "UTC"
            BY <6>1, <4>2, <1>8
          <6>2. CASE cur.tz # "UTC"
            <7>1. ~cur.day /\ e.form = DateForm(cur.tz, cur.day)
              BY <6>2, <1>9, <1>2, <1>10 DEF form0
            <7> QED
              BY <7>1, <6>2, <4>2, <4>4 DEF DateForm
          <6> QED
            BY <6>1, <6>2
        <5> QED
          BY <5>1, <5>2, <4>1, <3>2 DEF DateForm
      <4> QED
        BY <4>3, <4>4
    <3> QED
      BY <3>4, <3>5, <3>6, <2>1, <1>4 DEF ClientForms, Forms
  <2>2. CASE c.f # "move"
    <3>1. in.start = cur.start /\ FormOf(e, c) = e.form
      BY <2>2, <1>1 DEF FormOf
    <3>2. in.day = cur.day
      BY <3>1, <1>2, <1>3, <1>11
    <3> QED
      BY <3>1, <3>2, <1>13
  <2> QED
    BY <2>1, <2>2
<1>15. in.rule <=> RuleAfter(e, c)
  BY <1>1, <1>2 DEF RuleAfter
<1>16. ExAfter(e, c) = IF in.rule THEN {o[1] : o \in in.ex} ELSE {}
  <2>1. ExAfter(e, c) = occs
    BY <1>2 DEF ExAfter
  <2>2. {o[1] : o \in in.ex} = occs
    <3> DEFINE F(o) == Instant(o, day)
    <3>1. \A o : F(o)[1] = o
      BY DEF Instant
    <3>2. in.ex = {F(o) : o \in occs}
      BY <1>1
    <3> HIDE DEF F, occs
    <3> QED
      BY <3>1, <3>2
  <2>3. ~in.rule => occs = {}
    BY <1>1, <1>2
  <2> QED
    BY <2>1, <2>2, <2>3
<1>17. titleOrDefault(in.title) = TitleAfter(e, c)
  BY <1>1, <1>2 DEF TitleAfter, titleOrDefault
<1>18. in.note = NoteAfter(e, c)
  BY <1>1, <1>2 DEF NoteAfter
<1>19. statusOrDefault(in.status) = StatusAfter(e, c)
  <2>1. CASE c.f = "status"
    BY <2>1, <1>1, <1>4 DEF StatusAfter, StatusFor, StatusSent, statusOrDefault
  <2>2. CASE c.f # "status"
    <3>1. cur.status = TextOf(r.status)
      BY DecryptIs DEF cur
    <3>2. r.status \subseteq {"CONFIRMED", "CANCELLED", "TENTATIVE"}
      BY WholeParts
    <3>3. r.status # {} => TextOf(r.status) \in r.status
      BY DEF TextOf, The
    <3>4. r.status = {} => TextOf(r.status) = ""
      BY DEF TextOf
    <3>5. cur.status \in {"", "CONFIRMED", "CANCELLED"}
      BY <3>1, <3>2, <3>3, <3>4, <1>6
    <3> QED
      BY <3>5, <2>2, <1>1, <1>2 DEF StatusAfter, StatusSent, statusOrDefault
  <2> QED
    BY <2>1, <2>2
<1>20. Meaning(in.alarms) = RingsAfter(e, c) /\ \A n \in in.alarms : Settled(n, in.day)
  <2> DEFINE was == e.form = "DATE"
             list == r.alarms.list
  <2>1. day = in.day /\ day \in BOOLEAN /\ was \in BOOLEAN
    <3>1. day \in BOOLEAN
      OBVIOUS
    <3> HIDE DEF day
    <3> QED
      BY <3>1, <1>1, <1>3
  <2>2. (in.day <=> FormOf(e, c) = "DATE")
    BY <1>11
  <2> HIDE DEF day, was
  <2>3. CASE c.f = "alarms"
    <3>1. in.alarms = Taking(c.alarms, day)
      BY <2>3, <1>1
    <3>2. \A a \in c.alarms : Fits(a.d) \/ TooLong(a.d)
      BY <2>3, <1>4, Zenon DEF Ordinary
    <3>3. Meaning(in.alarms) = UNION {Rings(a, day) : a \in c.alarms} /\ \A n \in in.alarms : Settled(n, day)
      BY <3>1, <3>2, <2>1, <1>4, RingsTaken
    <3>4. was = day
      BY <2>1, <2>2, <2>3 DEF FormOf, was
    <3>5. RingsAfter(e, c) = UNION {Rings(a, was) : a \in c.alarms}
      BY <2>3, Zenon DEF RingsAfter, was
    <3> QED
      BY <3>3, <3>4, <3>5, <2>1
  <2>4. CASE c.f # "alarms"
    <3>1. in.alarms = Taking({Served(n) : n \in list}, day)
      BY <2>4, <1>1, <1>2
    <3>2. list \in SUBSET Reminders /\ \A n \in list : Settled(n, was)
      BY <1>5, <1>6, Zenon DEF was
    <3>3. /\ Meaning(in.alarms) = {x \in Meaning(list) : x[2] <= 0 \/ day}
          /\ day = was => Meaning(in.alarms) = Meaning(list)
          /\ \A n \in in.alarms : Settled(n, day)
      <4> DEFINE back == Taking(ServedAll(list), day)
      <4> HIDE DEF list
      <4>1. /\ Meaning(back) = {x \in Meaning(list) : x[2] <= 0 \/ day}
            /\ day = was => Meaning(back) = Meaning(list)
            /\ \A n \in back : Settled(n, day)
        BY <3>2, <2>1, RingsBack
      <4>2. in.alarms = back
        BY <3>1, Zenon DEF ServedAll
      <4> HIDE DEF back
      <4> QED
        BY <4>1, <4>2
    <3>4. e.rings = Meaning(list)
      BY <1>2
    <3>5. CASE c.f = "move"
      <4>1. RingsAfter(e, c) = {x \in e.rings : x[2] <= 0 \/ FormAfter(e.form, c) = "DATE"}
        BY <3>5, Zenon DEF RingsAfter, RingsAt
      <4>2. FormAfter(e.form, c) = "DATE" <=> day
        BY <3>5, <2>1, <2>2 DEF FormOf
      <4> QED
        BY <4>1, <4>2, <3>3, <3>4, <2>1
    <3>6. CASE c.f # "move"
      <4>1. RingsAfter(e, c) = e.rings
        BY <3>6, <2>4 DEF RingsAfter
      <4>2. FormOf(e, c) = e.form
        BY <3>6 DEF FormOf
      <4>3. day <=> was
        BY <4>2, <2>1, <2>2 DEF was
      <4>4. day = was
        BY <4>3, <2>1
      <4> QED
        BY <4>1, <4>4, <3>3, <3>4, <2>1
    <3> QED
      BY <3>5, <3>6
  <2> QED
    BY <2>3, <2>4
<1>21. OwnAfter(e, c) <=> e.own \/ in.alarms # {}
  <2>1. \A s : (Meaning(s) = {} <=> s = {})
    BY DEF Meaning
  <2>2. RingsAfter(e, c) # {} <=> in.alarms # {}
    BY <2>1, <1>20
  <2>3. CASE c.f = "alarms"
    BY <2>2, <2>3, Zenon DEF OwnAfter
  <2>4. CASE c.f # "alarms"
    <3>1. OwnAfter(e, c) = e.own
      BY <2>4, Zenon DEF OwnAfter
    <3>2. in.alarms # {} => e.rings # {}
      BY <2>2, <2>4 DEF RingsAfter, RingsAt
    <3>3. e.rings # {} => r.alarms.list # {}
      BY <2>1, <1>2
    <3>4. in.alarms # {} => e.own
      BY <3>2, <3>3, <1>5
    <3> QED
      BY <3>1, <3>4, Zenon
  <2> QED
    BY <2>3, <2>4
<1>22. GuestsChange(cur, in) <=> in.guests # cur.guests
  BY <1>1, Zenon DEF GuestsChange
<1>23. GuestsChange(cur, in) => c.f = "guests" /\ in.guests = c.guests
  BY <1>1, <1>22
<1>24. c.f = "guests" /\ ~GuestsChange(cur, in) => c.guests = Listed(r.list.lines)
  BY <1>1, <1>2, <1>5, <1>22
<1> QED
  BY <1>11, <1>12, <1>14, <1>15, <1>16, <1>17, <1>18, <1>19, <1>20, <1>21, <1>23, <1>24, Zenon
     DEF Describes, e, cur, in

-----------------------------------------------------------------------------
(* The same input once more. *)

\* What Changed makes of an event, field by field, SEQUENCE aside.
LEMMA RowAfterChange ==
  ASSUME NEW e, IsEv(e), NEW c
  PROVE  LET v == Changed(e, c)
         IN  /\ v.start = StartAfter(e, c) /\ v.form = FormOf(e, c) /\ v.rule = RuleAfter(e, c)
             /\ v.ex = ExAfter(e, c) /\ v.organizer = OrganizerAfter(e, c)
             /\ v.title = TitleAfter(e, c) /\ v.note = NoteAfter(e, c)
             /\ v.status = StatusAfter(e, c) /\ v.lines = LinesAfter(e, c)
             /\ v.rsvp = AnswersAfter(e, c) /\ v.own = OwnAfter(e, c)
             /\ v.rings = RingsAfter(e, c) /\ v.x = e.x
<1> DEFINE seq == IF PlanAfter(e, c) = Schedule(e) THEN e.seq ELSE e.seq + 1
           v == Changed(e, c)
<1>1. v = AppliedTo(e, c, seq)
  BY ChangedIs
<1> HIDE DEF seq
<1> DEFINE a == AppliedTo(e, c, seq)
<1>2. /\ a.start = StartAfter(e, c) /\ a.form = FormOf(e, c) /\ a.rule = RuleAfter(e, c)
      /\ a.ex = ExAfter(e, c) /\ a.organizer = OrganizerAfter(e, c)
      /\ a.title = TitleAfter(e, c) /\ a.note = NoteAfter(e, c)
      /\ a.status = StatusAfter(e, c) /\ a.lines = LinesAfter(e, c)
      /\ a.rsvp = AnswersAfter(e, c) /\ a.own = OwnAfter(e, c)
      /\ a.rings = RingsAfter(e, c) /\ a.x = e.x
  BY AppliedFields
<1>3. v = a
  BY <1>1
<1> HIDE DEF v, a
<1> QED
  BY <1>2, <1>3, Zenon DEF v

\* The same change once more changes nothing (but SEQUENCE is another matter).
LEMMA Again ==
  ASSUME NEW e, NEW v, NEW c,
         v.start = StartAfter(e, c), v.form = FormOf(e, c), v.rule = RuleAfter(e, c),
         v.ex = ExAfter(e, c), v.title = TitleAfter(e, c), v.note = NoteAfter(e, c),
         v.status = StatusAfter(e, c), v.rings = RingsAfter(e, c)
  PROVE  /\ StartAfter(v, c) = v.start /\ FormOf(v, c) = v.form /\ RuleAfter(v, c) = v.rule
         /\ ExAfter(v, c) = v.ex /\ TitleAfter(v, c) = v.title /\ NoteAfter(v, c) = v.note
         /\ StatusAfter(v, c) = v.status /\ RingsAfter(v, c) = v.rings
<1>1. StartAfter(v, c) = v.start
  BY DEF StartAfter
<1>2. FormOf(v, c) = v.form
  BY DEF FormOf, FormAfter
<1>3. RuleAfter(v, c) = v.rule
  BY Zenon DEF RuleAfter
<1>4. ExAfter(v, c) = v.ex
  BY Zenon DEF ExAfter
<1>5. TitleAfter(v, c) = v.title /\ NoteAfter(v, c) = v.note /\ StatusAfter(v, c) = v.status
  BY DEF TitleAfter, NoteAfter, StatusAfter
<1>6. RingsAfter(v, c) = v.rings
  <2>1. CASE c.f = "move"
    <3>1. FormAfter(v.form, c) = FormAfter(e.form, c)
      BY <2>1 DEF FormOf, FormAfter
    <3>2. v.rings = RingsAt(e.rings, FormAfter(e.form, c))
      BY <2>1, Zenon DEF RingsAfter
    <3>3. RingsAfter(v, c) = RingsAt(v.rings, FormAfter(e.form, c))
      BY <2>1, <3>1, Zenon DEF RingsAfter
    <3> QED
      BY <3>2, <3>3 DEF RingsAt
  <2>2. CASE c.f = "alarms"
    <3>1. v.form = e.form
      BY <2>2 DEF FormOf
    <3> DEFINE All(form) == UNION {Rings(a, form = "DATE") : a \in c.alarms}
    <3>2. RingsAfter(v, c) = All(v.form)
      BY <2>2, Zenon DEF RingsAfter
    <3>3. RingsAfter(e, c) = All(e.form)
      BY <2>2, Zenon DEF RingsAfter
    <3> HIDE DEF All
    <3> QED
      BY <3>1, <3>2, <3>3
  <2>3. CASE c.f \notin {"move", "alarms"}
    BY <2>3 DEF RingsAfter
  <2> QED
    BY <2>1, <2>2, <2>3
<1> QED
  BY <1>1, <1>2, <1>3, <1>4, <1>5, <1>6

\* A change that has been made is one that may be asked for again.
LEMMA UpdatedDescribes ==
  ASSUME NEW r, Whole(r), Sound(r), NEW in \in Taken, SameType(in), ~Degraded(r, in),
         NEW c \in Changes, Describes(r, in, c)
  PROVE  Describes(Updated(r, in), in, c)
<1> DEFINE q == Updated(r, in)
           e == View(r)
           v == View(q)
           cur == decryptEvent(r)
           now == decryptEvent(q)
           change == GuestsChange(cur, in)
<1>1. ~DecryptFailed(r)
  BY DEF Degraded
<1>2. Whole(q) /\ ~DecryptFailed(q)
  BY UpdatedWhole, UpdatedOpens
<1>3. /\ in.start = StartAfter(e, c)
      /\ in.day <=> FormOf(e, c) = "DATE"
      /\ in.rule <=> RuleAfter(e, c)
      /\ ExAfter(e, c) = IF in.rule THEN {o[1] : o \in in.ex} ELSE {}
      /\ titleOrDefault(in.title) = TitleAfter(e, c)
      /\ in.note = NoteAfter(e, c)
      /\ statusOrDefault(in.status) = StatusAfter(e, c)
      /\ Meaning(in.alarms) = RingsAfter(e, c)
      /\ OwnAfter(e, c) <=> e.own \/ in.alarms # {}
      /\ change => c.f = "guests" /\ in.guests = c.guests
      /\ c.f = "guests" /\ ~change => c.guests = Listed(r.list.lines)
      /\ \A n \in in.alarms : Settled(n, in.day)
  BY DescribesParts
<1>4. v = Changed(e, c)
  BY <1>1, UpdatedRight
<1>5. IsEv(e)
  BY ViewIs
<1>6. /\ v.start = StartAfter(e, c) /\ v.form = FormOf(e, c) /\ v.rule = RuleAfter(e, c)
      /\ v.ex = ExAfter(e, c) /\ v.title = TitleAfter(e, c) /\ v.note = NoteAfter(e, c)
      /\ v.status = StatusAfter(e, c) /\ v.lines = LinesAfter(e, c)
      /\ v.own = OwnAfter(e, c) /\ v.rings = RingsAfter(e, c)
  BY <1>4, <1>5, RowAfterChange
<1>7. /\ now.start = v.start
      /\ now.day <=> v.form = "DATE"
      /\ now.day \in BOOLEAN
      /\ now.guests = Listed(v.lines)
  BY <1>2, Known
<1>8. /\ in.day \in BOOLEAN /\ in.rule \in BOOLEAN /\ in.guests \subseteq Guests
  BY TakenParts
<1>9. v.lines = q.list.lines
  BY ViewIs
<1>10. e.lines \in GuestLines /\ e.lines = r.list.lines
  BY EventParts
<1>11. cur.guests = Listed(e.lines)
  BY <1>1, Known
<1>12. v.lines = IF change THEN KeptLines(r, in) ELSE e.lines
  BY <1>1, UpdatedShows
<1>13. c.guests \subseteq Guests
  BY ChangeType
<1> HIDE DEF q, e, v, cur, now
<1>14. /\ StartAfter(v, c) = v.start /\ FormOf(v, c) = v.form /\ RuleAfter(v, c) = v.rule
       /\ ExAfter(v, c) = v.ex /\ TitleAfter(v, c) = v.title /\ NoteAfter(v, c) = v.note
       /\ StatusAfter(v, c) = v.status /\ RingsAfter(v, c) = v.rings
  BY <1>6, Again
<1>15. ~BoundsMove(now, in)
  BY <1>3, <1>6, <1>7, <1>8 DEF BoundsMove
<1>16. ~GuestsChange(now, in)
  <2>1. CASE change
    <3>1. v.lines = KeptLines(r, in)
      BY <2>1, <1>12
    <3>2. Listed(v.lines) = in.guests
      BY <3>1, <1>8 DEF KeptLines, Listed
    <3> QED
      BY <3>2, <1>7 DEF GuestsChange
  <2>2. CASE ~change
    <3>1. now.guests = cur.guests
      BY <2>2, <1>7, <1>11, <1>12
    <3> QED
      BY <3>1, <2>2 DEF GuestsChange
  <2> QED
    BY <2>1, <2>2
<1>17. c.f = "guests" => c.guests = Listed(q.list.lines)
  <2>1. Listed(LinesAfter(e, c)) = IF c.f = "guests" THEN Guests \cap c.guests ELSE Listed(e.lines)
    BY <1>10, ListedAfter
  <2>2. Guests \cap c.guests = c.guests
    BY <1>13
  <2>3. LinesAfter(e, c) = q.list.lines
    BY <1>6, <1>9
  <2> QED
    BY <2>1, <2>2, <2>3
<1>18. OwnAfter(v, c) <=> v.own \/ in.alarms # {}
  <2>1. \A s : (Meaning(s) = {} <=> s = {})
    BY DEF Meaning
  <2>2. RingsAfter(v, c) # {} <=> in.alarms # {}
    BY <2>1, <1>3, <1>6, <1>14
  <2>3. in.alarms # {} => v.own
    BY <1>3, <1>6, Zenon
  <2>4. CASE c.f = "alarms"
    BY <2>2, <2>4, Zenon DEF OwnAfter
  <2>5. CASE c.f # "alarms"
    <3>1. OwnAfter(v, c) = v.own
      BY <2>5, Zenon DEF OwnAfter
    <3> QED
      BY <3>1, <2>3, Zenon
  <2> QED
    BY <2>4, <2>5
<1>19. in.rule <=> RuleAfter(v, c)
  BY <1>3, <1>6, <1>14, Zenon
<1>20. /\ in.start = StartAfter(v, c)
       /\ in.day <=> FormOf(v, c) = "DATE"
       /\ FormOf(v, c) = v.form
       /\ ExAfter(v, c) = IF in.rule THEN {o[1] : o \in in.ex} ELSE {}
       /\ titleOrDefault(in.title) = TitleAfter(v, c)
       /\ in.note = NoteAfter(v, c)
       /\ statusOrDefault(in.status) = StatusAfter(v, c)
       /\ Meaning(in.alarms) = RingsAfter(v, c)
  BY <1>3, <1>6, <1>14, Zenon
<1> QED
  BY <1>3, <1>15, <1>16, <1>17, <1>18, <1>19, <1>20, Zenon DEF Describes, q, v, now

-----------------------------------------------------------------------------
(* Edits of what the gateway does not know, and edits it has not seen. *)

\* All that the gateway knows of a row.
SameSeen(q, r) ==
  /\ q.signed.DTSTART = r.signed.DTSTART /\ q.signed.RRULE = r.signed.RRULE
  /\ q.signed.EXDATE = r.signed.EXDATE /\ q.signed.ORGANIZER = r.signed.ORGANIZER
  /\ q.signed.SEQUENCE = r.signed.SEQUENCE
  /\ q.text.lines.SUMMARY = r.text.lines.SUMMARY
  /\ q.text.lines.DESCRIPTION = r.text.lines.DESCRIPTION

\* A row decrypted twice.
LEMMA SeenFresh ==
  ASSUME NEW r, NEW q, Kept(q, r), SameSeen(q, r)
  PROVE  Fresh(q, r)
<1> DEFINE textq == IF Opens(q, q.text) THEN q.text.lines ELSE NoText
           textr == IF Opens(r, r.text) THEN r.text.lines ELSE NoText
           titleq == TextOf(textq.SUMMARY)
           titler == TextOf(textr.SUMMARY)
           noteq == TextOf(textq.DESCRIPTION)
           noter == TextOf(textr.DESCRIPTION)
           guestsq == IF Opens(q, q.list) THEN Listed(q.list.lines) ELSE {}
           guestsr == IF Opens(r, r.list) THEN Listed(r.list.lines) ELSE {}
           at == The(r.signed.DTSTART)
           start == at[1]
           day == at[2] = "DATE"
           tz == IF at[2] = "DATE" THEN "UTC" ELSE at[2]
           rule == r.signed.RRULE # {}
           ex == {Instant(e[1], e[2] = "DATE") : e \in r.signed.EXDATE}
           organizer == r.signed.ORGANIZER # {}
           seq == The(r.signed.SEQUENCE)
           status == TextOf(r.status)
           alarms == r.alarms.list
<1>1. (Opens(q, q.text) <=> Opens(r, r.text)) /\ (Opens(q, q.list) <=> Opens(r, r.list))
  BY DEF Opens, Kept
<1>2. titleq = titler /\ noteq = noter /\ guestsq = guestsr
  <2>1. titleq = titler
    BY <1>1 DEF SameSeen
  <2>2. noteq = noter
    BY <1>1 DEF SameSeen
  <2>3. guestsq = guestsr
    BY <1>1, Zenon DEF Kept
  <2> QED
    BY <2>1, <2>2, <2>3
<1>3. decryptEvent(r) = [start |-> start, day |-> day, tz |-> tz, rule |-> rule, ex |-> ex,
             organizer |-> organizer, seq |-> seq, title |-> titler, note |-> noter,
             status |-> status, guests |-> guestsr, alarms |-> alarms]
  BY Zenon DEF decryptEvent
<1> DEFINE atq == The(q.signed.DTSTART)
           startq == atq[1]
           dayq == atq[2] = "DATE"
           tzq == IF atq[2] = "DATE" THEN "UTC" ELSE atq[2]
           ruleq == q.signed.RRULE # {}
           exq == {Instant(e[1], e[2] = "DATE") : e \in q.signed.EXDATE}
           organizerq == q.signed.ORGANIZER # {}
           seqq == The(q.signed.SEQUENCE)
           statusq == TextOf(q.status)
           alarmsq == q.alarms.list
<1>4. decryptEvent(q) = [start |-> startq, day |-> dayq, tz |-> tzq, rule |-> ruleq, ex |-> exq,
             organizer |-> organizerq, seq |-> seqq, title |-> titleq, note |-> noteq,
             status |-> statusq, guests |-> guestsq, alarms |-> alarmsq]
  BY Zenon DEF decryptEvent
<1>5. /\ startq = start /\ dayq = day /\ tzq = tz /\ ruleq = rule /\ exq = ex
      /\ organizerq = organizer /\ seqq = seq /\ statusq = status /\ alarmsq = alarms
  BY Zenon DEF SameSeen, Kept
<1> HIDE DEF start, day, tz, rule, ex, organizer, seq, titler, noter, status, guestsr, alarms,
             startq, dayq, tzq, ruleq, exq, organizerq, seqq, titleq, noteq, statusq, guestsq, alarmsq
<1>6. decryptEvent(q) = decryptEvent(r)
  BY <1>2, <1>3, <1>4, <1>5, Zenon
<1> QED
  BY <1>6, Zenon DEF Fresh

\* What a change makes of two events that differ in answers, lines and SEQUENCE only.
SameEvent(v, e) ==
  /\ v.start = e.start /\ v.form = e.form /\ v.rule = e.rule /\ v.ex = e.ex
  /\ v.organizer = e.organizer /\ v.title = e.title /\ v.note = e.note /\ v.status = e.status
  /\ v.lines = e.lines /\ v.own = e.own /\ v.rings = e.rings

\* Rows the gateway knows the same of show the same event,
LEMMA SeenEvent ==
  ASSUME NEW r, NEW q, Kept(q, r), SameSeen(q, r)
  PROVE  SameEvent(View(q), View(r)) /\ View(q).seq = View(r).seq
<1> DEFINE e == View(r)
           v == View(q)
           at == The(r.signed.DTSTART)
           atq == The(q.signed.DTSTART)
<1>1. /\ e.start = at[1] /\ e.form = IF at[2] = "odd" THEN "UTC" ELSE at[2]
      /\ e.rule = (r.signed.RRULE # {}) /\ e.ex = {o[1] : o \in r.signed.EXDATE}
      /\ e.organizer = (r.signed.ORGANIZER # {})
      /\ e.seq = The(r.signed.SEQUENCE)
      /\ e.title = titleOrDefault(TextOf(r.text.lines.SUMMARY))
      /\ e.note = TextOf(r.text.lines.DESCRIPTION)
      /\ e.status = statusOrDefault(TextOf(r.status))
      /\ e.lines = r.list.lines
      /\ e.own = r.alarms.own /\ e.rings = Meaning(r.alarms.list)
  BY ViewIs, Zenon
<1>2. /\ v.start = atq[1] /\ v.form = IF atq[2] = "odd" THEN "UTC" ELSE atq[2]
      /\ v.rule = (q.signed.RRULE # {}) /\ v.ex = {o[1] : o \in q.signed.EXDATE}
      /\ v.organizer = (q.signed.ORGANIZER # {})
      /\ v.seq = The(q.signed.SEQUENCE)
      /\ v.title = titleOrDefault(TextOf(q.text.lines.SUMMARY))
      /\ v.note = TextOf(q.text.lines.DESCRIPTION)
      /\ v.status = statusOrDefault(TextOf(q.status))
      /\ v.lines = q.list.lines
      /\ v.own = q.alarms.own /\ v.rings = Meaning(q.alarms.list)
  BY ViewIs, Zenon
<1> HIDE DEF e, v
<1>3. v.start = e.start /\ v.form = e.form
  BY <1>1, <1>2, Zenon DEF SameSeen
<1>4. v.rule = e.rule /\ v.organizer = e.organizer /\ v.ex = e.ex
  BY <1>1, <1>2, Zenon DEF SameSeen
<1>5. v.seq = e.seq /\ v.title = e.title /\ v.note = e.note
  BY <1>1, <1>2, Zenon DEF SameSeen
<1>6. v.status = e.status /\ v.lines = e.lines /\ v.own = e.own /\ v.rings = e.rings
  BY <1>1, <1>2, Zenon DEF Kept
<1> QED
  BY <1>3, <1>4, <1>5, <1>6, Zenon DEF SameEvent, e, v

\* ..., are as the gateway writes them when one is,
LEMMA SeenSound ==
  ASSUME NEW r, NEW q, Kept(q, r), SameSeen(q, r), Sound(r)
  PROVE  Sound(q)
<1>1. View(q).form = View(r).form
  BY SeenEvent DEF SameEvent
<1>2. /\ q.signed.ORGANIZER = r.signed.ORGANIZER /\ q.list.lines = r.list.lines
      /\ q.status = r.status /\ q.alarms.list = r.alarms.list
  BY DEF Kept, SameSeen
<1>3. /\ r.signed.ORGANIZER # {} <=> Listed(r.list.lines) # {}
      /\ "TENTATIVE" \notin r.status
      /\ \A n \in r.alarms.list : Settled(n, View(r).form = "DATE")
  BY SoundParts
<1> QED
  BY <1>1, <1>2, <1>3, Zenon DEF Sound

\* ..., and an input says of one what it says of the other.
LEMMA SeenDescribes ==
  ASSUME NEW r, NEW q, Kept(q, r), SameSeen(q, r), NEW in, NEW c, Describes(r, in, c)
  PROVE  Describes(q, in, c)
<1> DEFINE e == View(r)
           v == View(q)
           cur == decryptEvent(r)
           now == decryptEvent(q)
<1>1. /\ v.start = e.start /\ v.form = e.form /\ v.rule = e.rule /\ v.ex = e.ex
      /\ v.title = e.title /\ v.note = e.note /\ v.status = e.status
      /\ v.own = e.own /\ v.rings = e.rings
  BY SeenEvent DEF SameEvent
<1>2. now = cur
  BY SeenFresh DEF Fresh
<1>3. /\ in.start = StartAfter(e, c)
      /\ in.day <=> FormOf(e, c) = "DATE"
      /\ FormOf(e, c) = IF BoundsMove(cur, in) THEN DateForm(writeTZ(in.tz, cur.tz), in.day) ELSE e.form
      /\ in.rule <=> RuleAfter(e, c)
      /\ ExAfter(e, c) = IF in.rule THEN {o[1] : o \in in.ex} ELSE {}
      /\ titleOrDefault(in.title) = TitleAfter(e, c)
      /\ in.note = NoteAfter(e, c)
      /\ statusOrDefault(in.status) = StatusAfter(e, c)
      /\ Meaning(in.alarms) = RingsAfter(e, c)
      /\ OwnAfter(e, c) <=> e.own \/ in.alarms # {}
      /\ GuestsChange(cur, in) => c.f = "guests" /\ in.guests = c.guests
      /\ c.f = "guests" /\ ~GuestsChange(cur, in) => c.guests = Listed(r.list.lines)
      /\ \A n \in in.alarms : Settled(n, in.day)
  BY DescribesParts
<1>4. q.list.lines = r.list.lines
  BY DEF Kept
<1> HIDE DEF e, v, cur, now
<1>5. StartAfter(v, c) = StartAfter(e, c) /\ FormOf(v, c) = FormOf(e, c) /\ ExAfter(v, c) = ExAfter(e, c)
  BY <1>1, Zenon DEF StartAfter, FormOf, ExAfter
<1>6. /\ TitleAfter(v, c) = TitleAfter(e, c) /\ NoteAfter(v, c) = NoteAfter(e, c)
      /\ StatusAfter(v, c) = StatusAfter(e, c)
  BY <1>1, Zenon DEF TitleAfter, NoteAfter, StatusAfter
<1>7. RuleAfter(v, c) = RuleAfter(e, c)
  BY <1>1, Zenon DEF RuleAfter
<1>8. RingsAfter(v, c) = RingsAfter(e, c)
  BY <1>1, Zenon DEF RingsAfter
<1>9. OwnAfter(v, c) = OwnAfter(e, c)
  BY <1>1, <1>8, Zenon DEF OwnAfter
<1>10. /\ in.start = StartAfter(v, c)
       /\ in.day <=> FormOf(v, c) = "DATE"
       /\ ExAfter(v, c) = IF in.rule THEN {o[1] : o \in in.ex} ELSE {}
       /\ titleOrDefault(in.title) = TitleAfter(v, c)
       /\ in.note = NoteAfter(v, c)
       /\ statusOrDefault(in.status) = StatusAfter(v, c)
       /\ Meaning(in.alarms) = RingsAfter(v, c)
  BY <1>3, <1>5, <1>6, <1>8
<1>11. FormOf(v, c) = IF BoundsMove(now, in) THEN DateForm(writeTZ(in.tz, now.tz), in.day) ELSE v.form
  BY <1>1, <1>2, <1>3, <1>5, Zenon
<1>12. (in.rule <=> RuleAfter(v, c)) /\ (OwnAfter(v, c) <=> v.own \/ in.alarms # {})
  BY <1>1, <1>3, <1>7, <1>9, Zenon
<1>13. /\ GuestsChange(now, in) => c.f = "guests" /\ in.guests = c.guests
       /\ c.f = "guests" /\ ~GuestsChange(now, in) => c.guests = Listed(q.list.lines)
  BY <1>2, <1>3, <1>4, Zenon
<1> QED
  BY <1>3, <1>10, <1>11, <1>12, <1>13, Zenon DEF Describes, v, now

\* An event with other lines, or other answers.
XReplaced(e, x) == [e EXCEPT !.x = x]
AnswersReplaced(e, rsvp) == [e EXCEPT !.rsvp = rsvp]

\* Events that differ in lines, or in answers, alone.
LEMMA ReplacedFields ==
  ASSUME NEW e, IsEv(e), NEW v, IsEv(v), SameEvent(v, e), v.seq = e.seq
  PROVE  /\ v.rsvp = e.rsvp => v = XReplaced(e, v.x)
         /\ v.x = e.x => v = AnswersReplaced(e, v.rsvp)
<1> DEFINE start == e.start
           form == e.form
           rule == e.rule
           ex == e.ex
           organizer == e.organizer
           seq == e.seq
           title == e.title
           note == e.note
           status == e.status
           lines == e.lines
           rsvp == e.rsvp
           own == e.own
           rings == e.rings
           x == e.x
           rsvp1 == v.rsvp
           x1 == v.x
<1>1. e = Ev(start, form, rule, ex, organizer, seq, title, note, status, lines, rsvp, own, rings, x)
  BY Zenon DEF IsEv
<1>2. v = Ev(v.start, v.form, v.rule, v.ex, v.organizer, v.seq, v.title, v.note, v.status, v.lines,
             v.rsvp, v.own, v.rings, v.x)
  BY Zenon DEF IsEv
<1>3. v = Ev(start, form, rule, ex, organizer, seq, title, note, status, lines, rsvp1, own, rings,
             x1)
  BY <1>2, Zenon DEF SameEvent
<1> HIDE DEF start, form, rule, ex, organizer, seq, title, note, status, lines, rsvp, own, rings,
     x, rsvp1, x1
<1>4. XReplaced(e, x1) = Ev(start, form, rule, ex, organizer, seq, title, note, status, lines,
                            rsvp, own, rings, x1)
  BY <1>1 DEF Ev, XReplaced
<1>5. AnswersReplaced(e, rsvp1) = Ev(start, form, rule, ex, organizer, seq, title, note, status,
                                     lines, rsvp1, own, rings, x)
  BY <1>1 DEF Ev, AnswersReplaced
<1>6. rsvp1 = rsvp => v = XReplaced(e, x1)
  BY <1>3, <1>4
<1>7. x1 = x => v = AnswersReplaced(e, rsvp1)
  BY <1>3, <1>5
<1> QED
  BY <1>6, <1>7, Zenon DEF x, x1, rsvp, rsvp1

\* Proton's clients add a line the gateway does not know.
LEMMA AddedView ==
  ASSUME NEW r, NEW q, Kept(q, r), SameSeen(q, r), q.rsvp = r.rsvp, NEW n,
         q.signed.X = r.signed.X \cup {n}, q.text.lines.X = r.text.lines.X \cup {n}
  PROVE  View(q) = [View(r) EXCEPT !.x = <<@[1] \cup {n}, @[2] \cup {n}>>]
<1> DEFINE e == View(r)
           v == View(q)
<1>1. IsEv(e) /\ IsEv(v) /\ v.rsvp = q.rsvp /\ e.rsvp = r.rsvp
  BY ViewIs
<1>2. /\ v.x = <<q.signed.X, q.text.lines.X>>
      /\ e.x = <<r.signed.X, r.text.lines.X>>
  BY ViewIs
<1>3. SameEvent(v, e) /\ v.seq = e.seq
  BY SeenEvent
<1> HIDE DEF e, v
<1>4. v = XReplaced(e, v.x)
  BY <1>1, <1>3, ReplacedFields
<1>5. v.x = <<e.x[1] \cup {n}, e.x[2] \cup {n}>>
  BY <1>2
<1>6. XReplaced(e, <<e.x[1] \cup {n}, e.x[2] \cup {n}>>) = [e EXCEPT !.x = <<@[1] \cup {n}, @[2] \cup {n}>>]
  BY Zenon DEF XReplaced
<1>7. v = [e EXCEPT !.x = <<@[1] \cup {n}, @[2] \cup {n}>>]
  BY <1>4, <1>5, <1>6, Zenon
<1> QED
  BY <1>7, Zenon DEF e, v

\* An invitee answers.
LEMMA AnsweredView ==
  ASSUME NEW r, NEW q, Kept(q, r), SameSeen(q, r), q.signed = r.signed, q.text = r.text,
         NEW g, q.rsvp = r.rsvp \cup {g}
  PROVE  View(q) = [View(r) EXCEPT !.rsvp = @ \cup {g}]
<1> DEFINE e == View(r)
           v == View(q)
<1>1. IsEv(e) /\ IsEv(v) /\ v.rsvp = q.rsvp /\ e.rsvp = r.rsvp
  BY ViewIs
<1>2. v.x = e.x
  <2>1. v.x = <<q.signed.X, q.text.lines.X>>
    BY ViewIs, Zenon
  <2>2. e.x = <<r.signed.X, r.text.lines.X>>
    BY ViewIs, Zenon
  <2> HIDE DEF e, v
  <2> QED
    BY <2>1, <2>2, Zenon
<1>3. SameEvent(v, e) /\ v.seq = e.seq
  BY SeenEvent
<1> HIDE DEF e, v
<1>4. v = AnswersReplaced(e, v.rsvp)
  BY <1>1, <1>2, <1>3, ReplacedFields
<1>5. v.rsvp = e.rsvp \cup {g}
  BY <1>1
<1>6. AnswersReplaced(e, e.rsvp \cup {g}) = [e EXCEPT !.rsvp = @ \cup {g}]
  BY Zenon DEF AnswersReplaced
<1>7. v = [e EXCEPT !.rsvp = @ \cup {g}]
  BY <1>4, <1>5, <1>6, Zenon
<1> QED
  BY <1>7, Zenon DEF e, v

\* No reminder of a sound row rings after the start, but on the day itself.
LEMMA SoundRings ==
  ASSUME NEW r, Whole(r), Sound(r)
  PROVE  RingsAt(View(r).rings, View(r).form) = View(r).rings
<1> DEFINE day == View(r).form = "DATE"
           list == r.alarms.list
<1>1. list \subseteq Reminders /\ \A n \in list : Settled(n, day)
  BY EventParts, SoundParts
<1>2. View(r).rings = Meaning(list)
  BY ViewIs
<1>3. day \in BOOLEAN
  OBVIOUS
<1>4. RingsAt(View(r).rings, View(r).form) = {x \in View(r).rings : x[2] <= 0 \/ day}
  BY Zenon DEF RingsAt
<1> HIDE DEF day
<1>5. \A n \in list : signedSeconds(n) <= 0 \/ day
  BY <1>1, <1>3, RingsServed
<1>6. \A x \in Meaning(list) : x[2] <= 0 \/ day
  BY <1>5 DEF Meaning
<1> QED
  BY <1>2, <1>4, <1>6

\* A client of Proton's moves the event.
LEMMA MovedView ==
  ASSUME NEW r, Whole(r), Sound(r), NEW start \in Starts, start # View(r).start,
         NEW q, Whole(q), SeqOf(q) = SeqOf(r) + 1, Kept(q, r), q.text = r.text, q.rsvp = r.rsvp,
         q.signed.DTSTART = {<<start, The(r.signed.DTSTART)[2]>>},
         q.signed.RRULE = r.signed.RRULE, q.signed.EXDATE = r.signed.EXDATE,
         q.signed.ORGANIZER = r.signed.ORGANIZER, q.signed.X = r.signed.X
  PROVE  /\ View(q) = Changed(View(r), Move(start, View(r).form))
         /\ Sound(q)
<1> DEFINE e == View(r)
           v == View(q)
           c == Move(start, e.form)
           seq == IF PlanAfter(e, c) = Schedule(e) THEN e.seq ELSE e.seq + 1
           a == AppliedTo(e, c, seq)
           at == The(r.signed.DTSTART)
           to == The(q.signed.DTSTART)
<1>1. IsEv(e) /\ IsEv(v)
  BY ViewIs
<1>2. c.f = "move" /\ c.start = start /\ c.form = e.form
  <2> DEFINE form == e.form
  <2>1. c = [Change("move") EXCEPT !.start = start, !.form = form]
    BY Zenon DEF Move
  <2> HIDE DEF form
  <2>2. c.f = "move" /\ c.start = start /\ c.form = form
    BY <2>1 DEF Change
  <2> QED
    BY <2>2 DEF form
<1> HIDE DEF c
<1>3. Changed(e, c) = a
  BY <1>1, ChangedIs
<1>4. /\ IsEv(a)
      /\ a.start = StartAfter(e, c) /\ a.form = FormOf(e, c) /\ a.rule = RuleAfter(e, c)
      /\ a.ex = ExAfter(e, c) /\ a.organizer = OrganizerAfter(e, c) /\ a.seq = seq
      /\ a.title = TitleAfter(e, c) /\ a.note = NoteAfter(e, c)
      /\ a.status = StatusAfter(e, c) /\ a.lines = LinesAfter(e, c)
      /\ a.rsvp = AnswersAfter(e, c) /\ a.own = OwnAfter(e, c)
      /\ a.rings = RingsAfter(e, c) /\ a.x = e.x
  BY AppliedFields
<1>5. to = <<start, at[2]>>
  BY TheOne
<1>6. /\ e.start = at[1] /\ e.form = IF at[2] = "odd" THEN "UTC" ELSE at[2]
      /\ e.rule = (r.signed.RRULE # {}) /\ e.ex = {o[1] : o \in r.signed.EXDATE}
      /\ e.organizer = (r.signed.ORGANIZER # {})
      /\ e.seq = The(r.signed.SEQUENCE)
      /\ e.title = titleOrDefault(TextOf(r.text.lines.SUMMARY))
      /\ e.note = TextOf(r.text.lines.DESCRIPTION)
      /\ e.status = statusOrDefault(TextOf(r.status))
      /\ e.lines = r.list.lines /\ e.rsvp = r.rsvp
      /\ e.own = r.alarms.own /\ e.rings = Meaning(r.alarms.list)
      /\ e.x = <<r.signed.X, r.text.lines.X>>
  BY ViewIs, Zenon
<1>7. /\ v.start = to[1] /\ v.form = IF to[2] = "odd" THEN "UTC" ELSE to[2]
      /\ v.rule = (q.signed.RRULE # {}) /\ v.ex = {o[1] : o \in q.signed.EXDATE}
      /\ v.organizer = (q.signed.ORGANIZER # {})
      /\ v.seq = The(q.signed.SEQUENCE)
      /\ v.title = titleOrDefault(TextOf(q.text.lines.SUMMARY))
      /\ v.note = TextOf(q.text.lines.DESCRIPTION)
      /\ v.status = statusOrDefault(TextOf(q.status))
      /\ v.lines = q.list.lines /\ v.rsvp = q.rsvp
      /\ v.own = q.alarms.own /\ v.rings = Meaning(q.alarms.list)
      /\ v.x = <<q.signed.X, q.text.lines.X>>
  BY ViewIs, Zenon
<1>8. e.seq = SeqOf(r) /\ v.seq = SeqOf(q)
  BY <1>6, <1>7, Zenon DEF SeqOf
<1>9. RingsAt(e.rings, e.form) = e.rings
  BY SoundRings
<1>10. /\ r.signed.ORGANIZER # {} <=> Listed(r.list.lines) # {}
       /\ "TENTATIVE" \notin r.status
       /\ \A n \in r.alarms.list : Settled(n, e.form = "DATE")
  BY SoundParts
<1>11. e.start # start
  OBVIOUS
<1> HIDE DEF e, v, a, at, to
<1>12. v.start = start /\ v.form = e.form
  <2>1. to[1] = start /\ to[2] = at[2]
    BY <1>5
  <2> QED
    BY <2>1, <1>6, <1>7, Zenon
<1>13. v.rule = e.rule /\ v.ex = e.ex /\ v.organizer = e.organizer
  BY <1>6, <1>7, Zenon
<1>14. v.title = e.title /\ v.note = e.note /\ v.x = e.x
  BY <1>6, <1>7, Zenon
<1>15. /\ v.status = e.status /\ v.lines = e.lines /\ v.rsvp = e.rsvp
       /\ v.own = e.own /\ v.rings = e.rings
  BY <1>6, <1>7, Zenon DEF Kept
<1>16. v.seq = e.seq + 1
  BY <1>8
<1>17. FormAfter(e.form, c) = e.form
  BY <1>2 DEF FormAfter
<1>18. /\ StartAfter(e, c) = start /\ FormOf(e, c) = e.form /\ RuleAfter(e, c) = e.rule
       /\ ExAfter(e, c) = e.ex
  BY <1>2, <1>17, Zenon DEF StartAfter, FormOf, RuleAfter, ExAfter
<1>19. /\ OrganizerAfter(e, c) = e.organizer /\ TitleAfter(e, c) = e.title
       /\ NoteAfter(e, c) = e.note /\ StatusAfter(e, c) = e.status /\ LinesAfter(e, c) = e.lines
       /\ AnswersAfter(e, c) = e.rsvp /\ OwnAfter(e, c) = e.own
  BY <1>2, Zenon DEF OrganizerAfter, TitleAfter, NoteAfter, StatusAfter, LinesAfter, AnswersAfter,
       OwnAfter
<1>20. RingsAfter(e, c) = e.rings
  BY <1>2, <1>9, <1>17 DEF RingsAfter
<1>21. seq = e.seq + 1
  BY <1>11, <1>18 DEF PlanAfter, Schedule
<1>22. a = v
  <2> HIDE DEF seq
  <2>1. /\ v.start = a.start /\ v.form = a.form /\ v.rule = a.rule /\ v.ex = a.ex
        /\ v.organizer = a.organizer /\ v.seq = a.seq /\ v.title = a.title /\ v.note = a.note
        /\ v.status = a.status /\ v.lines = a.lines /\ v.rsvp = a.rsvp /\ v.own = a.own
        /\ v.rings = a.rings /\ v.x = a.x
    BY <1>4, <1>12, <1>13, <1>14, <1>15, <1>16, <1>18, <1>19, <1>20, <1>21, Zenon
  <2> QED
    BY <2>1, <1>1, <1>4, SameEv
<1>23. Sound(q)
  <2>1. /\ q.list.lines = r.list.lines /\ q.status = r.status /\ q.alarms.list = r.alarms.list
    BY DEF Kept
  <2>2. View(q).form = e.form
    BY <1>12 DEF v
  <2> QED
    BY <2>1, <2>2, <1>10, Zenon DEF Sound
<1> QED
  BY <1>3, <1>22, <1>23 DEF e, v, c

\* One writes a note.
LEMMA WroteView ==
  ASSUME NEW r, Whole(r), Sound(r), NEW text,
         NEW q, Kept(q, r), q.signed = r.signed, q.rsvp = r.rsvp,
         q.text.lines.SUMMARY = r.text.lines.SUMMARY,
         q.text.lines.DESCRIPTION = {text}, q.text.lines.X = r.text.lines.X
  PROVE  /\ View(q) = Changed(View(r), Say("note", text))
         /\ Sound(q)
<1> DEFINE e == View(r)
           v == View(q)
           c == Say("note", text)
           at == The(r.signed.DTSTART)
           to == The(q.signed.DTSTART)
           seq == IF PlanAfter(e, c) = Schedule(e) THEN e.seq ELSE e.seq + 1
           a == AppliedTo(e, c, seq)
<1>1. IsEv(e) /\ IsEv(v)
  BY ViewIs
<1>2. c.f = "note" /\ c.text = text
  BY DEF Say, Change
<1> HIDE DEF c
<1>3. Changed(e, c) = a
  BY <1>1, ChangedIs
<1>4. /\ IsEv(a)
      /\ a.start = StartAfter(e, c) /\ a.form = FormOf(e, c) /\ a.rule = RuleAfter(e, c)
      /\ a.ex = ExAfter(e, c) /\ a.organizer = OrganizerAfter(e, c) /\ a.seq = seq
      /\ a.title = TitleAfter(e, c) /\ a.note = NoteAfter(e, c)
      /\ a.status = StatusAfter(e, c) /\ a.lines = LinesAfter(e, c)
      /\ a.rsvp = AnswersAfter(e, c) /\ a.own = OwnAfter(e, c)
      /\ a.rings = RingsAfter(e, c) /\ a.x = e.x
  BY AppliedFields
<1>5. TextOf({text}) = text
  BY TheOne DEF TextOf
<1>6. /\ e.start = at[1] /\ e.form = IF at[2] = "odd" THEN "UTC" ELSE at[2]
      /\ e.rule = (r.signed.RRULE # {}) /\ e.ex = {o[1] : o \in r.signed.EXDATE}
      /\ e.organizer = (r.signed.ORGANIZER # {})
      /\ e.seq = The(r.signed.SEQUENCE)
      /\ e.title = titleOrDefault(TextOf(r.text.lines.SUMMARY))
      /\ e.note = TextOf(r.text.lines.DESCRIPTION)
      /\ e.status = statusOrDefault(TextOf(r.status))
      /\ e.lines = r.list.lines /\ e.rsvp = r.rsvp
      /\ e.own = r.alarms.own /\ e.rings = Meaning(r.alarms.list)
      /\ e.x = <<r.signed.X, r.text.lines.X>>
  BY ViewIs, Zenon
<1>7. /\ v.start = to[1] /\ v.form = IF to[2] = "odd" THEN "UTC" ELSE to[2]
      /\ v.rule = (q.signed.RRULE # {}) /\ v.ex = {o[1] : o \in q.signed.EXDATE}
      /\ v.organizer = (q.signed.ORGANIZER # {})
      /\ v.seq = The(q.signed.SEQUENCE)
      /\ v.title = titleOrDefault(TextOf(q.text.lines.SUMMARY))
      /\ v.note = TextOf(q.text.lines.DESCRIPTION)
      /\ v.status = statusOrDefault(TextOf(q.status))
      /\ v.lines = q.list.lines /\ v.rsvp = q.rsvp
      /\ v.own = q.alarms.own /\ v.rings = Meaning(q.alarms.list)
      /\ v.x = <<q.signed.X, q.text.lines.X>>
  BY ViewIs, Zenon
<1>8. /\ r.signed.ORGANIZER # {} <=> Listed(r.list.lines) # {}
      /\ "TENTATIVE" \notin r.status
      /\ \A n \in r.alarms.list : Settled(n, e.form = "DATE")
  BY SoundParts
<1>9. to = at
  OBVIOUS
<1> HIDE DEF e, v, a, at, to
<1>10. v.start = e.start /\ v.form = e.form /\ v.seq = e.seq
  BY <1>6, <1>7, <1>9, Zenon
<1>11. v.rule = e.rule /\ v.ex = e.ex /\ v.organizer = e.organizer
  BY <1>6, <1>7, Zenon
<1>12. v.title = e.title /\ v.note = text /\ v.x = e.x
  BY <1>5, <1>6, <1>7, Zenon
<1>13. /\ v.status = e.status /\ v.lines = e.lines /\ v.rsvp = e.rsvp
       /\ v.own = e.own /\ v.rings = e.rings
  BY <1>6, <1>7, Zenon DEF Kept
<1>14. /\ StartAfter(e, c) = e.start /\ FormOf(e, c) = e.form /\ RuleAfter(e, c) = e.rule
       /\ ExAfter(e, c) = e.ex
  BY <1>2, Zenon DEF StartAfter, FormOf, RuleAfter, ExAfter
<1>15. /\ OrganizerAfter(e, c) = e.organizer /\ TitleAfter(e, c) = e.title
       /\ NoteAfter(e, c) = text /\ StatusAfter(e, c) = e.status /\ LinesAfter(e, c) = e.lines
       /\ AnswersAfter(e, c) = e.rsvp /\ OwnAfter(e, c) = e.own /\ RingsAfter(e, c) = e.rings
  BY <1>2, Zenon DEF OrganizerAfter, TitleAfter, NoteAfter, StatusAfter, LinesAfter, AnswersAfter,
       OwnAfter, RingsAfter
<1>16. seq = e.seq
  BY <1>14, <1>15 DEF PlanAfter, Schedule
<1>17. a = v
  <2> HIDE DEF seq
  <2>1. /\ v.start = a.start /\ v.form = a.form /\ v.rule = a.rule /\ v.ex = a.ex
        /\ v.organizer = a.organizer /\ v.seq = a.seq /\ v.title = a.title /\ v.note = a.note
        /\ v.status = a.status /\ v.lines = a.lines /\ v.rsvp = a.rsvp /\ v.own = a.own
        /\ v.rings = a.rings /\ v.x = a.x
    BY <1>4, <1>10, <1>11, <1>12, <1>13, <1>14, <1>15, <1>16, Zenon
  <2> QED
    BY <2>1, <1>1, <1>4, SameEv
<1>18. Sound(q)
  <2>1. /\ q.list.lines = r.list.lines /\ q.status = r.status /\ q.alarms.list = r.alarms.list
    BY DEF Kept
  <2>2. View(q).form = e.form /\ q.signed.ORGANIZER = r.signed.ORGANIZER
    BY <1>10 DEF v
  <2> QED
    BY <2>1, <2>2, <1>8, Zenon DEF Sound
<1> QED
  BY <1>3, <1>17, <1>18 DEF e, v, c

-----------------------------------------------------------------------------
(* Every update leaves a row as the gateway writes it. *)

\* What the gateway takes of any client's alarms are entries as it writes them.
LEMMA InputSettled ==
  ASSUME NEW base, Whole(base), Sound(base), NEW c \in Changes, Ordinary
  PROVE  \A n \in Input(base, c).alarms : Settled(n, Input(base, c).day)
<1> DEFINE cur == decryptEvent(base)
           in == Input(base, c)
           form == FormSent(DateForm(cur.tz, cur.day), c)
           day == form = "DATE"
           was == View(base).form = "DATE"
           list == base.alarms.list
<1>1. /\ in.day <=> day
      /\ in.alarms = Taking(IF c.f = "alarms" THEN c.alarms
                            ELSE {Served(n) : n \in cur.alarms}, day)
  <2>1. /\ in.start = IF c.f = "move" THEN c.start ELSE cur.start
        /\ in.day <=> day
        /\ in.tz = IF form \in Zones THEN form ELSE ""
        /\ in.rule = CASE c.f = "once" -> FALSE [] c.f = "repeat" -> TRUE [] OTHER -> cur.rule
        /\ in.ex = {Instant(o, day) : o \in CASE c.f = "once" -> {} [] c.f = "repeat" -> c.ex
                                               [] OTHER -> {o[1] : o \in cur.ex}}
        /\ in.title = IF c.f = "title" THEN c.text ELSE titleOrDefault(cur.title)
        /\ in.note = IF c.f = "note" THEN c.text ELSE cur.note
        /\ in.status = StatusSent(IF c.f = "status" THEN c.text ELSE cur.status)
        /\ in.guests = IF c.f = "guests" THEN c.guests ELSE cur.guests
        /\ in.alarms = Taking(IF c.f = "alarms" THEN c.alarms
                              ELSE {Served(n) : n \in cur.alarms}, day)
        /\ in.replace <=> in.guests # cur.guests
    BY InputIs, Zenon
  <2> HIDE DEF in, cur, day
  <2> QED
    BY <2>1, Zenon
<1>2. in.day \in BOOLEAN
  BY InputType, TakenParts
<1>3. day \in BOOLEAN /\ was \in BOOLEAN
  OBVIOUS
<1>4. cur.alarms = list
  BY DEF decryptEvent
<1>5. list \subseteq Reminders /\ \A n \in list : Settled(n, was)
  BY EventParts, SoundParts
<1> HIDE DEF in, cur, day, was, list
<1>6. in.day = day
  BY <1>1, <1>2, <1>3
<1>7. CASE c.f = "alarms"
  <2>1. in.alarms = Taking(c.alarms, day)
    BY <1>7, <1>1
  <2>2. \A a \in c.alarms : Fits(a.d) \/ TooLong(a.d)
    BY <1>7, ChangeType, Zenon DEF Ordinary
  <2>3. \A n \in Taking(c.alarms, day) : Settled(n, day)
    BY <2>2, <1>3, ChangeType, RingsTaken
  <2> QED
    BY <2>1, <2>3, <1>6, Zenon DEF in
<1>8. CASE c.f # "alarms"
  <2>1. in.alarms = Taking(ServedAll(list), day)
    BY <1>8, <1>1, <1>4, Zenon DEF ServedAll
  <2>2. \A n \in Taking(ServedAll(list), day) : Settled(n, day)
    BY <1>5, <1>3, RingsBack
  <2> QED
    BY <2>1, <2>2, <1>6, Zenon DEF in
<1> QED
  BY <1>7, <1>8

\* An entry that rings when another does is in time when that is.
LEMMA SameSettled ==
  ASSUME NEW list \in SUBSET Reminders, NEW want \in SUBSET Reminders,
         Meaning(list) = Meaning(want),
         NEW was, NEW day, \A n \in list : Settled(n, was), \A n \in want : Settled(n, day)
  PROVE  \A n \in list : Settled(n, day)
<1> SUFFICES ASSUME NEW n \in list
             PROVE  Settled(n, day)
  OBVIOUS
<1>1. <<n.type, signedSeconds(n)>> \in Meaning(want)
  BY DEF Meaning
<1>2. PICK m \in want : signedSeconds(m) = signedSeconds(n)
  BY <1>1 DEF Meaning
<1>3. Settled(m, day) /\ Settled(n, was)
  OBVIOUS
<1>4. totalSeconds(n.d) \in Nat /\ totalSeconds(m.d) \in Nat
  BY TotalIsNat DEF Reminders
<1>5. n.negative \in BOOLEAN /\ m.negative \in BOOLEAN
  BY DEF Reminders
<1>6. InTime(m.negative, m.d, day)
  BY <1>3 DEF Settled
<1>7. InTime(n.negative, n.d, day)
  <2>1. CASE n.negative
    BY <2>1 DEF InTime
  <2>2. CASE ~n.negative /\ m.negative
    BY <2>2, <1>2, <1>4 DEF signedSeconds, InTime
  <2>3. CASE ~n.negative /\ ~m.negative
    BY <2>3, <1>2, <1>4, <1>6 DEF signedSeconds, InTime
  <2> QED
    BY <2>1, <2>2, <2>3, <1>5
<1> QED
  BY <1>3, <1>7 DEF Settled

\* An update leaves organizer and invitees together, the event on or cancelled, and
\* entries as the gateway writes them, from whatever mirror it was computed.
LEMMA UpdatedSound ==
  ASSUME NEW r, Whole(r), ~DecryptFailed(r), Sound(r), NEW in \in Taken, SameType(in),
         \A n \in in.alarms : Settled(n, in.day)
  PROVE  Sound(Updated(r, in))
<1> DEFINE e == View(r)
           cur == decryptEvent(r)
           q == Updated(r, in)
           v == View(q)
           change == GuestsChange(cur, in)
           moves == BoundsMove(cur, in)
           form == DateForm(writeTZ(in.tz, cur.tz), in.day)
           status == statusOrDefault(in.status)
           after == notificationsPayload(r.alarms, in.alarms)
<1>1. /\ r.signed.ORGANIZER # {} <=> Listed(r.list.lines) # {}
      /\ "TENTATIVE" \notin r.status
      /\ \A n \in r.alarms.list : Settled(n, e.form = "DATE")
  BY SoundParts
<1>2. /\ in.day \in BOOLEAN /\ in.guests \subseteq Guests /\ in.alarms \subseteq Reminders
  BY TakenParts
<1>3. /\ cur.day \in BOOLEAN
      /\ cur.start = e.start
  BY Known
<1>4. cur.day <=> e.form = "DATE"
  BY DecryptIs, ViewIs
<1>5. v.form = IF moves THEN form ELSE e.form
  BY UpdatedShows, Zenon
<1>6. Whole(q)
  BY UpdatedWhole
<1>7. (v.organizer <=> q.signed.ORGANIZER # {}) /\ v.lines = q.list.lines
  BY <1>6, EventParts, Zenon
<1>8. (e.organizer <=> r.signed.ORGANIZER # {}) /\ e.lines = r.list.lines
  BY EventParts, Zenon
<1>9. v.organizer <=> IF change THEN in.guests # {} ELSE e.organizer
  BY UpdatedShows, Zenon
<1>10. v.lines = IF change THEN KeptLines(r, in) ELSE e.lines
  BY UpdatedShows, Zenon
<1>11. Listed(KeptLines(r, in)) = in.guests
  BY LinesKept
<1>12. ColumnWhole(r.alarms) /\ r.alarms.list \subseteq Reminders
  BY EventParts
<1>13. /\ Meaning(after.list) = Meaning(in.alarms)
       /\ after.list = r.alarms.list \/ after.list = in.alarms
  BY <1>2, <1>12, ColumnSays
<1>14. PICK st, al, k, s, tl, lk, ll, sp, a :
         /\ q = RowOf(k, s, lk, tl, lk, ll, sp, a, st, al)
         /\ st = IF status # statusOrDefault(cur.status) THEN {status} ELSE r.status
         /\ al = after
  BY UpdatedAfter, Zenon
<1>15. /\ q.status = st /\ q.alarms = al
  BY <1>14 DEF RowOf
<1>16. status \in {"CONFIRMED", "CANCELLED"}
  BY DEF Taken, statusOrDefault
<1> DEFINE was == e.form = "DATE"
           day == in.day
           list == r.alarms.list
           want == in.alarms
<1>17. moves <=> in.start # cur.start \/ in.day # cur.day
  BY Zenon DEF BoundsMove
<1>18. form = "DATE" <=> in.day
  BY <1>2, DateFormType
<1> HIDE DEF e, v, cur, q, form, moves, after, status, change
<1>19. in.day <=> v.form = "DATE"
  BY <1>2, <1>3, <1>4, <1>5, <1>17, <1>18
<1>20. q.signed.ORGANIZER # {} <=> Listed(q.list.lines) # {}
  BY <1>1, <1>7, <1>8, <1>9, <1>10, <1>11, Zenon
<1>21. "TENTATIVE" \notin q.status
  BY <1>1, <1>14, <1>15, <1>16
<1>22. \A n \in after.list : Settled(n, day)
  <2>1. CASE after.list = in.alarms
    BY <2>1
  <2>2. CASE after.list = list
    <3>1. Meaning(list) = Meaning(want)
      BY <2>2, <1>13
    <3>2. \A n \in list : Settled(n, day)
      BY <3>1, <1>1, <1>2, <1>12, SameSettled
    <3> QED
      BY <2>2, <3>2
  <2> QED
    BY <2>1, <2>2, <1>13
<1>23. \A n \in q.alarms.list : Settled(n, v.form = "DATE")
  <2>1. q.alarms.list = after.list
    BY <1>14, <1>15
  <2>2. day = (v.form = "DATE")
    BY <1>19, <1>2
  <2> QED
    BY <2>1, <2>2, <1>22
<1> QED
  BY <1>20, <1>21, <1>23, Zenon DEF Sound, q, v

-----------------------------------------------------------------------------
(* The event a client creates. *)

\* The event a client creates with a resource.
Ideal(res) ==
  [start |-> res.start, form |-> res.form, rule |-> res.rule,
   ex |-> IF res.rule THEN res.ex ELSE {}, organizer |-> res.guests # {}, seq |-> 0,
   title |-> titleOrDefault(res.title), note |-> res.note,
   status |-> StatusFor(res.status),
   lines |-> [g \in Guests |-> IF g \in res.guests THEN "own" ELSE "none"],
   rsvp |-> {}, own |-> TRUE,
   rings |-> UNION {Rings(a, res.form = "DATE") : a \in res.alarms},
   x |-> <<{}, {}>>]

\* A created row, line by line.
LEMMA CreatedFields ==
  ASSUME NEW in \in Taken
  PROVE  LET q == Created(in)
             form == DateForm(in.tz, in.day)
         IN  /\ q.signed.DTSTART = {<<in.start, form>>}
             /\ q.signed.RRULE = IF in.rule THEN {"rule"} ELSE {}
             /\ q.signed.EXDATE = {<<o, form>> : o \in IF in.rule THEN {e[1] : e \in in.ex} ELSE {}}
             /\ q.signed.ORGANIZER = IF in.guests # {} THEN {"me"} ELSE {}
             /\ q.signed.SEQUENCE = {0} /\ q.signed.X = {}
             /\ q.text.lines.SUMMARY = Lines(in.title)
             /\ q.text.lines.DESCRIPTION = Lines(in.note) /\ q.text.lines.X = {}
             /\ q.list.lines = [g \in Guests |-> IF g \in in.guests THEN "own" ELSE "none"]
             /\ q.rsvp = {} /\ q.status = {statusOrDefault(in.status)}
             /\ q.alarms.own = TRUE /\ q.alarms.list = in.alarms
<1> DEFINE form == DateForm(in.tz, in.day)
           occs == IF in.rule THEN {e[1] : e \in in.ex} ELSE {}
           packet == [key |-> 1, by |-> "calendar"]
           start == {<<in.start, form>>}
           rule == IF in.rule THEN {"rule"} ELSE {}
           ex == {<<o, form>> : o \in occs}
           organizer == IF in.guests # {} THEN {"me"} ELSE {}
           title == Lines(in.title)
           note == Lines(in.note)
           signed == SignedCard(in.start, form, in.rule, occs, in.guests # {}, 0, {})
           words == TextCard(in.title, in.note, {})
           lines == [g \in Guests |-> IF g \in in.guests THEN "own" ELSE "none"]
           status == {statusOrDefault(in.status)}
           list == in.alarms
           alarms == OwnList(in.alarms)
           q == Created(in)
           no == FALSE
           yes == TRUE
           never == {}
<1>1. q = RowOf(packet, signed, 1, words, 1, lines, no, never, status, alarms)
  BY Zenon DEF Created, RowOf
<1>2. signed = [DTSTART |-> start, RRULE |-> rule, EXDATE |-> ex, ORGANIZER |-> organizer,
                SEQUENCE |-> {0}, X |-> never]
  BY Zenon DEF SignedCard
<1>3. words = [SUMMARY |-> title, DESCRIPTION |-> note, X |-> never]
  BY Zenon DEF TextCard
<1>4. alarms = [own |-> yes, list |-> list]
  BY Zenon DEF OwnList
<1> HIDE DEF q, packet, signed, start, rule, ex, organizer, title, note, words, lines, status,
     list, alarms, no, yes, never
<1>5. /\ q.signed = signed /\ q.text.lines = words /\ q.list.lines = lines /\ q.rsvp = never
      /\ q.status = status /\ q.alarms = alarms
  BY <1>1 DEF RowOf
<1>6. /\ signed.DTSTART = start /\ signed.RRULE = rule /\ signed.EXDATE = ex
      /\ signed.ORGANIZER = organizer /\ signed.SEQUENCE = {0} /\ signed.X = never
  BY <1>2
<1>7. words.SUMMARY = title /\ words.DESCRIPTION = note /\ words.X = never
  BY <1>3
<1>8. alarms.own = yes /\ alarms.list = list
  BY <1>4
<1>9. q.signed.DTSTART = start /\ q.signed.RRULE = rule /\ q.signed.EXDATE = ex
  BY <1>5, <1>6
<1>10. q.signed.ORGANIZER = organizer /\ q.signed.SEQUENCE = {0} /\ q.signed.X = never
  BY <1>5, <1>6
<1>11. /\ q.text.lines.SUMMARY = title /\ q.text.lines.DESCRIPTION = note /\ q.text.lines.X = never
  BY <1>5, <1>7
<1>12. q.alarms.own = yes /\ q.alarms.list = list
  BY <1>5, <1>8
<1> QED
  BY <1>5, <1>9, <1>10, <1>11, <1>12, Zenon
     DEF q, start, rule, ex, organizer, title, note, lines, status, list, yes, never

\* What the gateway takes from a client that creates an event.
LEMMA TakenIs ==
  ASSUME NEW res
  PROVE  LET in == veventToInput(res)
             day == res.form = "DATE"
         IN  /\ in.start = res.start /\ in.day = day
             /\ in.tz = IF res.form \in Zones THEN res.form ELSE ""
             /\ in.rule = res.rule /\ in.ex = {Instant(o, day) : o \in res.ex}
             /\ in.title = res.title /\ in.note = res.note
             /\ in.status = StatusSent(res.status) /\ in.guests = res.guests
             /\ in.alarms = Taking(res.alarms, day)
<1> DEFINE day == res.form = "DATE"
           start == res.start
           tz == IF res.form \in Zones THEN res.form ELSE ""
           rule == res.rule
           ex == {Instant(o, day) : o \in res.ex}
           title == res.title
           note == res.note
           status == StatusSent(res.status)
           guests == res.guests
           alarms == Taking(res.alarms, day)
           no == FALSE
           in == veventToInput(res)
<1>1. in = [replace |-> no, start |-> start, day |-> day, tz |-> tz, rule |-> rule,
            ex |-> ex, title |-> title, note |-> note, status |-> status,
            guests |-> guests, alarms |-> alarms]
  BY Zenon DEF veventToInput, StatusSent, Taking
<1> HIDE DEF in, no, start, day, tz, rule, ex, title, note, status, guests, alarms
<1>2. /\ in.start = start /\ in.day = day /\ in.tz = tz /\ in.rule = rule /\ in.ex = ex
      /\ in.title = title /\ in.note = note /\ in.status = status /\ in.guests = guests
      /\ in.alarms = alarms
  BY <1>1
<1> QED
  BY <1>2, Zenon DEF in, start, day, tz, rule, ex, title, note, status, guests, alarms

\* A created row shows the event of the resource, and is one as the gateway writes it.
LEMMA CreatedRight ==
  ASSUME NEW res \in Resources, Ordinary
  PROVE  LET q == Created(veventToInput(res))
         IN  View(q) = Ideal(res) /\ Sound(q)
<1> DEFINE in == veventToInput(res)
           q == Created(in)
           v == View(q)
           day == res.form = "DATE"
           form == DateForm(in.tz, in.day)
           to == The(q.signed.DTSTART)
           ex == IF res.rule THEN res.ex ELSE {}
           lines == [g \in Guests |-> IF g \in res.guests THEN "own" ELSE "none"]
           rings == UNION {Rings(a, day) : a \in res.alarms}
<1>1. /\ res.start \in Starts /\ res.form \in ClientForms /\ res.rule \in BOOLEAN
      /\ res.guests \subseteq Guests /\ res.alarms \subseteq VAlarms
      /\ res.status \in {"", "CONFIRMED", "CANCELLED", "TENTATIVE"}
  BY ClientsAssumption
<1>2. res \in Sendable
  BY ClientsAssumption DEF Sendable, ClientForms
<1>3. in \in Taken /\ SameType(in)
  BY <1>2, TakenType
<1>4. /\ in.start = res.start /\ in.day = day
      /\ in.tz = IF res.form \in Zones THEN res.form ELSE ""
      /\ in.rule = res.rule /\ in.ex = {Instant(o, day) : o \in res.ex}
      /\ in.title = res.title /\ in.note = res.note
      /\ in.status = StatusSent(res.status) /\ in.guests = res.guests
      /\ in.alarms = Taking(res.alarms, day)
  BY TakenIs, Zenon
<1> HIDE DEF in
<1>5. /\ q.signed.DTSTART = {<<in.start, form>>}
      /\ q.signed.RRULE = IF in.rule THEN {"rule"} ELSE {}
      /\ q.signed.EXDATE = {<<o, form>> : o \in IF in.rule THEN {e[1] : e \in in.ex} ELSE {}}
      /\ q.signed.ORGANIZER = IF in.guests # {} THEN {"me"} ELSE {}
      /\ q.signed.SEQUENCE = {0} /\ q.signed.X = {}
      /\ q.text.lines.SUMMARY = Lines(in.title)
      /\ q.text.lines.DESCRIPTION = Lines(in.note) /\ q.text.lines.X = {}
      /\ q.list.lines = [g \in Guests |-> IF g \in in.guests THEN "own" ELSE "none"]
      /\ q.rsvp = {} /\ q.status = {statusOrDefault(in.status)}
      /\ q.alarms.own = TRUE /\ q.alarms.list = in.alarms
  BY <1>3, CreatedFields, Zenon
<1>6. /\ IsEv(v)
      /\ v.start = to[1] /\ v.form = IF to[2] = "odd" THEN "UTC" ELSE to[2]
      /\ v.rule = (q.signed.RRULE # {}) /\ v.ex = {o[1] : o \in q.signed.EXDATE}
      /\ v.organizer = (q.signed.ORGANIZER # {})
      /\ v.seq = The(q.signed.SEQUENCE)
      /\ v.title = titleOrDefault(TextOf(q.text.lines.SUMMARY))
      /\ v.note = TextOf(q.text.lines.DESCRIPTION)
      /\ v.status = statusOrDefault(TextOf(q.status))
      /\ v.lines = q.list.lines /\ v.rsvp = q.rsvp
      /\ v.own = q.alarms.own /\ v.rings = Meaning(q.alarms.list)
      /\ v.x = <<q.signed.X, q.text.lines.X>>
  BY ViewIs, Zenon
<1>7. \A a \in res.alarms : Fits(a.d) \/ TooLong(a.d)
  BY Zenon DEF Ordinary
<1>8. day \in BOOLEAN
  OBVIOUS
<1>9. rings = Meaning(in.alarms) /\ \A n \in in.alarms : Settled(n, day)
  <2> HIDE DEF day
  <2> DEFINE taken == Taking(res.alarms, day)
  <2>1. /\ Meaning(taken) = UNION {Rings(a, day) : a \in res.alarms}
        /\ \A n \in taken : Settled(n, day)
    BY <1>1, <1>7, <1>8, RingsTaken
  <2>2. in.alarms = taken
    BY <1>4
  <2> HIDE DEF taken
  <2> QED
    BY <2>1, <2>2
<1> HIDE DEF q, v
<1>10. to = <<res.start, form>>
  <2>1. q.signed.DTSTART = {<<res.start, form>>}
    BY <1>4, <1>5, Zenon
  <2> HIDE DEF form
  <2> QED
    BY <2>1, TheOne, Zenon
<1>11. form = res.form
  <2>1. "UTC" \notin Zones /\ "DATE" \notin Zones /\ "" \notin Zones
    BY NamesAssumption
  <2>2. res.form \in Zones \cup {"UTC", "DATE"}
    BY <1>1 DEF ClientForms, Forms
  <2> QED
    BY <1>4, <2>1, <2>2 DEF DateForm
<1>12. form # "odd"
  BY <1>11, <1>1 DEF ClientForms
<1>13. v.start = res.start /\ v.form = res.form
  <2>1. to[1] = res.start /\ to[2] = form
    BY <1>10
  <2> HIDE DEF to, form
  <2> QED
    BY <2>1, <1>6, <1>11, <1>12
<1>14. v.rule = res.rule
  <2>1. (q.signed.RRULE # {}) = res.rule
    BY <1>1, <1>4, <1>5
  <2> QED
    BY <2>1, <1>6
<1>15. v.ex = ex
  <2>1. \A o \in res.ex : Instant(o, day)[1] = o
    BY DEF Instant
  <2>2. {e[1] : e \in in.ex} = res.ex
    <3> DEFINE F(o) == Instant(o, day)
    <3>1. in.ex = {F(o) : o \in res.ex} /\ \A o \in res.ex : F(o)[1] = o
      BY <1>4, <2>1
    <3> HIDE DEF F
    <3> QED
      BY <3>1
  <2>3. (IF in.rule THEN {e[1] : e \in in.ex} ELSE {}) = ex
    BY <2>2, <1>4
  <2>4. q.signed.EXDATE = {<<o, form>> : o \in ex}
    BY <1>5, <2>3
  <2> DEFINE at(o) == <<o, form>>
             dates == {at(o) : o \in ex}
  <2> HIDE DEF ex
  <2>5. \A o \in ex : at(o)[1] = o
    OBVIOUS
  <2> HIDE DEF at
  <2>6. {e[1] : e \in dates} = ex
    BY <2>5
  <2>7. q.signed.EXDATE = dates
    BY <2>4, Zenon DEF at
  <2> HIDE DEF dates
  <2>8. v.ex = {e[1] : e \in q.signed.EXDATE}
    BY <1>6, Zenon
  <2> QED
    BY <2>6, <2>7, <2>8, Zenon
<1>16. v.organizer = (res.guests # {})
  <2>1. (q.signed.ORGANIZER # {}) = (res.guests # {})
    BY <1>4, <1>5
  <2> QED
    BY <2>1, <1>6
<1>17. v.seq = 0
  <2>1. The({0}) = 0
    BY TheOne
  <2>2. q.signed.SEQUENCE = {0} /\ v.seq = The(q.signed.SEQUENCE)
    BY <1>5, <1>6, Zenon
  <2> QED
    BY <2>1, <2>2, Zenon
<1>18. v.title = titleOrDefault(res.title) /\ v.note = res.note
  <2>1. TextOf(Lines(res.title)) = res.title /\ TextOf(Lines(res.note)) = res.note
    BY TextOfLines
  <2>2. q.text.lines.SUMMARY = Lines(res.title) /\ q.text.lines.DESCRIPTION = Lines(res.note)
    BY <1>4, <1>5, Zenon
  <2> QED
    BY <2>1, <2>2, <1>6, Zenon
<1>19. v.status = StatusFor(res.status)
  <2>1. TextOf({statusOrDefault(in.status)}) = statusOrDefault(in.status)
    BY TheOne DEF TextOf
  <2>2. statusOrDefault(statusOrDefault(in.status)) = StatusFor(res.status)
    BY <1>1, <1>4 DEF statusOrDefault, StatusSent, StatusFor
  <2> QED
    BY <2>1, <2>2, <1>5, <1>6
<1>20. v.lines = lines
  BY <1>4, <1>5, <1>6, Zenon
<1>21. v.rsvp = {} /\ v.own = TRUE
  BY <1>5, <1>6, Zenon
<1>22. v.rings = rings
  BY <1>5, <1>6, <1>9, Zenon
<1>23. v.x = <<{}, {}>>
  BY <1>5, <1>6, Zenon
<1>24. v = Ideal(res)
  <2>1. v = Ev(v.start, v.form, v.rule, v.ex, v.organizer, v.seq, v.title, v.note, v.status,
               v.lines, v.rsvp, v.own, v.rings, v.x)
    BY <1>6, Zenon DEF IsEv
  <2> DEFINE start == res.start
             form0 == res.form
             rule == res.rule
             organizer == res.guests # {}
             title == titleOrDefault(res.title)
             note == res.note
             status == StatusFor(res.status)
             never == {}
             yes == TRUE
             x == <<{}, {}>>
  <2>2. v = Ev(start, form0, rule, ex, organizer, 0, title, note, status, lines, never, yes,
               rings, x)
    BY <2>1, <1>13, <1>14, <1>15, <1>16, <1>17, <1>18, <1>19, <1>20, <1>21, <1>22, <1>23, Zenon
  <2>3. Ideal(res) = Ev(start, form0, rule, ex, organizer, 0, title, note, status, lines, never,
                        yes, rings, x)
    BY Zenon DEF Ideal, Ev
  <2> QED
    BY <2>2, <2>3, Zenon
<1>25. Sound(q)
  <2>1. Listed(q.list.lines) = res.guests
    BY <1>1, <1>4, <1>5 DEF Listed
  <2>2. q.signed.ORGANIZER # {} <=> Listed(q.list.lines) # {}
    BY <2>1, <1>4, <1>5
  <2>3. statusOrDefault(in.status) # "TENTATIVE"
    BY <1>4, <1>1 DEF StatusSent, statusOrDefault
  <2>4. "TENTATIVE" \notin q.status
    BY <2>3, <1>5
  <2>5. \A n \in q.alarms.list : Settled(n, View(q).form = "DATE")
    <3>1. q.alarms.list = in.alarms /\ (View(q).form = "DATE") = day
      BY <1>5, <1>13 DEF v
    <3> QED
      BY <3>1, <1>9
  <2> QED
    BY <2>2, <2>4, <2>5, Zenon DEF Sound
<1> QED
  BY <1>24, <1>25, Zenon DEF v, q, in

-----------------------------------------------------------------------------
(* The steps. *)

\* The invariant, part by part.
LEMMA FaithParts ==
  ASSUME FaithInv
  PROVE  /\ Exists(row) => Sound(row)
         /\ Exists(mirror) => Sound(mirror)
         /\ w.pc # "idle" => Sound(w.row) /\ Sound(w.base)
         /\ w.pc # "idle" => Sensible(eventToVEvent(decryptEvent(w.base)), w.c)
         /\ w.pc = "put" /\ ~w.blind => Describes(w.row, Input(w.base, w.c), w.c)
         /\ w.blind \in BOOLEAN
         /\ Exists(row) /\ unseen = {} => Exists(mirror) /\ Fresh(mirror, row)
         /\ w.pc # "idle" /\ ~w.blind /\ mirror = w.base /\ "theirs" \notin unseen =>
              Fresh(row, w.base) \/ Describes(row, Input(w.base, w.c), w.c)
BY DEF FaithInv, MirrorFresh, HandDescribes, AgainDescribes, AllSound

\* A mirror starts as Proton's row.
LEMMA FaithInit ==
  ASSUME Init, Ordinary
  PROVE  FaithInv /\ Faithful
<1>1. /\ row \in Rows /\ mirror = row /\ w = Idle
      /\ ideal = IF Exists(row) THEN View(row) ELSE [start |-> 0]
  BY DEF Init
<1>2. w.pc = "idle" /\ w.blind = FALSE
  BY <1>1 DEF Idle
<1>3. ~Exists(Gone)
  BY DEF Exists, Gone
<1>4. Exists(row) => Sound(row)
  BY <1>1, <1>3 DEF Ordinary
<1>5. Fresh(row, row)
  BY DEF Fresh
<1>6. Faithful
  BY <1>1 DEF Faithful
<1> QED
  BY <1>1, <1>2, <1>4, <1>5, <1>6 DEF FaithInv, MirrorFresh, HandDescribes, AgainDescribes, AllSound

\* An update starts from a mirror that shows the row, or after one that did as much.
LEMMA FetchesFaith ==
  ASSUME EventInv, FaithInv, Faithful, Ordinary, Exists(row), Exists(mirror),
         NEW c \in Changes, NEW blind \in BOOLEAN, Fetches(c, blind),
         Sensible(eventToVEvent(decryptEvent(mirror)), c),
         ~blind => Fresh(row, mirror) \/ Describes(row, Input(mirror, c), c),
         UNCHANGED <<row, mirror, ideal, unseen, stale, raced>>
  PROVE  FaithInv' /\ Faithful'
<1> DEFINE in == Input(mirror, c)
<1>1. Whole(row) /\ Whole(mirror)
  BY InvParts
<1>2. Sound(row) /\ Sound(mirror)
  BY FaithParts
<1>3. MirrorFresh' /\ Faithful'
  BY DEF FaithInv, MirrorFresh, Faithful
<1>4. CASE Degraded(row, in)
  <2>1. w' = Idle
    BY <1>4 DEF Fetches
  <2>2. w'.pc = "idle" /\ w'.blind = FALSE
    BY <2>1 DEF Idle
  <2> QED
    BY <2>2, <1>2, <1>3 DEF FaithInv, HandDescribes, AgainDescribes, AllSound
<1>5. CASE ~Degraded(row, in)
  <2> DEFINE put == [pc |-> "put", row |-> row, base |-> mirror, blind |-> blind, c |-> c]
  <2>1. w' = put
    BY <1>5 DEF Fetches
  <2>2. /\ w'.pc = "put" /\ w'.row = row /\ w'.base = mirror /\ w'.c = c
    BY <2>1
  <2>3. w'.blind = blind
    BY <2>1
  <2>4. ~DecryptFailed(row)
    BY <1>5 DEF Degraded
  <2>5. ~blind => Describes(row, in, c)
    BY <1>1, <1>2, <2>4, InputDescribes
  <2> HIDE DEF put, in
  <2>6. ~w'.blind => Describes(w'.row, in, c)
    BY <2>2, <2>3, <2>5, Zenon
  <2>7. HandDescribes'
    <3>1. ~w'.blind => Describes(w'.row, Input(w'.base, w'.c), w'.c)
      BY <2>2, <2>6, Zenon DEF in
    <3>2. Sensible(eventToVEvent(decryptEvent(w'.base)), w'.c)
      BY <2>2, Zenon
    <3> QED
      BY <3>1, <3>2, Zenon DEF HandDescribes
  <2>8. AgainDescribes'
    <3>1. ~w'.blind => Describes(row', Input(w'.base, w'.c), w'.c)
      BY <2>2, <2>6, Zenon DEF in
    <3> QED
      BY <3>1, Zenon DEF AgainDescribes
  <2>9. AllSound'
    <3>1. Sound(row') /\ Sound(mirror') /\ Sound(w'.row) /\ Sound(w'.base)
      BY <2>2, <1>2, Zenon
    <3> QED
      BY <3>1, Zenon DEF AllSound
  <2>10. w'.blind \in BOOLEAN
    BY <2>3, Zenon
  <2> QED
    BY <2>7, <2>8, <2>9, <2>10, <1>3, Zenon DEF FaithInv
<1> QED
  BY <1>4, <1>5

\* The row an update puts shows what the change makes of the event, and says so again.
LEMMA PutsFaith ==
  ASSUME EventInv, FaithInv, Faithful, Ordinary, Puts
  PROVE  /\ Sound(row') /\ Faithful'
         /\ ~w.blind => Describes(row', Input(w.base, w.c), w.c)
<1> DEFINE in == Input(w.base, w.c)
           q == Updated(w.row, in)
           c == w.c
<1>1. /\ w.pc = "put" /\ row' = q /\ ideal' = Changed(ideal, c)
      /\ stale' = (stale \/ w.blind) /\ raced' = (raced \/ row # w.row)
  BY DEF Puts
<1>2. /\ Whole(w.row) /\ Whole(w.base) /\ Exists(row) /\ c \in Changes
      /\ ~Degraded(w.row, in)
  BY <1>1, InvParts
<1>3. in \in Taken /\ SameType(in)
  BY <1>2, InputType
<1>4. ~DecryptFailed(w.row)
  BY <1>2 DEF Degraded
<1>5. Sound(w.row) /\ Sound(w.base) /\ (~w.blind => Describes(w.row, in, c))
  BY <1>1, FaithParts
<1>6. \A n \in in.alarms : Settled(n, in.day)
  BY <1>2, <1>5, InputSettled
<1> HIDE DEF in, c
<1>7. Sound(q)
  BY <1>2, <1>3, <1>4, <1>5, <1>6, UpdatedSound
<1>8. ~w.blind => Describes(q, in, c)
  BY <1>2, <1>3, <1>5, UpdatedDescribes
<1>9. ~w.blind => View(q) = Changed(View(w.row), c)
  BY <1>2, <1>3, <1>4, <1>5, UpdatedRight
<1> HIDE DEF q
<1>10. Faithful'
  <2> SUFFICES ASSUME ~stale', ~raced'
               PROVE  View(q) = ideal'
    BY <1>1 DEF Faithful
  <2>1. ~stale /\ ~w.blind /\ ~raced /\ row = w.row
    BY <1>1
  <2>2. View(row) = ideal
    BY <2>1, <1>2 DEF Faithful
  <2> QED
    BY <2>1, <2>2, <1>1, <1>9
<1> QED
  BY <1>1, <1>7, <1>8, <1>10, Zenon DEF in, c

\* A put, whose answer arrives or is lost.
LEMMA PutFaith ==
  ASSUME EventInv, FaithInv, Faithful, Ordinary, Put \/ PutLosesAnswer
  PROVE  FaithInv' /\ Faithful'
<1>1. Puts
  BY DEF Put, PutLosesAnswer
<1>2. /\ Sound(row') /\ Faithful'
      /\ ~w.blind => Describes(row', Input(w.base, w.c), w.c)
  BY <1>1, PutsFaith
<1>3. w.pc = "put"
  BY <1>1 DEF Puts
<1>4. CASE Put
  <2>1. w' = Idle /\ mirror' = row' /\ unseen' = {}
    BY <1>4 DEF Put
  <2>2. w'.pc = "idle" /\ w'.blind = FALSE
    BY <2>1 DEF Idle
  <2>3. Exists(row') => Exists(mirror') /\ Fresh(mirror', row')
    BY <2>1 DEF Fresh
  <2>4. Sound(mirror')
    BY <2>1, <1>2
  <2> QED
    BY <2>2, <2>3, <2>4, <1>2 DEF FaithInv, MirrorFresh, HandDescribes, AgainDescribes, AllSound
<1>5. CASE PutLosesAnswer
  <2>1. /\ w' = [w EXCEPT !.pc = "retry"] /\ unseen' = unseen \cup {"ours"}
        /\ mirror' = mirror
    BY <1>5 DEF PutLosesAnswer
  <2>2. w = [pc |-> w.pc, row |-> w.row, base |-> w.base, blind |-> w.blind, c |-> w.c]
    BY DEF EventInv, InHand
  <2>3. w' = [pc |-> "retry", row |-> w.row, base |-> w.base, blind |-> w.blind, c |-> w.c]
    BY <2>1, <2>2
  <2>4. /\ w'.pc = "retry" /\ w'.row = w.row /\ w'.base = w.base /\ w'.blind = w.blind
        /\ w'.c = w.c
    BY <2>3
  <2>5. /\ Sound(w.row) /\ Sound(w.base) /\ (Exists(mirror) => Sound(mirror))
        /\ Sensible(eventToVEvent(decryptEvent(w.base)), w.c) /\ w.blind \in BOOLEAN
    BY <1>3, FaithParts
  <2>6. MirrorFresh'
    BY <2>1 DEF MirrorFresh
  <2>7. HandDescribes'
    <3>1. w'.pc # "put"
      BY <2>4
    <3>2. Sensible(eventToVEvent(decryptEvent(w'.base)), w'.c)
      BY <2>4, <2>5, Zenon
    <3> QED
      BY <3>1, <3>2, Zenon DEF HandDescribes
  <2>8. AgainDescribes'
    <3>1. ~w'.blind => Describes(row', Input(w'.base, w'.c), w'.c)
      BY <1>2, <2>4, Zenon
    <3> QED
      BY <3>1, Zenon DEF AgainDescribes
  <2>9. AllSound'
    <3>1. Sound(row') /\ Sound(w'.row) /\ Sound(w'.base) /\ (Exists(mirror') => Sound(mirror'))
      BY <1>2, <2>1, <2>4, <2>5, Zenon
    <3> QED
      BY <3>1, Zenon DEF AllSound
  <2>10. w'.blind \in BOOLEAN
    BY <2>4, <2>5, Zenon
  <2> QED
    BY <1>2, <2>6, <2>7, <2>8, <2>9, <2>10, Zenon DEF FaithInv
<1> QED
  BY <1>4, <1>5

\* A put that fails changes what is in hand alone.
LEMMA PutFailsFaith ==
  ASSUME EventInv, FaithInv, Faithful, PutFails
  PROVE  FaithInv' /\ Faithful'
<1>1. /\ w.pc = "put" /\ w' = [w EXCEPT !.pc = "retry"]
      /\ UNCHANGED <<row, mirror, ideal, unseen, stale, raced>>
  BY DEF PutFails
<1>2. w = [pc |-> w.pc, row |-> w.row, base |-> w.base, blind |-> w.blind, c |-> w.c]
  BY DEF EventInv, InHand
<1>3. w' = [pc |-> "retry", row |-> w.row, base |-> w.base, blind |-> w.blind, c |-> w.c]
  BY <1>1, <1>2
<1>4. /\ w'.pc = "retry" /\ w'.row = w.row /\ w'.base = w.base /\ w'.blind = w.blind
      /\ w'.c = w.c
  BY <1>3
<1>5. w'.pc # "put" /\ w.pc # "idle"
  BY <1>1, <1>4
<1>6. HandDescribes'
  <2>1. Sensible(eventToVEvent(decryptEvent(w'.base)), w'.c)
    BY <1>4, <1>5, FaithParts, Zenon
  <2> QED
    BY <2>1, <1>5, Zenon DEF HandDescribes
<1>7. AgainDescribes'
  BY <1>1, <1>4, <1>5, Zenon DEF FaithInv, AgainDescribes
<1>8. AllSound'
  BY <1>1, <1>4, <1>5, Zenon DEF FaithInv, AllSound
<1>9. MirrorFresh' /\ Faithful'
  BY <1>1 DEF FaithInv, MirrorFresh, Faithful
<1>10. w'.blind \in BOOLEAN
  BY <1>4, FaithParts, Zenon
<1> QED
  BY <1>6, <1>7, <1>8, <1>9, <1>10, Zenon DEF FaithInv

\* An edit of what the gateway does not know.
LEMMA SeenEdit ==
  ASSUME EventInv, FaithInv, Faithful, Exists(row), NEW q, NEW e, Edits(q, e), Whole(q),
         Kept(q, row), SameSeen(q, row), unseen' = unseen, View(row) = ideal => View(q) = e
  PROVE  FaithInv' /\ Faithful'
<1>1. row' = q /\ ideal' = e /\ UNCHANGED <<mirror, w, stale, raced>>
  BY DEF Edits
<1>2. Fresh(q, row)
  BY SeenFresh
<1>3. Sound(q)
  BY FaithParts, SeenSound
<1>4. MirrorFresh'
  BY <1>1, <1>2, FaithParts DEF MirrorFresh, Fresh
<1>5. HandDescribes'
  BY <1>1, Zenon DEF FaithInv, HandDescribes
<1>6. AgainDescribes'
  <2> SUFFICES ASSUME w.pc # "idle", ~w.blind, mirror = w.base, "theirs" \notin unseen
               PROVE  Fresh(q, w.base) \/ Describes(q, Input(w.base, w.c), w.c)
    BY <1>1, Zenon DEF AgainDescribes
  <2>1. CASE Fresh(row, w.base)
    BY <2>1, <1>2 DEF Fresh
  <2>2. CASE Describes(row, Input(w.base, w.c), w.c)
    <3> DEFINE in == Input(w.base, w.c)
               c == w.c
    <3> HIDE DEF in, c
    <3>1. Describes(row, in, c)
      BY <2>2 DEF in, c
    <3>2. Describes(q, in, c)
      BY <3>1, SeenDescribes
    <3> QED
      BY <3>2 DEF in, c
  <2> QED
    BY <2>1, <2>2, FaithParts
<1>7. AllSound'
  BY <1>1, <1>3, Zenon DEF FaithInv, AllSound
<1>8. Faithful'
  BY <1>1 DEF Faithful
<1> QED
  BY <1>1, <1>4, <1>5, <1>6, <1>7, <1>8 DEF FaithInv

\* An edit the mirror does not show.
LEMMA UnseenEdit ==
  ASSUME EventInv, FaithInv, Faithful, Exists(row), NEW q, NEW e, Edits(q, e), Sound(q),
         unseen' = unseen \cup {"theirs"}, View(row) = ideal => View(q) = e
  PROVE  FaithInv' /\ Faithful'
<1>1. row' = q /\ ideal' = e /\ UNCHANGED <<mirror, w, stale, raced>>
  BY DEF Edits
<1>2. MirrorFresh' /\ AgainDescribes'
  BY DEF MirrorFresh, AgainDescribes
<1>3. HandDescribes'
  BY <1>1, Zenon DEF FaithInv, HandDescribes
<1>4. AllSound'
  BY <1>1, Zenon DEF FaithInv, AllSound
<1>5. Faithful'
  BY <1>1 DEF Faithful
<1> QED
  BY <1>1, <1>2, <1>3, <1>4, <1>5 DEF FaithInv

\* Every step keeps the invariant and Faithful.
LEMMA NextFaith ==
  ASSUME EventInv, FaithInv, Faithful, Ordinary, [Next]_vars
  PROVE  FaithInv' /\ Faithful'
<1>1. ASSUME NEW c \in Changes, Update(c)
      PROVE  FaithInv' /\ Faithful'
  <2> DEFINE blind == unseen # {}
  <2>1. /\ Exists(row) /\ Exists(mirror) /\ Fetches(c, blind)
        /\ Sensible(eventToVEvent(decryptEvent(mirror)), c)
        /\ UNCHANGED <<row, mirror, ideal, unseen, stale, raced>>
    BY <1>1 DEF Update
  <2>2. blind \in BOOLEAN
    OBVIOUS
  <2>3. ~blind => Fresh(row, mirror)
    BY <2>1, FaithParts DEF Fresh
  <2> HIDE DEF blind
  <2> QED
    BY <2>1, <2>2, <2>3, FetchesFaith
<1>2. CASE Retry
  <2>1. /\ w.pc = "retry"
        /\ UNCHANGED <<row, mirror, ideal, unseen, stale, raced>>
    BY <1>2 DEF Retry
  <2>2. Exists(row) /\ Whole(w.base) /\ w.c \in Changes
    BY <2>1, InvParts
  <2>3. /\ Sensible(eventToVEvent(decryptEvent(w.base)), w.c)
        /\ w.blind \in BOOLEAN
        /\ ~w.blind /\ mirror = w.base /\ "theirs" \notin unseen =>
             Fresh(row, w.base) \/ Describes(row, Input(w.base, w.c), w.c)
    BY <2>1, FaithParts
  <2>4. CASE mirror = w.base
    <3> DEFINE blind == w.blind \/ "theirs" \in unseen
               c == w.c
    <3>1. Fetches(c, blind) /\ c \in Changes
      BY <1>2, <2>2, <2>4 DEF Retry
    <3>2. Exists(mirror)
      BY <2>2, <2>4, WholeExists
    <3>3. blind \in BOOLEAN
      BY <2>3
    <3>4. ~blind => Fresh(row, mirror) \/ Describes(row, Input(mirror, c), c)
      BY <2>3, <2>4, Zenon
    <3>5. Sensible(eventToVEvent(decryptEvent(mirror)), c)
      BY <2>3, <2>4, Zenon
    <3> HIDE DEF blind, c
    <3> QED
      BY <3>1, <3>2, <3>3, <3>4, <3>5, <2>1, <2>2, FetchesFaith
  <2>5. CASE mirror # w.base
    <3>1. w' = Idle
      BY <1>2, <2>5 DEF Retry
    <3>2. w'.pc = "idle" /\ w'.blind = FALSE
      BY <3>1 DEF Idle
    <3> QED
      BY <3>2, <2>1 DEF FaithInv, MirrorFresh, HandDescribes, AgainDescribes, AllSound, Faithful
  <2> QED
    BY <2>4, <2>5
<1>3. CASE Put \/ PutLosesAnswer
  BY <1>3, PutFaith
<1>4. CASE PutFails
  BY <1>4, PutFailsFaith
<1>5. ASSUME NEW res \in Resources, Create(res)
      PROVE  FaithInv' /\ Faithful'
  <2> DEFINE q == Created(veventToInput(res))
  <2>1. /\ w.pc = "idle" /\ row' = q /\ mirror' = q /\ ideal' = Ideal(res)
        /\ UNCHANGED <<w, unseen, stale, raced>>
    BY <1>5 DEF Create, Ideal
  <2>2. View(q) = Ideal(res) /\ Sound(q)
    BY CreatedRight
  <2> HIDE DEF q
  <2>3. Fresh(q, q)
    BY DEF Fresh
  <2>4. w'.pc = "idle" /\ w'.blind \in BOOLEAN
    BY <2>1, FaithParts
  <2> QED
    BY <2>1, <2>2, <2>3, <2>4
       DEF FaithInv, MirrorFresh, HandDescribes, AgainDescribes, AllSound, Faithful
<1>6. CASE Poll
  <2>1. mirror' = row /\ unseen' = {} /\ UNCHANGED <<row, w, ideal, stale, raced>>
    BY <1>6 DEF Poll
  <2>2. Fresh(row, row)
    BY DEF Fresh
  <2>3. MirrorFresh' /\ Faithful'
    BY <2>1, <2>2 DEF MirrorFresh, Faithful
  <2>4. AgainDescribes'
    <3>1. row = w.base => Fresh(row', w'.base)
      BY <2>1 DEF Fresh
    <3> QED
      BY <3>1, <2>1, Zenon DEF AgainDescribes
  <2>5. HandDescribes' /\ AllSound' /\ w'.blind \in BOOLEAN
    BY <2>1, Zenon DEF FaithInv, HandDescribes, AllSound
  <2> QED
    BY <2>3, <2>4, <2>5 DEF FaithInv
<1>7. ASSUME NEW start \in Starts, AppMoves(start)
      PROVE  FaithInv' /\ Faithful'
  <2> DEFINE q == [row EXCEPT !.signed.DTSTART = {<<start, The(@)[2]>>},
                              !.signed.SEQUENCE = {View(row).seq + 1}]
             cur == View(row)
             e == Changed(ideal, Move(start, cur.form))
  <2>1. /\ Exists(row) /\ unseen' = unseen \cup {"theirs"} /\ start # cur.start
        /\ Edits(q, e)
    BY <1>7 DEF AppMoves
  <2>2. Whole(row) /\ Sound(row)
    BY <2>1, InvParts, FaithParts
  <2>3. /\ Whole(q) /\ SeqOf(q) = SeqOf(row) + 1
        /\ Kept(q, row) /\ q.text = row.text /\ q.rsvp = row.rsvp
        /\ q.signed.DTSTART = {<<start, The(row.signed.DTSTART)[2]>>}
        /\ q.signed.RRULE = row.signed.RRULE /\ q.signed.EXDATE = row.signed.EXDATE
        /\ q.signed.ORGANIZER = row.signed.ORGANIZER /\ q.signed.X = row.signed.X
    BY <2>2, MovedWhole
  <2> HIDE DEF q
  <2>4. View(q) = Changed(cur, Move(start, cur.form)) /\ Sound(q)
    BY <2>1, <2>2, <2>3, MovedView
  <2>5. cur = ideal => View(q) = e
    BY <2>4
  <2> HIDE DEF e
  <2> QED
    BY <2>1, <2>4, <2>5, UnseenEdit
<1>8. ASSUME NEW text \in Texts, AppWrites(text)
      PROVE  FaithInv' /\ Faithful'
  <2> DEFINE q == [row EXCEPT !.text.lines.DESCRIPTION = {text}]
             e == Changed(ideal, Say("note", text))
  <2>1. /\ Exists(row) /\ unseen' = unseen \cup {"theirs"} /\ Edits(q, e)
    BY <1>8 DEF AppWrites
  <2>2. Whole(row) /\ Sound(row)
    BY <2>1, InvParts, FaithParts
  <2>3. /\ Kept(q, row) /\ q.signed = row.signed /\ q.rsvp = row.rsvp
        /\ q.text.lines.SUMMARY = row.text.lines.SUMMARY
        /\ q.text.lines.DESCRIPTION = {text} /\ q.text.lines.X = row.text.lines.X
    BY <2>2, WroteWhole
  <2> HIDE DEF q
  <2>4. View(q) = Changed(View(row), Say("note", text)) /\ Sound(q)
    BY <2>2, <2>3, WroteView
  <2>5. View(row) = ideal => View(q) = e
    BY <2>4
  <2> HIDE DEF e
  <2> QED
    BY <2>1, <2>4, <2>5, UnseenEdit
<1>9. CASE AppAdds
  <2> DEFINE q == [row EXCEPT !.signed.X = @ \cup {edits}, !.text.lines.X = @ \cup {edits}]
             e == [ideal EXCEPT !.x = <<@[1] \cup {edits}, @[2] \cup {edits}>>]
  <2>1. Exists(row) /\ unseen' = unseen /\ Edits(q, e)
    BY <1>9 DEF AppAdds
  <2>2. Whole(row) /\ edits \in 0..MaxEdits
    BY <2>1, InvParts DEF EventInv, TypeOK
  <2>3. /\ Whole(q) /\ SeqOf(q) = SeqOf(row) /\ PlanOf(q) = PlanOf(row)
        /\ Kept(q, row) /\ q.rsvp = row.rsvp
        /\ q.signed.DTSTART = row.signed.DTSTART /\ q.signed.RRULE = row.signed.RRULE
        /\ q.signed.EXDATE = row.signed.EXDATE /\ q.signed.ORGANIZER = row.signed.ORGANIZER
        /\ q.signed.SEQUENCE = row.signed.SEQUENCE
        /\ q.signed.X = row.signed.X \cup {edits}
        /\ q.text.lines.SUMMARY = row.text.lines.SUMMARY
        /\ q.text.lines.DESCRIPTION = row.text.lines.DESCRIPTION
        /\ q.text.lines.X = row.text.lines.X \cup {edits}
    BY <2>2, AddedWhole, Zenon
  <2> HIDE DEF q
  <2>4. SameSeen(q, row)
    BY <2>3 DEF SameSeen
  <2>5. View(row) = ideal => View(q) = e
    BY <2>3, <2>4, AddedView
  <2> HIDE DEF e
  <2> QED
    BY <2>1, <2>3, <2>4, <2>5, SeenEdit
<1>10. ASSUME NEW g \in Guests, Answers(g)
       PROVE  FaithInv' /\ Faithful'
  <2> DEFINE q == [row EXCEPT !.rsvp = @ \cup {g}]
             e == [ideal EXCEPT !.rsvp = @ \cup {g}]
  <2>1. Exists(row) /\ g \in Listed(row.list.lines) /\ unseen' = unseen /\ Edits(q, e)
    BY <1>10 DEF Answers
  <2>2. Whole(row)
    BY <2>1, InvParts
  <2>3. /\ Whole(q) /\ Kept(q, row) /\ q.signed = row.signed /\ q.text = row.text
        /\ q.rsvp = row.rsvp \cup {g}
    BY <2>1, <2>2, AnsweredWhole
  <2> HIDE DEF q
  <2>4. SameSeen(q, row)
    BY <2>3 DEF SameSeen
  <2>5. View(row) = ideal => View(q) = e
    BY <2>3, <2>4, AnsweredView
  <2> HIDE DEF e
  <2> QED
    BY <2>1, <2>3, <2>4, <2>5, SeenEdit
<1>11. CASE UNCHANGED vars
  BY <1>11, Zenon DEF vars, FaithInv, MirrorFresh, HandDescribes, AgainDescribes, AllSound, Faithful
<1> QED
  BY <1>1, <1>2, <1>3, <1>4, <1>5, <1>6, <1>7, <1>8, <1>9, <1>10, <1>11 DEF Next

\* Of ordinary rows and clients: after any changes by clients and by Proton's own,
\* calls that fail and answers that are lost, Proton's row shows the changes asked
\* for and has lost nothing else, be it a line no CalDAV client sees (the
\* anti-loss rule of update.go); but for updates computed from a mirror that was
\* behind and rows that changed between the fetch and the put.
THEOREM EventsFaithful == Ordinary => (Spec => []Faithful)
<1> SUFFICES ASSUME Ordinary
             PROVE  Spec => []Faithful
  OBVIOUS
<1>1. Init => FaithInv /\ Faithful
  BY FaithInit
<1>2. EventInv /\ FaithInv /\ Faithful /\ [Next]_vars => FaithInv' /\ Faithful'
  BY NextFaith
<1> QED
  BY <1>1, <1>2, EventInvariant, PTL DEF Spec

=============================================================================
