-------------------------- MODULE EventCardsProofs --------------------------
(***************************************************************************)
(* What holds of EventCards for all zones, texts, invitees, alarms and     *)
(* first rows: every row a client's change makes is one Proton can read    *)
(* (EventTypes), its owner can open the cards (RowsStayOpen), and SEQUENCE *)
(* tells its schedules apart (SchedulesTold).                              *)
(***************************************************************************)
EXTENDS EventCards, TLAPS

-----------------------------------------------------------------------------
(* Alarms. *)

\* totalSeconds counts whole seconds.
LEMMA TotalIsNat ==
  ASSUME NEW d \in Duration
  PROVE  totalSeconds(d) \in Nat
BY DEF totalSeconds, Duration, Units

\* A duration of one unit is a duration.
LEMMA OnlyIsDuration ==
  ASSUME NEW u \in Units, NEW n \in Nat
  PROVE  Only(u, n) \in Duration
BY DEF Only, Zero, Duration

\* Several units become one, and one that is as long, to the minute
\* (normalizeTriggerDuration).
LEMMA FoldKeepsMinutes ==
  ASSUME NEW d \in Duration
  PROVE  /\ Folded(d) \in Duration
         /\ totalSeconds(Folded(d)) = 60 * (totalSeconds(d) \div 60)
<1> DEFINE minutes == totalSeconds(d) \div 60
           hours == minutes \div 60
           days == hours \div 24
<1>1. minutes \in Nat
  BY TotalIsNat
<1>2. hours \in Nat /\ minutes = 60 * hours + (minutes % 60)
  BY <1>1
<1>3. days \in Nat /\ hours = 24 * days + (hours % 24)
  BY <1>2
<1> HIDE DEF days
<1>4. days \div 7 \in Nat /\ days = 7 * (days \div 7) + (days % 7)
  BY <1>3
<1>5. minutes % 60 = 0 /\ hours % 24 = 0 => minutes = 1440 * days
  BY <1>2, <1>3
<1>6. minutes = 1440 * days => minutes % 1440 = 0
  BY <1>3
<1>7. \A n \in Nat : /\ totalSeconds(Only("minutes", n)) = 60 * n
                     /\ totalSeconds(Only("hours", n)) = 3600 * n
                     /\ totalSeconds(Only("days", n)) = 86400 * n
                     /\ totalSeconds(Only("weeks", n)) = 604800 * n
  BY DEF totalSeconds, Only, Zero, Units
<1> HIDE DEF minutes, hours
<1>13. minutes % 1440 = 0 => minutes % 60 = 0 /\ hours % 24 = 0
  <2>1. ASSUME minutes % 1440 = 0
        PROVE  minutes = 1440 * (minutes \div 1440) /\ minutes \div 1440 \in Nat
    BY <1>1, <2>1
  <2> DEFINE q == minutes \div 1440
  <2> HIDE DEF q
  <2>2. ASSUME minutes = 1440 * q, q \in Nat
        PROVE  minutes % 60 = 0 /\ hours = 24 * q
    <3>1. minutes % 60 = 0
      BY <2>2
    <3> QED
      BY <2>2, <1>2, <3>1
  <2> QED
    BY <2>1, <2>2 DEF q
<1>8. Folded(d) = CASE minutes % 60 # 0 -> Only("minutes", minutes)
        [] minutes % 60 = 0 /\ hours % 24 # 0 -> Only("hours", hours)
        [] minutes % 1440 = 0 /\ days % 7 # 0 -> Only("days", days)
        [] OTHER -> Only("weeks", days \div 7)
  BY DEF Folded, minutes, hours, days
<1>9. CASE minutes % 60 # 0
  <2>1. Folded(d) = Only("minutes", minutes)
    BY <1>8, <1>9, <1>13
  <2> QED
    BY <2>1, <1>1, <1>7, OnlyIsDuration DEF Units, minutes
<1>10. CASE minutes % 60 = 0 /\ hours % 24 # 0
  <2>1. Folded(d) = Only("hours", hours)
    BY <1>8, <1>10, <1>13
  <2>2. 3600 * hours = 60 * minutes
    BY <1>1, <1>2, <1>10
  <2> QED
    BY <2>1, <2>2, <1>2, <1>7, OnlyIsDuration DEF Units, minutes
<1>11. CASE minutes % 60 = 0 /\ hours % 24 = 0 /\ days % 7 # 0
  <2>1. Folded(d) = Only("days", days)
    BY <1>8, <1>11, <1>5, <1>6
  <2>2. 86400 * days = 60 * minutes
    BY <1>1, <1>3, <1>11, <1>5
  <2> QED
    BY <2>1, <2>2, <1>3, <1>7, OnlyIsDuration DEF Units, minutes
<1>12. CASE minutes % 60 = 0 /\ hours % 24 = 0 /\ days % 7 = 0
  <2>1. Folded(d) = Only("weeks", days \div 7)
    BY <1>8, <1>12
  <2>2. 604800 * (days \div 7) = 60 * minutes
    BY <1>1, <1>3, <1>4, <1>12, <1>5
  <2> QED
    BY <2>1, <2>2, <1>4, <1>7, OnlyIsDuration DEF Units, minutes
<1> QED
  BY <1>9, <1>10, <1>11, <1>12

LEMMA NormalIsDuration ==
  ASSUME NEW d \in Duration, NEW negative \in BOOLEAN, NEW allDay \in BOOLEAN
  PROVE  Normal(negative, d, allDay) \in Duration
<1>1. NormalDay(negative, d) \in Duration
  BY DEF NormalDay, Duration, Units
<1>2. [d EXCEPT !["seconds"] = 0] \in Duration
  BY DEF Duration, Units
<1>3. NormalTimed(d) \in Duration
  BY <1>2, FoldKeepsMinutes DEF NormalTimed
<1> QED
  BY <1>1, <1>3 DEF Normal

LEMMA WrittenIsDuration ==
  ASSUME NEW d \in Duration
  PROVE  Written(d) \in Duration
BY DEF Written, Duration, Units

\* What an alarm becomes is an entry of the column.
LEMMA FromAlarmType ==
  ASSUME NEW a \in VAlarms, NEW allDay \in BOOLEAN
  PROVE  FromAlarm(a, allDay) \subseteq Reminders
<1> DEFINE d == Normal(a.negative, a.d, allDay)
           type == IF a.action = "EMAIL" THEN "email" ELSE "device"
           sign == a.negative /\ totalSeconds(d) # 0
<1>1. d \in Duration
  BY NormalIsDuration DEF VAlarms
<1>2. Written(d) \in Duration
  BY <1>1, WrittenIsDuration
<1>3. type \in {"device", "email"}
  OBVIOUS
<1>4. sign \in BOOLEAN
  OBVIOUS
<1> HIDE DEF type, sign
<1>5. Reminder(type, sign, Written(d)) \in Reminders
  BY <1>2, <1>3, <1>4 DEF Reminder, Reminders
<1> QED
  BY <1>5 DEF FromAlarm, type, sign

\* What a client is served for an entry is an alarm.
LEMMA ServedType ==
  ASSUME NEW n \in Reminders
  PROVE  Served(n) \in VAlarms
BY DEF Served, Alarm, Reminders, VAlarms

-----------------------------------------------------------------------------
(* What the conversions make of a row, a resource and a change. *)

Whole(r) == r \in Row /\ Legible(r)

Decrypted ==
  [start : Starts, day : BOOLEAN, tz : Forms, rule : BOOLEAN, ex : SUBSET (Occs \X BOOLEAN),
   organizer : BOOLEAN, seq : Nat, title : Titles, note : Words,
   status : {"", "CONFIRMED", "CANCELLED", "TENTATIVE"}, guests : SUBSET Guests,
   alarms : SUBSET Reminders]

Sendable ==
  [start : Starts, form : Forms, rule : BOOLEAN, ex : SUBSET Occs, title : Titles,
   note : Words, status : {"", "CONFIRMED", "CANCELLED", "TENTATIVE"},
   guests : SUBSET Guests, alarms : SUBSET VAlarms]

Taken ==
  [replace : BOOLEAN, start : Starts, day : BOOLEAN, tz : Zones \cup {""}, rule : BOOLEAN,
   ex : SUBSET (Occs \X BOOLEAN), title : Titles, note : Words,
   status : {"", "CONFIRMED", "CANCELLED"}, guests : SUBSET Guests,
   alarms : SUBSET Reminders]

LEMMA TheOne ==
  ASSUME NEW v
  PROVE  The({v}) = v
BY DEF The

LEMMA TextOfLines ==
  ASSUME NEW t
  PROVE  TextOf(Lines(t)) = t
BY DEF TextOf, Lines, The

LEMMA InstantType ==
  ASSUME NEW occ \in Occs, NEW day \in BOOLEAN
  PROVE  /\ Instant(occ, day) \in Occs \X BOOLEAN
         /\ Instant(occ, day)[1] = occ
BY DEF Instant

\* The one DTSTART and the one SEQUENCE of a row.
LEMMA OneStart ==
  ASSUME NEW r, Whole(r)
  PROVE  /\ The(r.signed.DTSTART) \in Starts \X Forms
         /\ r.signed.DTSTART = {The(r.signed.DTSTART)}
<1>1. PICK at \in Starts \X Forms : r.signed.DTSTART = {at}
  BY DEF Whole, Row, SignedLines
<1> QED
  BY <1>1, TheOne

LEMMA OneSequence ==
  ASSUME NEW r, Whole(r)
  PROVE  /\ The(r.signed.SEQUENCE) \in Nat
         /\ r.signed.SEQUENCE = {The(r.signed.SEQUENCE)}
<1>1. PICK n \in r.signed.SEQUENCE : r.signed.SEQUENCE = {n}
  BY DEF Whole, Legible
<1>2. n \in Nat
  BY DEF Whole, Row, SignedLines
<1> QED
  BY <1>1, <1>2, TheOne

LEMMA DecryptType ==
  ASSUME NEW r, Whole(r)
  PROVE  decryptEvent(r) \in Decrypted
<1> DEFINE at == The(r.signed.DTSTART)
           text == IF Opens(r, r.text) THEN r.text.lines ELSE NoText
           ex == {Instant(e[1], e[2] = "DATE") : e \in r.signed.EXDATE}
           guests == IF Opens(r, r.list) THEN Listed(r.list.lines) ELSE {}
           tz == IF at[2] = "DATE" THEN "UTC" ELSE at[2]
<1>1. at[1] \in Starts /\ at[2] \in Forms
  BY OneStart
<1>2. tz \in Forms
  BY <1>1 DEF Forms
<1>3. ex \in SUBSET (Occs \X BOOLEAN)
  <2> SUFFICES ASSUME NEW e \in r.signed.EXDATE
               PROVE  Instant(e[1], e[2] = "DATE") \in Occs \X BOOLEAN
    OBVIOUS
  <2>1. e[1] \in Occs
    BY DEF Whole, Row, SignedLines
  <2>2. (e[2] = "DATE") \in BOOLEAN
    OBVIOUS
  <2> DEFINE day == e[2] = "DATE"
  <2> HIDE DEF day
  <2>3. day \in BOOLEAN
    BY <2>2 DEF day
  <2> QED
    BY <2>1, <2>3, InstantType DEF day
<1>4. TextOf(text.SUMMARY) \in Titles
  <2>1. text.SUMMARY \in {Lines(t) : t \in Titles}
    BY DEF Whole, Row, NoText, TextCard, Titles, Words, TextLines
  <2> QED
    BY <2>1, TextOfLines
<1>5. TextOf(text.DESCRIPTION) \in Words
  <2>1. text.DESCRIPTION \in {Lines(t) : t \in Words}
    BY DEF Whole, Row, NoText, TextCard, Words, TextLines
  <2> QED
    BY <2>1, TextOfLines
<1>6. TextOf(r.status) \in {"", "CONFIRMED", "CANCELLED", "TENTATIVE"}
  <2>1. r.status \in SUBSET {"CONFIRMED", "CANCELLED", "TENTATIVE"}
    BY DEF Whole, Row
  <2> QED
    BY <2>1 DEF TextOf, The
<1>7. guests \in SUBSET Guests
  BY DEF Listed
<1>8. r.alarms.list \in SUBSET Reminders
  BY DEF Whole, Row, Columns
<1>9. The(r.signed.SEQUENCE) \in Nat
  BY OneSequence
<1> DEFINE day == at[2] = "DATE"
           rule == r.signed.RRULE # {}
           organizer == r.signed.ORGANIZER # {}
<1>10. day \in BOOLEAN /\ rule \in BOOLEAN /\ organizer \in BOOLEAN
  OBVIOUS
<1>11. decryptEvent(r) =
         [start |-> at[1], day |-> day, tz |-> tz, rule |-> rule, ex |-> ex,
          organizer |-> organizer, seq |-> The(r.signed.SEQUENCE),
          title |-> TextOf(text.SUMMARY), note |-> TextOf(text.DESCRIPTION),
          status |-> TextOf(r.status), guests |-> guests, alarms |-> r.alarms.list]
  BY DEF decryptEvent
<1>12. at[1] \in Starts
  BY <1>1
<1> DEFINE start == at[1]
           seq == The(r.signed.SEQUENCE)
           title == TextOf(text.SUMMARY)
           note == TextOf(text.DESCRIPTION)
           status == TextOf(r.status)
           alarms == r.alarms.list
<1> HIDE DEF at, text, ex, guests, tz, day, rule, organizer, start, seq, title, note, status, alarms
<1>13. [start |-> start, day |-> day, tz |-> tz, rule |-> rule, ex |-> ex,
        organizer |-> organizer, seq |-> seq, title |-> title, note |-> note,
        status |-> status, guests |-> guests, alarms |-> alarms] \in Decrypted
  BY <1>12, <1>2, <1>3, <1>4, <1>5, <1>6, <1>7, <1>8, <1>9, <1>10
     DEF Decrypted, start, seq, title, note, status, alarms
<1> QED
  BY <1>11, <1>13 DEF start, seq, title, note, status, alarms

LEMMA DateFormType ==
  ASSUME NEW tz, NEW day \in BOOLEAN
  PROVE  /\ DateForm(tz, day) \in ClientForms
         /\ DateForm(tz, day) = "DATE" <=> day
BY NamesAssumption DEF DateForm, Forms, ClientForms

LEMMA ResourceType ==
  ASSUME NEW ev \in Decrypted
  PROVE  eventToVEvent(ev) \in Sendable
<1>1. DateForm(ev.tz, ev.day) \in Forms
  BY DateFormType DEF Decrypted, ClientForms
<1>2. {e[1] : e \in ev.ex} \in SUBSET Occs
  <2> SUFFICES ASSUME NEW e \in ev.ex
               PROVE  e[1] \in Occs
    OBVIOUS
  <2>1. e \in Occs \X BOOLEAN
    BY DEF Decrypted
  <2> QED
    BY <2>1
<1>3. titleOrDefault(ev.title) \in Titles
  BY DEF titleOrDefault, Decrypted, Titles, Words
<1>4. {Served(n) : n \in ev.alarms} \in SUBSET VAlarms
  <2>1. ev.alarms \subseteq Reminders
    BY DEF Decrypted
  <2> QED
    BY <2>1, ServedType
<1>5. /\ ev.start \in Starts /\ ev.rule \in BOOLEAN /\ ev.note \in Words
      /\ ev.status \in {"", "CONFIRMED", "CANCELLED", "TENTATIVE"}
      /\ ev.guests \in SUBSET Guests
  BY DEF Decrypted
<1> QED
  BY <1>1, <1>2, <1>3, <1>4, <1>5 DEF eventToVEvent, Sendable

\* What a change carries.
LEMMA ChangeType ==
  ASSUME NEW c \in Changes
  PROVE  /\ c.f = "move" => c.start \in Starts /\ c.form \in Forms /\ c.form \in ClientForms
         /\ c.f \in {"title", "note"} => c.text \in Words
         /\ c.f = "status" => c.text \in {"", "CANCELLED", "TENTATIVE"}
         /\ c.ex \in SUBSET Occs /\ c.guests \in SUBSET Guests
         /\ c.alarms \in SUBSET VAlarms
         /\ c.f = "alarms" => c.alarms \in AlarmSets
<1>1. CASE c = Change("nothing")
  BY <1>1 DEF Change
<1>2. ASSUME NEW s \in Starts, NEW m \in ClientForms, c = Move(s, m)
      PROVE  /\ c.f = "move" /\ c.start \in Starts /\ c.form \in Forms /\ c.form \in ClientForms
             /\ c.ex = {} /\ c.guests = {} /\ c.alarms = {}
  BY <1>2 DEF Change, Move, ClientForms
<1>3. ASSUME NEW z \in BOOLEAN, c = Once(z)
      PROVE  c.f = "once" /\ c.ex = {} /\ c.guests = {} /\ c.alarms = {}
  BY <1>3 DEF Change, Once
<1>4. ASSUME NEW z \in BOOLEAN, NEW ex \in SUBSET Occs, c = Repeat(z, ex)
      PROVE  c.f = "repeat" /\ c.ex \in SUBSET Occs /\ c.guests = {} /\ c.alarms = {}
  BY <1>4 DEF Change, Repeat
<1>5. ASSUME NEW f \in {"title", "note"}, NEW t \in Words, c = Say(f, t)
      PROVE  /\ c.f \in {"title", "note"} /\ c.text \in Words
             /\ c.ex = {} /\ c.guests = {} /\ c.alarms = {}
  BY <1>5 DEF Change, Say
<1>6. ASSUME NEW t \in {"", "CANCELLED", "TENTATIVE"}, c = Say("status", t)
      PROVE  /\ c.f = "status" /\ c.text \in {"", "CANCELLED", "TENTATIVE"}
             /\ c.ex = {} /\ c.guests = {} /\ c.alarms = {}
  BY <1>6 DEF Change, Say
<1>7. ASSUME NEW z \in BOOLEAN, NEW set \in SUBSET Guests, c = Invite(z, set)
      PROVE  c.f = "guests" /\ c.ex = {} /\ c.guests \in SUBSET Guests /\ c.alarms = {}
  BY <1>7 DEF Change, Invite
<1>8. ASSUME NEW set \in AlarmSets, c = Bell(set)
      PROVE  /\ c.f = "alarms" /\ c.alarms \in AlarmSets
             /\ c.ex = {} /\ c.guests = {} /\ c.alarms \in SUBSET VAlarms
  BY <1>8, ClientsAssumption DEF Change, Bell
<1>9. c \in Moves => \E s \in Starts, m \in ClientForms : c = Move(s, m)
  BY SMT DEF Moves
<1>10. c \in {Once(z) : z \in BOOLEAN} => \E z \in BOOLEAN : c = Once(z)
  BY Zenon
<1>11. c \in Repeats => \E z \in BOOLEAN, ex \in SUBSET Occs : c = Repeat(z, ex)
  BY SMT DEF Repeats
<1>12. c \in Wordings => \E f \in {"title", "note"}, t \in Words : c = Say(f, t)
  BY Zenon DEF Wordings
<1>13. c \in Statuses => \E t \in {"", "CANCELLED", "TENTATIVE"} : c = Say("status", t)
  BY Zenon DEF Statuses
<1>14. c \in Invites => \E z \in BOOLEAN, set \in SUBSET Guests : c = Invite(z, set)
  BY SMT DEF Invites
<1>15. c \in {Bell(set) : set \in AlarmSets} => \E set \in AlarmSets : c = Bell(set)
  BY Zenon
<1>16. \/ c = Change("nothing") \/ c \in Moves \/ c \in {Once(z) : z \in BOOLEAN}
       \/ c \in Repeats \/ c \in Wordings \/ c \in Statuses \/ c \in Invites
       \/ c \in {Bell(set) : set \in AlarmSets}
  BY Zenon DEF Changes
<1>17. CASE c \in Moves
  BY <1>17, <1>9, <1>2
<1>18. CASE c \in {Once(z) : z \in BOOLEAN}
  BY <1>18, <1>10, <1>3
<1>19. CASE c \in Repeats
  BY <1>19, <1>11, <1>4
<1>20. CASE c \in Wordings
  BY <1>20, <1>12, <1>5
<1>21. CASE c \in Statuses
  BY <1>21, <1>13, <1>6
<1>22. CASE c \in Invites
  BY <1>22, <1>14, <1>7
<1>23. CASE c \in {Bell(set) : set \in AlarmSets}
  BY <1>23, <1>15, <1>8
<1> QED
  BY <1>1, <1>16, <1>17, <1>18, <1>19, <1>20, <1>21, <1>22, <1>23

LEMMA SentType ==
  ASSUME NEW res \in Sendable, NEW c \in Changes
  PROVE  Sent(res, c) \in Sendable
<1> DEFINE same == IF c.z /\ res.form # "DATE" THEN [res EXCEPT !.form = "UTC"] ELSE res
<1>1. same \in Sendable
  BY DEF Sendable, Forms
<1>2. Sent(res, c) = CASE c.f = "move" -> [res EXCEPT !.start = c.start, !.form = c.form]
        [] c.f = "once" -> [same EXCEPT !.rule = FALSE, !.ex = {}]
        [] c.f = "repeat" -> [same EXCEPT !.rule = TRUE, !.ex = c.ex]
        [] c.f = "title" -> [same EXCEPT !.title = c.text]
        [] c.f = "note" -> [same EXCEPT !.note = c.text]
        [] c.f = "status" -> [same EXCEPT !.status = c.text]
        [] c.f = "guests" -> [same EXCEPT !.guests = c.guests]
        [] c.f = "alarms" -> [same EXCEPT !.alarms = c.alarms]
        [] OTHER -> same
  BY DEF Sent
<1> HIDE DEF same
<1>3. CASE c.f = "move"
  <2>1. Sent(res, c) = [res EXCEPT !.start = c.start, !.form = c.form]
    BY <1>2, <1>3
  <2> QED
    BY <2>1, <1>3, ChangeType DEF Sendable
<1>4. CASE c.f = "once"
  <2>1. Sent(res, c) = [same EXCEPT !.rule = FALSE, !.ex = {}]
    BY <1>2, <1>4
  <2> QED
    BY <2>1, <1>1 DEF Sendable
<1>5. CASE c.f = "repeat"
  <2>1. Sent(res, c) = [same EXCEPT !.rule = TRUE, !.ex = c.ex]
    BY <1>2, <1>5
  <2> QED
    BY <2>1, <1>1, ChangeType DEF Sendable
<1>6. CASE c.f = "title"
  <2>1. Sent(res, c) = [same EXCEPT !.title = c.text]
    BY <1>2, <1>6
  <2> QED
    BY <2>1, <1>1, <1>6, ChangeType DEF Sendable, Titles, Words
<1>7. CASE c.f = "note"
  <2>1. Sent(res, c) = [same EXCEPT !.note = c.text]
    BY <1>2, <1>7
  <2> QED
    BY <2>1, <1>1, <1>7, ChangeType DEF Sendable
<1>8. CASE c.f = "status"
  <2>1. Sent(res, c) = [same EXCEPT !.status = c.text]
    BY <1>2, <1>8
  <2> QED
    BY <2>1, <1>1, <1>8, ChangeType DEF Sendable
<1>9. CASE c.f = "guests"
  <2>1. Sent(res, c) = [same EXCEPT !.guests = c.guests]
    BY <1>2, <1>9
  <2> QED
    BY <2>1, <1>1, ChangeType DEF Sendable
<1>10. CASE c.f = "alarms"
  <2>1. Sent(res, c) = [same EXCEPT !.alarms = c.alarms]
    BY <1>2, <1>10
  <2> QED
    BY <2>1, <1>1, ChangeType DEF Sendable
<1>11. CASE c.f \notin {"move", "once", "repeat", "title", "note", "status", "guests", "alarms"}
  BY <1>1, <1>2, <1>11
<1> QED
  BY <1>3, <1>4, <1>5, <1>6, <1>7, <1>8, <1>9, <1>10, <1>11

\* All EXDATEs of what is taken from a client are of its DTSTART's value type.
SameType(in) == \A e \in in.ex : e = Instant(e[1], in.day)

LEMMA TakenType ==
  ASSUME NEW res \in Sendable
  PROVE  veventToInput(res) \in Taken /\ SameType(veventToInput(res))
<1> DEFINE day == res.form = "DATE"
           tz == IF res.form \in Zones THEN res.form ELSE ""
           ex == {Instant(o, day) : o \in res.ex}
           status == IF res.status \in {"CONFIRMED", "CANCELLED"} THEN res.status ELSE ""
           alarms == UNION {FromAlarm(a, day) : a \in res.alarms}
<1>1. day \in BOOLEAN
  OBVIOUS
<1>2. tz \in Zones \cup {""}
  OBVIOUS
<1>3. status \in {"", "CONFIRMED", "CANCELLED"}
  OBVIOUS
<1>4. /\ veventToInput(res).day = day
      /\ veventToInput(res) =
           [replace |-> FALSE, start |-> res.start, day |-> day, tz |-> tz, rule |-> res.rule,
            ex |-> ex, title |-> res.title, note |-> res.note, status |-> status,
            guests |-> res.guests, alarms |-> alarms]
  BY DEF veventToInput
<1> HIDE DEF day, tz, status
<1>5. ex \in SUBSET (Occs \X BOOLEAN) /\ \A e \in ex : e = Instant(e[1], day)
  <2>1. ASSUME NEW o \in res.ex
        PROVE  Instant(o, day) \in Occs \X BOOLEAN /\ Instant(o, day)[1] = o
    <3>1. o \in Occs
      BY DEF Sendable
    <3>2. day \in BOOLEAN
      BY <1>1 DEF day
    <3> QED
      BY <3>1, <3>2, InstantType
  <2> QED
    BY <2>1
<1>6. alarms \in SUBSET Reminders
  <2>1. \A a \in res.alarms : FromAlarm(a, day) \subseteq Reminders
    BY <1>1, FromAlarmType DEF Sendable
  <2> QED
    BY <2>1
<1>7. /\ res.start \in Starts /\ res.rule \in BOOLEAN /\ res.title \in Titles
      /\ res.note \in Words /\ res.guests \in SUBSET Guests
  BY DEF Sendable
<1> DEFINE start == res.start
           rule == res.rule
           title == res.title
           note == res.note
           guests == res.guests
<1> HIDE DEF ex, alarms, start, rule, title, note, guests
<1>8. [replace |-> FALSE, start |-> start, day |-> day, tz |-> tz, rule |-> rule,
       ex |-> ex, title |-> title, note |-> note, status |-> status,
       guests |-> guests, alarms |-> alarms] \in Taken
  BY <1>1, <1>2, <1>3, <1>5, <1>6, <1>7 DEF Taken, start, rule, title, note, guests
<1>9. veventToInput(res) \in Taken
  BY <1>4, <1>8 DEF start, rule, title, note, guests
<1> QED
  BY <1>4, <1>5, <1>9 DEF SameType

\* What the gateway takes from a client that was served a whole row.
LEMMA InputType ==
  ASSUME NEW base, Whole(base), NEW c \in Changes
  PROVE  Input(base, c) \in Taken /\ SameType(Input(base, c))
<1> DEFINE in == veventToInput(Sent(eventToVEvent(decryptEvent(base)), c))
           replace == in.guests # decryptEvent(base).guests
<1>1. in \in Taken /\ SameType(in)
  BY DecryptType, ResourceType, SentType, TakenType
<1>2. replace \in BOOLEAN
  OBVIOUS
<1>3. Input(base, c) = [in EXCEPT !.replace = replace]
  BY DEF Input
<1> HIDE DEF in, replace
<1>4. [in EXCEPT !.replace = replace] \in Taken
  BY <1>1, <1>2 DEF Taken
<1>5. [in EXCEPT !.replace = replace].ex = in.ex /\ [in EXCEPT !.replace = replace].day = in.day
  BY <1>1 DEF Taken
<1> QED
  BY <1>1, <1>3, <1>4, <1>5 DEF SameType

-----------------------------------------------------------------------------
(* The cards of an update. *)

\* The lines of the signed card that differ, property by property.
LEMMA SignedAfter ==
  ASSUME NEW r, Whole(r), NEW cur, NEW in
  PROVE  patchCard(r.signed, SignedPatch(cur, in)) =
           [DTSTART |-> IF BoundsMove(cur, in)
                        THEN {<<in.start, DateForm(writeTZ(in.tz, cur.tz), in.day)>>}
                        ELSE r.signed.DTSTART,
            RRULE |-> IF in.rule # cur.rule THEN (IF in.rule THEN {"rule"} ELSE {})
                      ELSE r.signed.RRULE,
            EXDATE |-> IF ExdatesChange(cur, in) \/ ExdatesOrphaned(cur, in)
                       THEN (IF in.rule
                             THEN {<<e[1], DateForm(writeTZ(in.tz, cur.tz), in.day)>> : e \in in.ex}
                             ELSE {})
                       ELSE r.signed.EXDATE,
            ORGANIZER |-> IF GuestsChange(cur, in) THEN (IF in.guests # {} THEN {"me"} ELSE {})
                          ELSE r.signed.ORGANIZER,
            SEQUENCE |-> IF Structural(cur, in) THEN {cur.seq + 1} ELSE r.signed.SEQUENCE,
            X |-> r.signed.X]
<1> DEFINE patch == SignedPatch(cur, in)
           tz == writeTZ(in.tz, cur.tz)
           start == {<<in.start, DateForm(tz, in.day)>>}
           rule == IF in.rule THEN {"rule"} ELSE {}
           ex == IF in.rule THEN {<<e[1], DateForm(tz, in.day)>> : e \in in.ex} ELSE {}
           organizer == IF in.guests # {} THEN {"me"} ELSE {}
           seq == {cur.seq + 1}
           touched ==
             (IF BoundsMove(cur, in) THEN {"DTSTART"} ELSE {})
               \cup (IF in.rule # cur.rule THEN {"RRULE"} ELSE {})
               \cup (IF ExdatesChange(cur, in) \/ ExdatesOrphaned(cur, in) THEN {"EXDATE"} ELSE {})
               \cup (IF Structural(cur, in) THEN {"SEQUENCE"} ELSE {})
               \cup (IF GuestsChange(cur, in) THEN {"ORGANIZER"} ELSE {})
<1>1. patch = [n \in touched |-> CASE n = "DTSTART" -> start [] n = "RRULE" -> rule
                 [] n = "EXDATE" -> ex [] n = "SEQUENCE" -> seq [] n = "ORGANIZER" -> organizer]
  BY Zenon DEF SignedPatch
<1>2. patchCard(r.signed, patch) =
        [n \in DOMAIN r.signed |-> IF n \in DOMAIN patch THEN patch[n] ELSE r.signed[n]]
  BY DEF patchCard
<1>3. r.signed \in SignedLines
  BY DEF Whole, Row
<1>4. DOMAIN r.signed = {"DTSTART", "RRULE", "EXDATE", "ORGANIZER", "SEQUENCE", "X"}
  BY <1>3 DEF SignedLines
<1> HIDE DEF patch, start, rule, ex, organizer, seq
<1>5. /\ "DTSTART" \in touched <=> BoundsMove(cur, in)
      /\ "RRULE" \in touched <=> in.rule # cur.rule
      /\ "EXDATE" \in touched <=> ExdatesChange(cur, in) \/ ExdatesOrphaned(cur, in)
      /\ "ORGANIZER" \in touched <=> GuestsChange(cur, in)
      /\ "SEQUENCE" \in touched <=> Structural(cur, in)
      /\ "X" \notin touched
  OBVIOUS
<1> HIDE DEF touched
<1>6. DOMAIN patch = touched
  BY <1>1
<1>7. /\ "DTSTART" \in touched => patch["DTSTART"] = start
      /\ "RRULE" \in touched => patch["RRULE"] = rule
      /\ "EXDATE" \in touched => patch["EXDATE"] = ex
      /\ "SEQUENCE" \in touched => patch["SEQUENCE"] = seq
      /\ "ORGANIZER" \in touched => patch["ORGANIZER"] = organizer
  BY <1>1
<1> DEFINE at(n) == IF n \in touched THEN patch[n] ELSE r.signed[n]
<1>8. patchCard(r.signed, patch) =
        [n \in {"DTSTART", "RRULE", "EXDATE", "ORGANIZER", "SEQUENCE", "X"} |-> at(n)]
  BY <1>2, <1>4, <1>6, Zenon
<1> HIDE DEF at
<1>9. patchCard(r.signed, patch) =
        [DTSTART |-> at("DTSTART"), RRULE |-> at("RRULE"), EXDATE |-> at("EXDATE"),
         ORGANIZER |-> at("ORGANIZER"), SEQUENCE |-> at("SEQUENCE"), X |-> at("X")]
  BY <1>8
<1>10. /\ at("DTSTART") = IF BoundsMove(cur, in) THEN start ELSE r.signed.DTSTART
       /\ at("RRULE") = IF in.rule # cur.rule THEN rule ELSE r.signed.RRULE
  BY <1>3, <1>5, <1>7 DEF at
<1>11. at("EXDATE") = IF ExdatesChange(cur, in) \/ ExdatesOrphaned(cur, in) THEN ex
                      ELSE r.signed.EXDATE
  BY <1>3, <1>5, <1>7 DEF at
<1>12. /\ at("ORGANIZER") = IF GuestsChange(cur, in) THEN organizer ELSE r.signed.ORGANIZER
       /\ at("SEQUENCE") = IF Structural(cur, in) THEN seq ELSE r.signed.SEQUENCE
       /\ at("X") = r.signed.X
  BY <1>3, <1>5, <1>7 DEF at
<1> QED
  BY <1>9, <1>10, <1>11, <1>12, Zenon DEF patch, start, rule, ex, organizer, seq, tz

\* The lines of the text card.
LEMMA TextAfter ==
  ASSUME NEW r, Whole(r), NEW cur, NEW in
  PROVE  patchCard(r.text.lines, TextPatch(cur, in)) =
           [SUMMARY |-> IF in.title # cur.title THEN Lines(in.title) ELSE r.text.lines.SUMMARY,
            DESCRIPTION |-> IF in.note # cur.note THEN Lines(in.note)
                            ELSE r.text.lines.DESCRIPTION,
            X |-> r.text.lines.X]
<1> DEFINE patch == TextPatch(cur, in)
           touched == (IF in.title # cur.title THEN {"SUMMARY"} ELSE {})
                        \cup (IF in.note # cur.note THEN {"DESCRIPTION"} ELSE {})
           lines == r.text.lines
<1>1. patch = [n \in touched |-> IF n = "SUMMARY" THEN Lines(in.title) ELSE Lines(in.note)]
  BY Zenon DEF TextPatch
<1>2. patchCard(lines, patch) =
        [n \in DOMAIN lines |-> IF n \in DOMAIN patch THEN patch[n] ELSE lines[n]]
  BY DEF patchCard
<1>3. lines \in TextLines
  BY DEF Whole, Row
<1> HIDE DEF lines
<1>4. DOMAIN lines = {"SUMMARY", "DESCRIPTION", "X"}
  BY <1>3 DEF TextLines
<1> HIDE DEF patch
<1>5. /\ "SUMMARY" \in touched <=> in.title # cur.title
      /\ "DESCRIPTION" \in touched <=> in.note # cur.note
      /\ "X" \notin touched
  OBVIOUS
<1> HIDE DEF touched
<1>6. DOMAIN patch = touched
  BY <1>1
<1>7. /\ "SUMMARY" \in touched => patch["SUMMARY"] = Lines(in.title)
      /\ "DESCRIPTION" \in touched => patch["DESCRIPTION"] = Lines(in.note)
  BY <1>1
<1> DEFINE at(n) == IF n \in touched THEN patch[n] ELSE lines[n]
<1>8. patchCard(lines, patch) = [n \in {"SUMMARY", "DESCRIPTION", "X"} |-> at(n)]
  BY <1>2, <1>4, <1>6, Zenon
<1> HIDE DEF at
<1>9. patchCard(lines, patch) =
        [SUMMARY |-> at("SUMMARY"), DESCRIPTION |-> at("DESCRIPTION"), X |-> at("X")]
  BY <1>8
<1>10. /\ at("SUMMARY") = IF in.title # cur.title THEN Lines(in.title) ELSE lines.SUMMARY
       /\ at("DESCRIPTION") = IF in.note # cur.note THEN Lines(in.note) ELSE lines.DESCRIPTION
       /\ at("X") = lines.X
  BY <1>3, <1>5, <1>7 DEF at
<1> QED
  BY <1>9, <1>10, Zenon DEF patch, lines

\* A row by its parts, and a row with some of them replaced.
RowOf(p, s, tk, tl, lk, ll, sp, a, st, al) ==
  [packet |-> p, signed |-> s, text |-> [key |-> tk, lines |-> tl],
   list |-> [key |-> lk, lines |-> ll], split |-> sp, rsvp |-> a, status |-> st, alarms |-> al]
Edited(r, s, tl, st, al) ==
  [r EXCEPT !.signed = s, !.text.lines = tl, !.status = st, !.alarms = al]
Keyed(r, k) == [r EXCEPT !.text.key = k, !.list.key = k]
Relisted(r, k, ll, a) == [r EXCEPT !.list.lines = ll, !.list.key = k, !.rsvp = a]

LEMMA EditedRow ==
  ASSUME NEW p, NEW s, NEW tk, NEW tl, NEW lk, NEW ll, NEW sp, NEW a, NEW st, NEW al,
         NEW s1, NEW tl1, NEW st1, NEW al1
  PROVE  Edited(RowOf(p, s, tk, tl, lk, ll, sp, a, st, al), s1, tl1, st1, al1) =
           RowOf(p, s1, tk, tl1, lk, ll, sp, a, st1, al1)
<1> DEFINE r == RowOf(p, s, tk, tl, lk, ll, sp, a, st, al)
           r1 == [r EXCEPT !.signed = s1]
           r2 == [r1 EXCEPT !.text.lines = tl1]
           r3 == [r2 EXCEPT !.status = st1]
           r4 == [r3 EXCEPT !.alarms = al1]
<1>1. Edited(r, s1, tl1, st1, al1) = r4
  BY DEF Edited, RowOf
<1>2. r1 = RowOf(p, s1, tk, tl, lk, ll, sp, a, st, al)
  BY DEF RowOf
<1> HIDE DEF r1
<1>3. r2 = RowOf(p, s1, tk, tl1, lk, ll, sp, a, st, al)
  BY <1>2 DEF RowOf
<1> HIDE DEF r2
<1>4. r3 = RowOf(p, s1, tk, tl1, lk, ll, sp, a, st1, al)
  BY <1>3 DEF RowOf
<1> HIDE DEF r3
<1>5. r4 = RowOf(p, s1, tk, tl1, lk, ll, sp, a, st1, al1)
  BY <1>4 DEF RowOf
<1> QED
  BY <1>1, <1>5

LEMMA KeyedRow ==
  ASSUME NEW p, NEW s, NEW tk, NEW tl, NEW lk, NEW ll, NEW sp, NEW a, NEW st, NEW al, NEW k
  PROVE  Keyed(RowOf(p, s, tk, tl, lk, ll, sp, a, st, al), k) =
           RowOf(p, s, k, tl, k, ll, sp, a, st, al)
<1> DEFINE r == RowOf(p, s, tk, tl, lk, ll, sp, a, st, al)
           r1 == [r EXCEPT !.text.key = k]
           r2 == [r1 EXCEPT !.list.key = k]
<1>1. Keyed(r, k) = r2
  BY DEF Keyed, RowOf
<1>2. r1 = RowOf(p, s, k, tl, lk, ll, sp, a, st, al)
  BY DEF RowOf
<1> HIDE DEF r1
<1>3. r2 = RowOf(p, s, k, tl, k, ll, sp, a, st, al)
  BY <1>2 DEF RowOf
<1> QED
  BY <1>1, <1>3

LEMMA RelistedRow ==
  ASSUME NEW p, NEW s, NEW tk, NEW tl, NEW lk, NEW ll, NEW sp, NEW a, NEW st, NEW al,
         NEW k, NEW ll1, NEW a1
  PROVE  Relisted(RowOf(p, s, tk, tl, lk, ll, sp, a, st, al), k, ll1, a1) =
           RowOf(p, s, tk, tl, k, ll1, sp, a1, st, al)
<1> DEFINE r == RowOf(p, s, tk, tl, lk, ll, sp, a, st, al)
           r1 == [r EXCEPT !.list.lines = ll1]
           r2 == [r1 EXCEPT !.list.key = k]
           r3 == [r2 EXCEPT !.rsvp = a1]
<1>1. Relisted(r, k, ll1, a1) = r3
  BY DEF Relisted, RowOf
<1>2. r1 = RowOf(p, s, tk, tl, lk, ll1, sp, a, st, al)
  BY DEF RowOf
<1> HIDE DEF r1
<1>3. r2 = RowOf(p, s, tk, tl, k, ll1, sp, a, st, al)
  BY <1>2 DEF RowOf
<1> HIDE DEF r2
<1>4. r3 = RowOf(p, s, tk, tl, k, ll1, sp, a1, st, al)
  BY <1>3 DEF RowOf
<1> QED
  BY <1>1, <1>4

LEMMA PartsOf ==
  ASSUME NEW r, Whole(r)
  PROVE  r = RowOf(r.packet, r.signed, r.text.key, r.text.lines, r.list.key, r.list.lines,
                   r.split, r.rsvp, r.status, r.alarms)
<1>1. r = [packet |-> r.packet, signed |-> r.signed, text |-> r.text, list |-> r.list,
           split |-> r.split, rsvp |-> r.rsvp, status |-> r.status, alarms |-> r.alarms]
  BY DEF Whole, Row
<1>2. /\ r.list = [key |-> r.list.key, lines |-> r.list.lines]
      /\ r.text = [key |-> r.text.key, lines |-> r.text.lines]
  BY DEF Whole, Row
<1> QED
  BY <1>1, <1>2 DEF RowOf

\* Who is kept keeps line and answer.
KeptLines(r, in) ==
  [g \in Guests |-> CASE g \notin in.guests -> "none"
                      [] g \in in.guests /\ r.list.lines[g] # "none" -> r.list.lines[g]
                      [] OTHER -> "own"]
KeptAnswers(r, in) == {g \in in.guests : r.list.lines[g] # "none" /\ g \in r.rsvp}

LEMMA InvitedAfter ==
  ASSUME NEW r, Whole(r), NEW in
  PROVE  Invited(r, in) =
           RowOf(r.packet, r.signed, r.text.key, r.text.lines, r.packet.key, KeptLines(r, in),
                 r.split, KeptAnswers(r, in), r.status, r.alarms)
<1>1. Invited(r, in) = Relisted(r, r.packet.key, KeptLines(r, in), KeptAnswers(r, in))
  BY Zenon DEF Invited, KeptLines, KeptAnswers, Relisted
<1> QED
  BY <1>1, PartsOf, RelistedRow

LEMMA UpdatedAfter ==
  ASSUME NEW r, Whole(r), NEW in
  PROVE  LET cur == decryptEvent(r)
             change == GuestsChange(cur, in)
             status == statusOrDefault(in.status)
         IN  Updated(r, in) =
               RowOf(r.packet, patchCard(r.signed, SignedPatch(cur, in)),
                     r.packet.key, patchCard(r.text.lines, TextPatch(cur, in)),
                     r.packet.key, IF change THEN KeptLines(r, in) ELSE r.list.lines,
                     r.split, IF change THEN KeptAnswers(r, in) ELSE r.rsvp,
                     IF status # statusOrDefault(cur.status) THEN {status} ELSE r.status,
                     notificationsPayload(r.alarms, in.alarms))
<1> DEFINE cur == decryptEvent(r)
           change == GuestsChange(cur, in)
           status == statusOrDefault(in.status)
           next == IF change THEN Invited(r, in) ELSE r
           signed == patchCard(r.signed, SignedPatch(cur, in))
           words == patchCard(r.text.lines, TextPatch(cur, in))
           lines == IF change THEN KeptLines(r, in) ELSE r.list.lines
           answers == IF change THEN KeptAnswers(r, in) ELSE r.rsvp
           column == IF status # statusOrDefault(cur.status) THEN {status} ELSE r.status
           alarms == notificationsPayload(r.alarms, in.alarms)
           key == IF change THEN r.packet.key ELSE r.list.key
<1>1. next = RowOf(r.packet, r.signed, r.text.key, r.text.lines, key, lines, r.split, answers,
                   r.status, r.alarms)
  <2>1. CASE change
    BY <2>1, InvitedAfter
  <2>2. CASE ~change
    BY <2>2, PartsOf
  <2> QED
    BY <2>1, <2>2
<1> DEFINE edited == [next EXCEPT
        !.signed = patchCard(@, SignedPatch(cur, in)),
        !.text.lines = patchCard(@, TextPatch(cur, in)),
        !.status = IF status # statusOrDefault(cur.status) THEN {status} ELSE @,
        !.alarms = notificationsPayload(@, in.alarms)]
<1>2. Updated(r, in) = Resealed(edited)
  BY Zenon DEF Updated
<1> HIDE DEF cur, change, status, next, lines, answers, key
<1>3. /\ next.packet = r.packet /\ next.signed = r.signed /\ next.text.lines = r.text.lines
      /\ next.status = r.status /\ next.alarms = r.alarms
  BY <1>1 DEF RowOf
<1>4. edited = Edited(next, signed, words, column, alarms)
  BY <1>3, Zenon DEF Edited
<1> HIDE DEF signed, words, column, alarms, edited
<1>5. edited = RowOf(r.packet, signed, r.text.key, words, key, lines, r.split, answers, column,
                     alarms)
  BY <1>1, <1>4, EditedRow
<1>6. Resealed(edited) = Keyed(edited, r.packet.key)
  <2>1. edited.packet = r.packet
    BY <1>5 DEF RowOf
  <2> QED
    BY <2>1, Zenon DEF Resealed, Keyed
<1>7. Resealed(edited) = RowOf(r.packet, signed, r.packet.key, words, r.packet.key, lines, r.split,
                               answers, column, alarms)
  BY <1>5, <1>6, KeyedRow
<1> QED
  BY <1>2, <1>7, Zenon DEF cur, change, status, signed, words, lines, answers, column, alarms

\* What a row is made of.
LEMMA WholeParts ==
  ASSUME NEW r
  PROVE  /\ Whole(r) =>
              /\ r.packet \in Packets
              /\ r.signed.RRULE \subseteq {"rule"} /\ r.signed.EXDATE \subseteq Occs \X Forms
              /\ r.signed.ORGANIZER \subseteq {"me", "them"} /\ r.signed.SEQUENCE \subseteq Nat
              /\ r.signed.X \subseteq 0..MaxEdits
         /\ Whole(r) =>
              /\ r.text.key \in Nat /\ r.list.key \in Nat
              /\ r.text.lines.SUMMARY \in {Lines(t) : t \in Titles}
              /\ r.text.lines.DESCRIPTION \in {Lines(t) : t \in Words}
              /\ r.text.lines.X \subseteq 0..MaxEdits
         /\ Whole(r) =>
              /\ r.list.lines \in GuestLines
              /\ r.split \in BOOLEAN /\ r.rsvp \subseteq Guests
              /\ r.status \subseteq {"CONFIRMED", "CANCELLED", "TENTATIVE"}
              /\ r.alarms \in Columns
<1>1. Whole(r) => r \in Row
  BY DEF Whole
<1> QED
  BY <1>1 DEF Row, Packets, SignedLines, TextLines, Columns

\* The column stays one of the two forms it has.
LEMMA ColumnType ==
  ASSUME NEW column \in Columns, ~column.own => column.list = {},
         NEW want \in SUBSET Reminders
  PROVE  /\ notificationsPayload(column, want) \in Columns
         /\ ~notificationsPayload(column, want).own => notificationsPayload(column, want).list = {}
<1>1. OwnList({}) \in Columns /\ OwnList({}).own
  BY DEF OwnList, Columns
<1>2. OwnList(want) \in Columns /\ OwnList(want).own
  BY DEF OwnList, Columns
<1>3. notificationsPayload(column, want) \in {column, OwnList({}), OwnList(want)}
  BY DEF notificationsPayload
<1> QED
  BY <1>1, <1>2, <1>3

\* The gateway writes a signed card Proton can read.
LEMMA SignedLegible ==
  ASSUME NEW r, Whole(r), NEW in \in Taken, SameType(in)
  PROVE  LET s == patchCard(r.signed, SignedPatch(decryptEvent(r), in))
         IN  /\ s \in SignedLines
             /\ \E n \in s.SEQUENCE : s.SEQUENCE = {n}
             /\ s.RRULE = {} => s.EXDATE = {}
             /\ \A d \in s.DTSTART, e \in s.EXDATE : Matches(d, e)
<1> DEFINE cur == decryptEvent(r)
           form == DateForm(writeTZ(in.tz, cur.tz), in.day)
           start == IF BoundsMove(cur, in) THEN {<<in.start, form>>} ELSE r.signed.DTSTART
           rule == IF in.rule # cur.rule THEN (IF in.rule THEN {"rule"} ELSE {}) ELSE r.signed.RRULE
           written == {<<e[1], form>> : e \in in.ex}
           ex == IF ExdatesChange(cur, in) \/ ExdatesOrphaned(cur, in)
                 THEN (IF in.rule THEN written ELSE {})
                 ELSE r.signed.EXDATE
           organizer == IF GuestsChange(cur, in) THEN (IF in.guests # {} THEN {"me"} ELSE {})
                        ELSE r.signed.ORGANIZER
           seq == IF Structural(cur, in) THEN {cur.seq + 1} ELSE r.signed.SEQUENCE
           s == [DTSTART |-> start, RRULE |-> rule, EXDATE |-> ex, ORGANIZER |-> organizer,
                 SEQUENCE |-> seq, X |-> r.signed.X]
<1>1. patchCard(r.signed, SignedPatch(cur, in)) = s
  BY SignedAfter
<1>2. /\ in.day \in BOOLEAN /\ in.rule \in BOOLEAN /\ in.start \in Starts
      /\ in.ex \subseteq Occs \X BOOLEAN
  BY DEF Taken
<1>3. form \in Forms /\ (form = "DATE" <=> in.day)
  BY <1>2, DateFormType DEF ClientForms
<1>4. /\ cur.rule = (r.signed.RRULE # {}) /\ cur.seq = The(r.signed.SEQUENCE)
      /\ cur.day = (The(r.signed.DTSTART)[2] = "DATE")
      /\ cur.ex = {Instant(e[1], e[2] = "DATE") : e \in r.signed.EXDATE}
  BY DEF decryptEvent
<1>5. /\ The(r.signed.DTSTART) \in Starts \X Forms
      /\ r.signed.DTSTART = {The(r.signed.DTSTART)}
  BY OneStart
<1>6. /\ The(r.signed.SEQUENCE) \in Nat /\ r.signed.SEQUENCE = {The(r.signed.SEQUENCE)}
  BY OneSequence
<1> DEFINE at == The(r.signed.DTSTART)
<1> HIDE DEF cur, form
<1>7. /\ r.signed.RRULE \subseteq {"rule"} /\ r.signed.EXDATE \subseteq Occs \X Forms
      /\ r.signed.ORGANIZER \subseteq {"me", "them"} /\ r.signed.X \subseteq 0..MaxEdits
      /\ r.signed.RRULE = {} => r.signed.EXDATE = {}
      /\ \A d \in r.signed.DTSTART, e \in r.signed.EXDATE : Matches(d, e)
  BY WholeParts DEF Whole, Legible
<1>8. \E d \in Starts \X Forms : start = {d}
  BY <1>2, <1>3, <1>5
<1>9. \A d \in start : d[2] = "DATE" <=> in.day
  <2>1. CASE BoundsMove(cur, in)
    BY <2>1, <1>3
  <2>2. CASE ~BoundsMove(cur, in)
    <3>1. in.day = cur.day
      BY <2>2 DEF BoundsMove
    <3> QED
      BY <2>2, <3>1, <1>4, <1>5
  <2> QED
    BY <2>1, <2>2
<1>10. /\ written \in SUBSET (Occs \X Forms)
       /\ \A e \in written : Instant(e[1], e[2] = "DATE") = Instant(e[1], in.day)
  <2>1. written \in SUBSET (Occs \X Forms)
    BY <1>2, <1>3
  <2>2. ASSUME NEW e \in written
        PROVE  Instant(e[1], e[2] = "DATE") = Instant(e[1], in.day)
    <3>1. (e[2] = "DATE") = in.day
      BY <1>2, <1>3
    <3> QED
      BY <3>1
  <2> QED
    BY <2>1, <2>2
<1>11. ex \in SUBSET (Occs \X Forms)
  BY <1>7, <1>10
<1>12. \A e \in ex : Instant(e[1], e[2] = "DATE") = Instant(e[1], in.day)
  <2>1. CASE ExdatesChange(cur, in) \/ ExdatesOrphaned(cur, in)
    BY <2>1, <1>10
  <2>2. CASE ~in.rule /\ ~cur.rule
    <3>1. r.signed.EXDATE = {}
      BY <2>2, <1>4, <1>7
    <3> QED
      BY <3>1, <2>2
  <2>3. CASE ~(ExdatesChange(cur, in) \/ ExdatesOrphaned(cur, in)) /\ in.rule
    <3>1. in.ex = cur.ex
      BY <2>3 DEF ExdatesChange
    <3>2. ASSUME NEW e \in r.signed.EXDATE
          PROVE  Instant(e[1], e[2] = "DATE") = Instant(e[1], in.day)
      <4> DEFINE day == e[2] = "DATE"
                 at1 == Instant(e[1], day)
      <4>1. at1 \in cur.ex
        BY <1>4
      <4>2. at1 = Instant(at1[1], in.day)
        BY <4>1, <3>1 DEF SameType
      <4>3. e[1] \in Occs /\ day \in BOOLEAN
        BY <1>7
      <4> HIDE DEF day
      <4>4. at1[1] = e[1]
        BY <4>3, InstantType
      <4> QED
        BY <4>2, <4>4 DEF day
    <3> QED
      BY <2>3, <3>2
  <2> QED
    BY <2>1, <2>2, <2>3 DEF ExdatesOrphaned
<1>13. rule \in SUBSET {"rule"}
  BY <1>7
<1>14. rule = {} => ex = {}
  <2>1. rule = {} => ~in.rule
    BY <1>4
  <2>2. ~in.rule /\ cur.rule => ex = {}
    BY DEF ExdatesOrphaned
  <2>3. ~in.rule /\ ~cur.rule => ex = {}
    BY <1>4, <1>7
  <2> QED
    BY <2>1, <2>2, <2>3
<1>15. organizer \in SUBSET {"me", "them"}
  BY <1>7
<1>16. \E n \in Nat : seq = {n}
  BY <1>4, <1>6
<1> HIDE DEF start, rule, ex, organizer, seq
<1>17. s \in SignedLines
  <2>1. start \in {{d} : d \in Starts \X Forms}
    BY <1>8
  <2>2. seq \in SUBSET Nat
    BY <1>16
  <2> QED
    BY <2>1, <2>2, <1>7, <1>11, <1>13, <1>15 DEF SignedLines
<1>18. \E n \in s.SEQUENCE : s.SEQUENCE = {n}
  BY <1>16
<1>19. s.RRULE = {} => s.EXDATE = {}
  BY <1>14
<1>20. \A d \in s.DTSTART, e \in s.EXDATE : Matches(d, e)
  <2> SUFFICES ASSUME NEW d \in start, NEW e \in ex
               PROVE  Matches(d, e)
    OBVIOUS
  <2>1. (d[2] = "DATE") = in.day
    BY <1>2, <1>9
  <2> QED
    BY <2>1, <1>12 DEF Matches
<1> HIDE DEF s
<1> QED
  BY <1>1, <1>17, <1>18, <1>19, <1>20 DEF cur

\* A row made of typed parts is one.
SignedWhole(s) ==
  /\ s \in SignedLines
  /\ \E n \in s.SEQUENCE : s.SEQUENCE = {n}
  /\ s.RRULE = {} => s.EXDATE = {}
  /\ \A d \in s.DTSTART, e \in s.EXDATE : Matches(d, e)
ColumnWhole(al) == al \in Columns /\ (~al.own => al.list = {})
RowStatuses == SUBSET {"CONFIRMED", "CANCELLED", "TENTATIVE"}

LEMMA RowOfType ==
  ASSUME NEW p \in Packets, NEW s, SignedWhole(s), NEW tk \in Nat, NEW tl \in TextLines,
         NEW lk \in Nat, NEW ll \in GuestLines, NEW sp \in BOOLEAN,
         NEW a \in SUBSET Guests, a \subseteq Listed(ll), NEW st \in RowStatuses,
         NEW al, ColumnWhole(al)
  PROVE  Whole(RowOf(p, s, tk, tl, lk, ll, sp, a, st, al))
<1> DEFINE r == RowOf(p, s, tk, tl, lk, ll, sp, a, st, al)
<1>1. /\ r.packet = p /\ r.signed = s /\ r.list.lines = ll /\ r.rsvp = a /\ r.alarms = al
  BY DEF RowOf
<1>2. Legible(r)
  BY <1>1 DEF Legible, SignedWhole, ColumnWhole
<1>3. r \in Row
  BY DEF RowOf, Row, SignedWhole, ColumnWhole, RowStatuses
<1> QED
  BY <1>2, <1>3 DEF Whole

LEMMA KeptParts ==
  ASSUME NEW r, Whole(r)
  PROVE  /\ r.packet \in Packets /\ r.packet.key \in Nat /\ r.signed \in SignedLines
         /\ r.text.key \in Nat /\ r.text.lines \in TextLines
         /\ r.list.key \in Nat /\ r.list.lines \in GuestLines
         /\ r.split \in BOOLEAN /\ r.rsvp \in SUBSET Guests /\ r.rsvp \subseteq Listed(r.list.lines)
         /\ r.status \in RowStatuses /\ ColumnWhole(r.alarms) /\ SignedWhole(r.signed)
<1>1. r \in Row /\ Legible(r)
  BY DEF Whole
<1>2. r.packet.key \in Nat
  BY <1>1 DEF Row, Packets
<1>3. /\ r.text.key \in Nat /\ r.text.lines \in TextLines
      /\ r.list.key \in Nat /\ r.list.lines \in GuestLines
  BY <1>1 DEF Row
<1>4. /\ r.packet \in Packets /\ r.signed \in SignedLines /\ r.split \in BOOLEAN
      /\ r.rsvp \in SUBSET Guests /\ r.alarms \in Columns
      /\ r.status \in SUBSET {"CONFIRMED", "CANCELLED", "TENTATIVE"}
  BY <1>1 DEF Row
<1> QED
  BY <1>1, <1>2, <1>3, <1>4 DEF Legible, SignedWhole, RowStatuses, ColumnWhole

LEMMA LinesKept ==
  ASSUME NEW r, Whole(r), NEW in \in Taken
  PROVE  /\ KeptLines(r, in) \in GuestLines
         /\ KeptAnswers(r, in) \in SUBSET Guests
         /\ KeptAnswers(r, in) \subseteq Listed(KeptLines(r, in))
         /\ Listed(KeptLines(r, in)) = in.guests
<1>1. in.guests \subseteq Guests
  BY DEF Taken
<1>2. r.list.lines \in GuestLines
  BY WholeParts
<1>4. KeptLines(r, in) \in GuestLines
  BY <1>2 DEF KeptLines, GuestLines
<1>5. \A g \in Guests : KeptLines(r, in)[g] # "none" <=> g \in in.guests
  BY <1>2 DEF KeptLines
<1>6. Listed(KeptLines(r, in)) = in.guests
  BY <1>1, <1>5 DEF Listed
<1>7. KeptAnswers(r, in) \subseteq in.guests
  BY DEF KeptAnswers
<1> QED
  BY <1>1, <1>4, <1>6, <1>7

\* An update makes of a row that can be read one that can be read.
LEMMA UpdatedWhole ==
  ASSUME NEW r, Whole(r), NEW in \in Taken, SameType(in)
  PROVE  Whole(Updated(r, in))
<1> DEFINE cur == decryptEvent(r)
           change == GuestsChange(cur, in)
           status == statusOrDefault(in.status)
           signed == patchCard(r.signed, SignedPatch(cur, in))
           words == patchCard(r.text.lines, TextPatch(cur, in))
           lines == IF change THEN KeptLines(r, in) ELSE r.list.lines
           answers == IF change THEN KeptAnswers(r, in) ELSE r.rsvp
           column == IF status # statusOrDefault(cur.status) THEN {status} ELSE r.status
           alarms == notificationsPayload(r.alarms, in.alarms)
<1>1. Updated(r, in) = RowOf(r.packet, signed, r.packet.key, words, r.packet.key, lines, r.split,
                             answers, column, alarms)
  BY UpdatedAfter, Zenon
<1>2. /\ signed \in SignedLines
      /\ \E n \in signed.SEQUENCE : signed.SEQUENCE = {n}
      /\ signed.RRULE = {} => signed.EXDATE = {}
      /\ \A d \in signed.DTSTART, e \in signed.EXDATE : Matches(d, e)
  BY SignedLegible
<1>3. words \in TextLines
  <2> DEFINE summary == IF in.title # cur.title THEN Lines(in.title) ELSE r.text.lines.SUMMARY
             description == IF in.note # cur.note THEN Lines(in.note) ELSE r.text.lines.DESCRIPTION
  <2>1. words = [SUMMARY |-> summary, DESCRIPTION |-> description, X |-> r.text.lines.X]
    BY TextAfter, Zenon
  <2>2. in.title \in Titles /\ in.note \in Words
    BY DEF Taken
  <2>3. summary \in {Lines(t) : t \in Titles}
    BY <2>2, WholeParts
  <2>4. description \in {Lines(t) : t \in Words}
    BY <2>2, WholeParts
  <2>5. r.text.lines.X \in SUBSET (0..MaxEdits)
    BY WholeParts
  <2> HIDE DEF words, summary, description
  <2> QED
    BY <2>1, <2>3, <2>4, <2>5 DEF TextLines
<1>4. r.rsvp \subseteq Listed(r.list.lines) /\ (~r.alarms.own => r.alarms.list = {})
  BY DEF Whole, Legible
<1>5. /\ lines \in GuestLines
      /\ answers \in SUBSET Guests /\ answers \subseteq Listed(lines)
  BY <1>4, WholeParts, LinesKept
<1>6. column \in SUBSET {"CONFIRMED", "CANCELLED", "TENTATIVE"}
  <2>1. status \in {"CONFIRMED", "CANCELLED"}
    BY DEF statusOrDefault, Taken
  <2> QED
    BY <2>1, WholeParts
<1>7. /\ alarms \in Columns
      /\ ~alarms.own => alarms.list = {}
  <2>1. in.alarms \in SUBSET Reminders
    BY DEF Taken
  <2>2. r.alarms \in Columns
    BY WholeParts
  <2> QED
    BY <2>1, <2>2, <1>4, ColumnType
<1>8. /\ r.packet \in Packets
      /\ r.packet.key \in Nat /\ r.split \in BOOLEAN
  BY WholeParts DEF Packets
<1>9. SignedWhole(signed) /\ column \in RowStatuses /\ ColumnWhole(alarms)
  BY <1>2, <1>6, <1>7 DEF SignedWhole, RowStatuses, ColumnWhole
<1> HIDE DEF signed, words, lines, answers, column, alarms
<1> QED
  BY <1>1, <1>3, <1>5, <1>8, <1>9, RowOfType

\* A card sealed with the session key of the packet opens when the packet does.
LEMMA SealedOpens ==
  ASSUME NEW r, r.packet.by \in {"calendar", "address"},
         r.text.key = r.packet.key, r.list.key = r.packet.key
  PROVE  ~DecryptFailed(r)
BY DEF DecryptFailed, Opens

LEMMA UpdatedOpens ==
  ASSUME NEW r, Whole(r), NEW in, ~Degraded(r, in)
  PROVE  /\ Updated(r, in).packet = r.packet
         /\ ~DecryptFailed(Updated(r, in))
<1>1. r.packet.by = "calendar"
  BY DEF Degraded
<1>2. PICK q, tl, ll, a, st, al :
        Updated(r, in) = RowOf(r.packet, q, r.packet.key, tl, r.packet.key, ll, r.split, a, st, al)
  BY UpdatedAfter, Zenon
<1>3. /\ Updated(r, in).packet = r.packet
      /\ Updated(r, in).text.key = r.packet.key
      /\ Updated(r, in).list.key = r.packet.key
  BY <1>2 DEF RowOf
<1> QED
  BY <1>1, <1>3, SealedOpens

\* So does a new event.
LEMMA CreatedWhole ==
  ASSUME NEW in \in Taken, SameType(in)
  PROVE  /\ Whole(Created(in)) /\ Exists(Created(in))
         /\ ~DecryptFailed(Created(in))
<1> DEFINE form == DateForm(in.tz, in.day)
           occs == IF in.rule THEN {e[1] : e \in in.ex} ELSE {}
           packet == [key |-> 1, by |-> "calendar"]
           signed == SignedCard(in.start, form, in.rule, occs, in.guests # {}, 0, {})
           words == TextCard(in.title, in.note, {})
           lines == [g \in Guests |-> IF g \in in.guests THEN "own" ELSE "none"]
           status == {statusOrDefault(in.status)}
           alarms == OwnList(in.alarms)
<1>1. Created(in) = RowOf(packet, signed, 1, words, 1, lines, FALSE, {}, status, alarms)
  BY Zenon DEF Created, RowOf
<1>2. /\ in.day \in BOOLEAN /\ in.rule \in BOOLEAN /\ in.start \in Starts
      /\ in.ex \subseteq Occs \X BOOLEAN /\ in.title \in Titles /\ in.note \in Words
      /\ in.alarms \subseteq Reminders /\ in.status \in {"", "CONFIRMED", "CANCELLED"}
  BY DEF Taken
<1>3. form \in Forms
  BY <1>2, DateFormType DEF ClientForms
<1>4. occs \subseteq Occs
  BY <1>2
<1> HIDE DEF form, occs
<1> DEFINE start == {<<in.start, form>>}
           rule == IF in.rule THEN {"rule"} ELSE {}
           ex == {<<o, form>> : o \in occs}
           organizer == IF in.guests # {} THEN {"me"} ELSE {}
<1>5. signed = [DTSTART |-> start, RRULE |-> rule, EXDATE |-> ex, ORGANIZER |-> organizer,
                SEQUENCE |-> {0}, X |-> {}]
  BY DEF SignedCard
<1>6. start \in {{at} : at \in Starts \X Forms}
  BY <1>2, <1>3
<1>7. rule \in SUBSET {"rule"} /\ organizer \in SUBSET {"me", "them"}
  OBVIOUS
<1>8. ex \in SUBSET (Occs \X Forms)
  BY <1>3, <1>4
<1>9. rule = {} => ex = {}
  BY DEF occs
<1>10. \A d \in start, e \in ex : Matches(d, e)
  BY DEF Matches
<1> HIDE DEF signed, start, rule, ex, organizer
<1>11. /\ signed \in SignedLines
       /\ \E n \in signed.SEQUENCE : signed.SEQUENCE = {n}
       /\ signed.RRULE = {} => signed.EXDATE = {}
       /\ \A d \in signed.DTSTART, e \in signed.EXDATE : Matches(d, e)
  <2>1. signed \in SignedLines
    BY <1>5, <1>6, <1>7, <1>8 DEF SignedLines
  <2>2. signed.SEQUENCE = {0}
    BY <1>5
  <2>3. signed.RRULE = {} => signed.EXDATE = {}
    BY <1>5, <1>9
  <2>4. \A d \in signed.DTSTART, e \in signed.EXDATE : Matches(d, e)
    BY <1>5, <1>10
  <2> QED
    BY <2>1, <2>2, <2>3, <2>4
<1>12. words \in TextLines
  BY <1>2 DEF TextCard, TextLines
<1>13. lines \in GuestLines
  BY DEF GuestLines
<1>14. status \in SUBSET {"CONFIRMED", "CANCELLED", "TENTATIVE"}
  BY <1>2 DEF statusOrDefault
<1>15. alarms \in Columns /\ alarms.own
  BY <1>2 DEF OwnList, Columns
<1>16. packet \in Packets
  BY DEF Packets
<1> DEFINE split == FALSE
           answers == {}
<1>20. /\ split \in BOOLEAN /\ answers \in SUBSET Guests /\ answers \subseteq Listed(lines)
       /\ 1 \in Nat
  OBVIOUS
<1>21. Created(in) = RowOf(packet, signed, 1, words, 1, lines, split, answers, status, alarms)
  BY <1>1
<1> HIDE DEF packet, words, lines, status, alarms, split, answers
<1>22. SignedWhole(signed) /\ status \in RowStatuses /\ ColumnWhole(alarms)
  BY <1>11, <1>14, <1>15 DEF SignedWhole, RowStatuses, ColumnWhole
<1>17. Whole(Created(in))
  BY <1>21, <1>12, <1>13, <1>16, <1>20, <1>22, RowOfType
<1>18. /\ Created(in).packet = packet /\ Created(in).text.key = 1 /\ Created(in).list.key = 1
  BY <1>1 DEF RowOf
<1>19. packet.key = 1 /\ packet.by = "calendar"
  BY DEF packet
<1> QED
  BY <1>17, <1>18, <1>19, SealedOpens DEF Exists

-----------------------------------------------------------------------------
(* The schedule of a row, and the SEQUENCE it is told under. *)

SeqOf(r) == View(r).seq
PlanOf(r) == Schedule(View(r))

LEMMA PlanParts ==
  ASSUME NEW r
  PROVE  /\ SeqOf(r) = The(r.signed.SEQUENCE)
         /\ PlanOf(r) =
              <<The(r.signed.DTSTART)[1],
                IF The(r.signed.DTSTART)[2] = "odd" THEN "UTC" ELSE The(r.signed.DTSTART)[2],
                r.signed.RRULE # {}, {e[1] : e \in r.signed.EXDATE}, Listed(r.list.lines)>>
BY DEF SeqOf, PlanOf, View, Schedule

LEMMA SamePlan ==
  ASSUME NEW r, NEW q, q.signed.DTSTART = r.signed.DTSTART, q.signed.RRULE = r.signed.RRULE,
         q.signed.EXDATE = r.signed.EXDATE, q.list.lines = r.list.lines
  PROVE  PlanOf(q) = PlanOf(r)
BY PlanParts

\* An update raises SEQUENCE by one, or leaves SEQUENCE and schedule as they are
\* (diffPatches, buildUpdateBody).
LEMMA UpdatedTells ==
  ASSUME NEW r, Whole(r), NEW in \in Taken
  PROVE  \/ SeqOf(Updated(r, in)) = SeqOf(r) + 1
         \/ SeqOf(Updated(r, in)) = SeqOf(r) /\ PlanOf(Updated(r, in)) = PlanOf(r)
<1> DEFINE cur == decryptEvent(r)
           change == GuestsChange(cur, in)
           signed == patchCard(r.signed, SignedPatch(cur, in))
           lines == IF change THEN KeptLines(r, in) ELSE r.list.lines
           next == Updated(r, in)
<1>1. next.signed = signed /\ next.list.lines = lines
  <2>1. PICK tl, a, st, al :
          next = RowOf(r.packet, signed, r.packet.key, tl, r.packet.key, lines, r.split, a, st, al)
    BY UpdatedAfter, Zenon
  <2> HIDE DEF signed, lines, next
  <2> QED
    BY <2>1 DEF RowOf
<1>2. cur.rule = (r.signed.RRULE # {}) /\ cur.seq = SeqOf(r)
  BY PlanParts DEF decryptEvent
<1>3. in.rule \in BOOLEAN
  BY DEF Taken
<1>6. /\ signed.SEQUENCE = IF Structural(cur, in) THEN {cur.seq + 1} ELSE r.signed.SEQUENCE
      /\ ~BoundsMove(cur, in) => signed.DTSTART = r.signed.DTSTART
      /\ in.rule = cur.rule => signed.RRULE = r.signed.RRULE
      /\ ~ExdatesChange(cur, in) /\ ~ExdatesOrphaned(cur, in) => signed.EXDATE = r.signed.EXDATE
  <2> DEFINE form == DateForm(writeTZ(in.tz, cur.tz), in.day)
             start == IF BoundsMove(cur, in) THEN {<<in.start, form>>} ELSE r.signed.DTSTART
             rule == IF in.rule # cur.rule THEN (IF in.rule THEN {"rule"} ELSE {})
                     ELSE r.signed.RRULE
             ex == IF ExdatesChange(cur, in) \/ ExdatesOrphaned(cur, in)
                   THEN (IF in.rule THEN {<<e[1], form>> : e \in in.ex} ELSE {})
                   ELSE r.signed.EXDATE
             organizer == IF change THEN (IF in.guests # {} THEN {"me"} ELSE {})
                          ELSE r.signed.ORGANIZER
             seq == IF Structural(cur, in) THEN {cur.seq + 1} ELSE r.signed.SEQUENCE
  <2>1. signed = [DTSTART |-> start, RRULE |-> rule, EXDATE |-> ex, ORGANIZER |-> organizer,
                  SEQUENCE |-> seq, X |-> r.signed.X]
    BY SignedAfter
  <2> HIDE DEF signed, start, rule, ex, organizer, seq
  <2>2. /\ signed.DTSTART = start /\ signed.RRULE = rule /\ signed.EXDATE = ex
        /\ signed.SEQUENCE = seq
    BY <2>1
  <2> HIDE DEF cur, change, form
  <2> QED
    BY <2>2 DEF start, rule, ex, seq
<1>4. CASE Structural(cur, in)
  <2>1. signed.SEQUENCE = {cur.seq + 1}
    BY <1>4, <1>6
  <2> QED
    BY <2>1, <1>1, <1>2, PlanParts, TheOne
<1>5. CASE ~Structural(cur, in)
  <2>1. /\ ~BoundsMove(cur, in) /\ in.rule = cur.rule /\ ~ExdatesChange(cur, in) /\ ~change
        /\ ~ExdatesOrphaned(cur, in)
    BY <1>5 DEF Structural, ExdatesOrphaned
  <2>2. /\ signed.DTSTART = r.signed.DTSTART /\ signed.RRULE = r.signed.RRULE
        /\ signed.EXDATE = r.signed.EXDATE /\ signed.SEQUENCE = r.signed.SEQUENCE
    BY <2>1, <1>5, <1>6
  <2>3. lines = r.list.lines
    BY <2>1
  <2> HIDE DEF signed, lines, next
  <2>4. PlanOf(next) = PlanOf(r)
    BY <2>2, <2>3, <1>1, SamePlan
  <2>5. SeqOf(next) = SeqOf(r)
    BY <2>2, <1>1, PlanParts
  <2> QED
    BY <2>4, <2>5 DEF next
<1> QED
  BY <1>4, <1>5

-----------------------------------------------------------------------------
(* The inductive invariant. *)

\* What an update has in hand: the row is there and its cards were opened.
InHand ==
  /\ w = [pc |-> w.pc, row |-> w.row, base |-> w.base, blind |-> w.blind, c |-> w.c]
  /\ w.pc # "idle" => Exists(row) /\ w.c \in Changes
  /\ w.pc = "put" => ~Degraded(w.row, Input(w.base, w.c))

\* Of the schedules told, only the row's own is told under its SEQUENCE.
Latest(r, plans) ==
  /\ ~Exists(r) => plans = {}
  /\ Exists(r) => \A s \in plans : /\ s[1] \in Nat
                                   /\ \/ s[1] < SeqOf(r)
                                      \/ s[1] = SeqOf(r) /\ s[2] = PlanOf(r)

Apart(plans) == \A s, t \in plans : s[1] = t[1] => s[2] = t[2]

ToldInOrder == raced \/ Latest(row, told)

EventInv == TypeOK /\ InHand /\ CardsOpen /\ ToldInOrder /\ SequenceTells

LEMMA WholeExists ==
  ASSUME NEW r, Whole(r)
  PROVE  Exists(r)
BY WholeParts DEF Exists, Packets

\* One more schedule, of a row whose SEQUENCE is one up, or that is told already.
LEMMA OneMoreTold ==
  ASSUME NEW r, NEW q, NEW plans, Whole(q), Latest(r, plans), Apart(plans),
         Exists(r) => /\ Whole(r)
                      /\ \/ SeqOf(q) = SeqOf(r) + 1
                         \/ SeqOf(q) = SeqOf(r) /\ PlanOf(q) = PlanOf(r)
  PROVE  LET more == plans \cup {<<View(q).seq, Schedule(View(q))>>}
         IN  Latest(q, more) /\ Apart(more)
<1> DEFINE new == <<SeqOf(q), PlanOf(q)>>
           more == plans \cup {new}
<1>1. SeqOf(q) \in Nat
  BY OneSequence, PlanParts
<1>2. new[1] = SeqOf(q) /\ new[2] = PlanOf(q)
  OBVIOUS
<1> HIDE DEF new
<1>3. \A s \in plans : /\ s[1] \in Nat
                       /\ \/ s[1] < SeqOf(q)
                          \/ s[1] = SeqOf(q) /\ s[2] = PlanOf(q)
  <2>1. CASE Exists(r)
    <3>1. SeqOf(r) \in Nat
      BY <2>1, OneSequence, PlanParts
    <3> QED
      BY <2>1, <3>1 DEF Latest
  <2>2. CASE ~Exists(r)
    BY <2>2 DEF Latest
  <2> QED
    BY <2>1, <2>2
<1>4. Latest(q, more)
  BY <1>1, <1>2, <1>3, WholeExists DEF Latest
<1>5. Apart(more)
  BY <1>1, <1>2, <1>3 DEF Apart
<1>6. more = plans \cup {<<View(q).seq, Schedule(View(q))>>}
  BY DEF new, SeqOf, PlanOf
<1> QED
  BY <1>4, <1>5, <1>6

\* The same of the history variables.
LEMMA TellsOneMore ==
  ASSUME NEW q, Whole(q), row' = q, Tells(q), raced' \/ (~raced /\ ToldInOrder /\ SequenceTells),
         raced' \/ (Exists(row) => /\ Whole(row)
                                   /\ \/ SeqOf(q) = SeqOf(row) + 1
                                      \/ SeqOf(q) = SeqOf(row) /\ PlanOf(q) = PlanOf(row))
  PROVE  ToldInOrder' /\ SequenceTells'
<1>1. CASE raced'
  BY <1>1 DEF ToldInOrder, SequenceTells
<1>2. CASE ~raced'
  <2>1. Latest(row, told) /\ Apart(told)
    BY <1>2 DEF ToldInOrder, SequenceTells, Apart
  <2>2. told' = told \cup {<<View(q).seq, Schedule(View(q))>>}
    BY DEF Tells
  <2>3. Latest(q, told') /\ Apart(told')
    BY <1>2, <2>1, <2>2, OneMoreTold
  <2>4. Latest(row, told)'
    BY <2>3 DEF Latest, SeqOf, PlanOf
  <2>5. Apart(told)'
    BY <2>3 DEF Apart
  <2> QED
    BY <2>4, <2>5 DEF ToldInOrder, SequenceTells, Apart
<1> QED
  BY <1>1, <1>2

-----------------------------------------------------------------------------
(* Proton's clients write rows that can be read, and raise SEQUENCE when the *)
(* schedule changes.                                                         *)

SignedEdited(r, s) == [r EXCEPT !.signed = s]
LEMMA SignedEditedRow ==
  ASSUME NEW p, NEW s, NEW tk, NEW tl, NEW lk, NEW ll, NEW sp, NEW a, NEW st, NEW al, NEW s1
  PROVE  SignedEdited(RowOf(p, s, tk, tl, lk, ll, sp, a, st, al), s1) =
           RowOf(p, s1, tk, tl, lk, ll, sp, a, st, al)
BY DEF SignedEdited, RowOf

Annotated(r, s, tl) == [r EXCEPT !.signed = s, !.text.lines = tl]
LEMMA AnnotatedRow ==
  ASSUME NEW p, NEW s, NEW tk, NEW tl, NEW lk, NEW ll, NEW sp, NEW a, NEW st, NEW al,
         NEW s1, NEW tl1
  PROVE  Annotated(RowOf(p, s, tk, tl, lk, ll, sp, a, st, al), s1, tl1) =
           RowOf(p, s1, tk, tl1, lk, ll, sp, a, st, al)
<1> DEFINE r == RowOf(p, s, tk, tl, lk, ll, sp, a, st, al)
           r1 == [r EXCEPT !.signed = s1]
           r2 == [r1 EXCEPT !.text.lines = tl1]
<1>1. Annotated(r, s1, tl1) = r2
  BY DEF Annotated, RowOf
<1>2. r1 = RowOf(p, s1, tk, tl, lk, ll, sp, a, st, al)
  BY DEF RowOf
<1> HIDE DEF r1
<1>3. r2 = RowOf(p, s1, tk, tl1, lk, ll, sp, a, st, al)
  BY <1>2 DEF RowOf
<1> QED
  BY <1>1, <1>3

Reworded(r, tl) == [r EXCEPT !.text.lines = tl]
LEMMA RewordedRow ==
  ASSUME NEW p, NEW s, NEW tk, NEW tl, NEW lk, NEW ll, NEW sp, NEW a, NEW st, NEW al, NEW tl1
  PROVE  Reworded(RowOf(p, s, tk, tl, lk, ll, sp, a, st, al), tl1) =
           RowOf(p, s, tk, tl1, lk, ll, sp, a, st, al)
BY DEF Reworded, RowOf

Answered(r, a) == [r EXCEPT !.rsvp = a]
LEMMA AnsweredRow ==
  ASSUME NEW p, NEW s, NEW tk, NEW tl, NEW lk, NEW ll, NEW sp, NEW a, NEW st, NEW al, NEW a1
  PROVE  Answered(RowOf(p, s, tk, tl, lk, ll, sp, a, st, al), a1) =
           RowOf(p, s, tk, tl, lk, ll, sp, a1, st, al)
BY DEF Answered, RowOf

\* What an edit leaves as it is.
Kept(q, r) ==
  /\ q.packet = r.packet /\ q.text.key = r.text.key /\ q.list = r.list
  /\ q.split = r.split /\ q.status = r.status /\ q.alarms = r.alarms

LEMMA MovedWhole ==
  ASSUME NEW r, Whole(r), NEW start \in Starts
  PROVE  LET q == [r EXCEPT !.signed.DTSTART = {<<start, The(@)[2]>>},
                            !.signed.SEQUENCE = {View(r).seq + 1}]
         IN  /\ Whole(q) /\ SeqOf(q) = SeqOf(r) + 1
             /\ Kept(q, r) /\ q.text = r.text /\ q.rsvp = r.rsvp
             /\ q.signed.DTSTART = {<<start, The(r.signed.DTSTART)[2]>>}
             /\ q.signed.RRULE = r.signed.RRULE /\ q.signed.EXDATE = r.signed.EXDATE
             /\ q.signed.ORGANIZER = r.signed.ORGANIZER /\ q.signed.X = r.signed.X
<1> DEFINE at == <<start, The(r.signed.DTSTART)[2]>>
           seq == View(r).seq + 1
           s == [r.signed EXCEPT !.DTSTART = {at}, !.SEQUENCE = {seq}]
           q == [r EXCEPT !.signed.DTSTART = {<<start, The(@)[2]>>}, !.signed.SEQUENCE = {seq}]
<1>1. q = SignedEdited(r, s)
  <2>1. r \in Row
    BY DEF Whole
  <2>2. q = [r EXCEPT !.signed.DTSTART = {at}, !.signed.SEQUENCE = {seq}]
    BY Zenon
  <2> HIDE DEF at, seq
  <2>3. [r EXCEPT !.signed.DTSTART = {at}, !.signed.SEQUENCE = {seq}] = [r EXCEPT !.signed = s]
    BY <2>1 DEF Row
  <2> QED
    BY <2>2, <2>3 DEF SignedEdited
<1>2. q = RowOf(r.packet, s, r.text.key, r.text.lines, r.list.key, r.list.lines, r.split, r.rsvp,
                r.status, r.alarms)
  BY <1>1, PartsOf, SignedEditedRow
<1>3. SeqOf(r) \in Nat /\ seq = SeqOf(r) + 1
  BY OneSequence, PlanParts DEF SeqOf
<1>4. at \in Starts \X Forms /\ at[2] = The(r.signed.DTSTART)[2]
  BY OneStart
<1>5. r \in Row
  BY DEF Whole
<1> HIDE DEF at, seq, q
<1>6. s = [DTSTART |-> {at}, RRULE |-> r.signed.RRULE, EXDATE |-> r.signed.EXDATE,
           ORGANIZER |-> r.signed.ORGANIZER, SEQUENCE |-> {seq}, X |-> r.signed.X]
  <2> DEFINE start1 == {at}
             s1 == [r.signed EXCEPT !.DTSTART = start1]
  <2>1. r.signed \in SignedLines
    BY <1>5 DEF Row
  <2>3. s = [s1 EXCEPT !.SEQUENCE = {seq}]
    BY <2>1 DEF SignedLines
  <2>4. \A t : [r.signed EXCEPT !.DTSTART = t] =
               [DTSTART |-> t, RRULE |-> r.signed.RRULE, EXDATE |-> r.signed.EXDATE,
                ORGANIZER |-> r.signed.ORGANIZER, SEQUENCE |-> r.signed.SEQUENCE,
                X |-> r.signed.X]
    <3> DEFINE signed == r.signed
    <3>1. signed \in SignedLines
      BY <2>1
    <3> HIDE DEF signed
    <3>2. \A t : [signed EXCEPT !.DTSTART = t] =
                 [DTSTART |-> t, RRULE |-> signed.RRULE, EXDATE |-> signed.EXDATE,
                  ORGANIZER |-> signed.ORGANIZER, SEQUENCE |-> signed.SEQUENCE, X |-> signed.X]
      BY <3>1 DEF SignedLines
    <3> QED
      BY <3>2 DEF signed
  <2>2. s1 = [DTSTART |-> {at}, RRULE |-> r.signed.RRULE, EXDATE |-> r.signed.EXDATE,
              ORGANIZER |-> r.signed.ORGANIZER, SEQUENCE |-> r.signed.SEQUENCE, X |-> r.signed.X]
    BY <2>4, Zenon
  <2> HIDE DEF s1, s
  <2> QED
    BY <2>2, <2>3
<1> HIDE DEF s
<1>7. Whole(q)
  <2>1. s \in SignedLines
    <3> DEFINE start1 == {at}
               seq1 == {seq}
    <3>1. start1 \in {{d} : d \in Starts \X Forms}
      BY <1>4
    <3>2. seq1 \in SUBSET Nat
      BY <1>3
    <3>3. s = [DTSTART |-> start1, RRULE |-> r.signed.RRULE, EXDATE |-> r.signed.EXDATE,
               ORGANIZER |-> r.signed.ORGANIZER, SEQUENCE |-> seq1, X |-> r.signed.X]
      BY <1>6
    <3>4. /\ r.signed.RRULE \in SUBSET {"rule"} /\ r.signed.EXDATE \in SUBSET (Occs \X Forms)
          /\ r.signed.ORGANIZER \in SUBSET {"me", "them"} /\ r.signed.X \in SUBSET (0..MaxEdits)
      BY WholeParts
    <3> HIDE DEF start1, seq1
    <3> QED
      BY <3>1, <3>2, <3>3, <3>4 DEF SignedLines
  <2>2. s.SEQUENCE = {seq} /\ (s.RRULE = {} => s.EXDATE = {})
    BY <1>6 DEF Whole, Legible
  <2>3. \A d \in s.DTSTART, e \in s.EXDATE : Matches(d, e)
    <3>1. The(r.signed.DTSTART) \in r.signed.DTSTART
      BY OneStart
    <3> QED
      BY <3>1, <1>4, <1>6 DEF Whole, Legible, Matches
  <2>4. \E n \in s.SEQUENCE : s.SEQUENCE = {n}
    BY <2>2
  <2> QED
    <3>1. SignedWhole(s)
      BY <2>1, <2>2, <2>3, <2>4 DEF SignedWhole
    <3> QED
      BY <1>2, <3>1, KeptParts, RowOfType
<1>8. q.signed = s /\ q.rsvp = r.rsvp
  BY <1>2 DEF RowOf
<1>9. q.text = r.text /\ Kept(q, r)
  BY <1>2, <1>5 DEF RowOf, Row, Kept
<1>10. SeqOf(q) = SeqOf(r) + 1
  <2>1. q.signed.SEQUENCE = {seq}
    BY <1>6, <1>8
  <2> QED
    BY <2>1, <1>3, PlanParts, TheOne
<1>11. /\ q.signed.DTSTART = {at}
       /\ q.signed.RRULE = r.signed.RRULE /\ q.signed.EXDATE = r.signed.EXDATE
       /\ q.signed.ORGANIZER = r.signed.ORGANIZER /\ q.signed.X = r.signed.X
  BY <1>6, <1>8
<1> QED
  BY <1>7, <1>8, <1>9, <1>10, <1>11 DEF q, seq, at

LEMMA WroteWhole ==
  ASSUME NEW r, Whole(r), NEW text \in Texts
  PROVE  LET q == [r EXCEPT !.text.lines.DESCRIPTION = {text}]
         IN  /\ Whole(q) /\ SeqOf(q) = SeqOf(r) /\ PlanOf(q) = PlanOf(r)
             /\ Kept(q, r) /\ q.signed = r.signed /\ q.rsvp = r.rsvp
             /\ q.text.lines.SUMMARY = r.text.lines.SUMMARY
             /\ q.text.lines.DESCRIPTION = {text} /\ q.text.lines.X = r.text.lines.X
<1> DEFINE note == {text}
           lines == r.text.lines
           tl == [lines EXCEPT !.DESCRIPTION = note]
           q == [r EXCEPT !.text.lines.DESCRIPTION = note]
<1>1. r \in Row /\ lines \in TextLines
  BY KeptParts DEF Whole
<1>2. note \in {Lines(t) : t \in Words}
  <2>1. text # ""
    BY NamesAssumption
  <2>2. note = Lines(text)
    BY <2>1 DEF Lines
  <2> QED
    BY <2>2 DEF Words
<1> HIDE DEF note
<1>3. q = Reworded(r, tl)
  <2>1. q = [r EXCEPT !.text.lines = tl]
    BY <1>1 DEF Row, TextLines
  <2> QED
    BY <2>1 DEF Reworded
<1> HIDE DEF lines
<1>4. tl \in TextLines
  BY <1>1, <1>2 DEF TextLines
<1>10. tl.SUMMARY = lines.SUMMARY /\ tl.DESCRIPTION = note /\ tl.X = lines.X
  BY <1>1 DEF TextLines
<1> HIDE DEF tl, q
<1>5. q = RowOf(r.packet, r.signed, r.text.key, tl, r.list.key, r.list.lines, r.split, r.rsvp,
                r.status, r.alarms)
  BY <1>3, PartsOf, RewordedRow
<1>6. Whole(q)
  BY <1>4, <1>5, KeptParts, RowOfType
<1>7. /\ q.signed = r.signed /\ q.text.lines = tl /\ q.rsvp = r.rsvp
      /\ q.list.lines = r.list.lines
  BY <1>5 DEF RowOf
<1>8. Kept(q, r)
  BY <1>1, <1>5 DEF RowOf, Row, Kept
<1>9. SeqOf(q) = SeqOf(r) /\ PlanOf(q) = PlanOf(r)
  BY <1>7, PlanParts, SamePlan
<1> QED
  BY <1>6, <1>7, <1>8, <1>9, <1>10 DEF q, note, lines

LEMMA AddedWhole ==
  ASSUME NEW r, Whole(r), NEW n \in 0..MaxEdits
  PROVE  LET q == [r EXCEPT !.signed.X = @ \cup {n}, !.text.lines.X = @ \cup {n}]
         IN  /\ Whole(q) /\ SeqOf(q) = SeqOf(r) /\ PlanOf(q) = PlanOf(r)
             /\ Kept(q, r) /\ q.rsvp = r.rsvp
             /\ q.signed.DTSTART = r.signed.DTSTART /\ q.signed.RRULE = r.signed.RRULE
             /\ q.signed.EXDATE = r.signed.EXDATE /\ q.signed.ORGANIZER = r.signed.ORGANIZER
             /\ q.signed.SEQUENCE = r.signed.SEQUENCE
             /\ q.signed.X = r.signed.X \cup {n}
             /\ q.text.lines.SUMMARY = r.text.lines.SUMMARY
             /\ q.text.lines.DESCRIPTION = r.text.lines.DESCRIPTION
             /\ q.text.lines.X = r.text.lines.X \cup {n}
<1> DEFINE signed == r.signed
           lines == r.text.lines
           x == signed.X \cup {n}
           y == lines.X \cup {n}
           s == [signed EXCEPT !.X = x]
           tl == [lines EXCEPT !.X = y]
           q == [r EXCEPT !.signed.X = @ \cup {n}, !.text.lines.X = @ \cup {n}]
<1>1. r \in Row /\ signed \in SignedLines /\ lines \in TextLines
  BY KeptParts DEF Whole
<1>2. x \in SUBSET (0..MaxEdits) /\ y \in SUBSET (0..MaxEdits)
  BY <1>1 DEF SignedLines, TextLines
<1>3. q = Annotated(r, s, tl)
  <2> DEFINE r1 == [r EXCEPT !.signed = s]
  <2>1. q = [r1 EXCEPT !.text.lines.X = @ \cup {n}]
    BY <1>1 DEF Row, SignedLines, TextLines
  <2>2. r1.text = r.text /\ DOMAIN r1 = DOMAIN r
    BY <1>1 DEF Row
  <2>3. DOMAIN r1 = {"packet", "signed", "text", "list", "split", "rsvp", "status", "alarms"}
    BY <2>2, <1>1 DEF Row
  <2>4. DOMAIN r.text = {"key", "lines"} /\ DOMAIN r.text.lines = {"SUMMARY", "DESCRIPTION", "X"}
    BY <1>1 DEF Row, TextLines
  <2> HIDE DEF r1
  <2>5. [r1 EXCEPT !.text.lines.X = @ \cup {n}] = [r1 EXCEPT !.text.lines = tl]
    BY <2>2, <2>3, <2>4
  <2> QED
    BY <2>1, <2>5 DEF Annotated, r1
<1>4. s \in SignedLines
  <2> HIDE DEF signed, x
  <2> QED
    BY <1>1, <1>2 DEF SignedLines
<1>5. tl \in TextLines
  <2> HIDE DEF lines, y
  <2> QED
    BY <1>1, <1>2 DEF TextLines
<1>6. /\ s.DTSTART = r.signed.DTSTART /\ s.RRULE = r.signed.RRULE /\ s.EXDATE = r.signed.EXDATE
      /\ s.ORGANIZER = r.signed.ORGANIZER /\ s.SEQUENCE = r.signed.SEQUENCE /\ s.X = x
  <2> HIDE DEF x
  <2> QED
    BY <1>1 DEF SignedLines
<1>13. /\ tl.SUMMARY = r.text.lines.SUMMARY /\ tl.DESCRIPTION = r.text.lines.DESCRIPTION
       /\ tl.X = y
  <2> HIDE DEF y
  <2> QED
    BY <1>1 DEF TextLines
<1>7. SignedWhole(s)
  BY <1>4, <1>6, KeptParts DEF SignedWhole
<1> HIDE DEF s, tl, q
<1>8. q = RowOf(r.packet, s, r.text.key, tl, r.list.key, r.list.lines, r.split, r.rsvp,
                r.status, r.alarms)
  BY <1>3, PartsOf, AnnotatedRow
<1>9. Whole(q)
  BY <1>5, <1>7, <1>8, KeptParts, RowOfType
<1>10. /\ q.signed = s /\ q.text.lines = tl /\ q.rsvp = r.rsvp
       /\ q.list.lines = r.list.lines
  BY <1>8 DEF RowOf
<1>11. Kept(q, r)
  BY <1>1, <1>8 DEF RowOf, Row, Kept
<1>12. SeqOf(q) = SeqOf(r) /\ PlanOf(q) = PlanOf(r)
  BY <1>6, <1>10, PlanParts, SamePlan
<1> QED
  BY <1>6, <1>9, <1>10, <1>11, <1>12, <1>13 DEF q, x, y, signed, lines

LEMMA AnsweredWhole ==
  ASSUME NEW r, Whole(r), NEW g \in Listed(r.list.lines)
  PROVE  LET q == [r EXCEPT !.rsvp = @ \cup {g}]
         IN  /\ Whole(q) /\ SeqOf(q) = SeqOf(r) /\ PlanOf(q) = PlanOf(r)
             /\ Kept(q, r) /\ q.signed = r.signed /\ q.text = r.text
             /\ q.rsvp = r.rsvp \cup {g}
<1> DEFINE a == r.rsvp \cup {g}
           q == [r EXCEPT !.rsvp = @ \cup {g}]
<1>1. r \in Row
  BY DEF Whole
<1>2. q = Answered(r, a)
  BY DEF Answered
<1>3. a \in SUBSET Guests /\ a \subseteq Listed(r.list.lines)
  BY KeptParts DEF Listed
<1> HIDE DEF a, q
<1>4. q = RowOf(r.packet, r.signed, r.text.key, r.text.lines, r.list.key, r.list.lines, r.split, a,
                r.status, r.alarms)
  BY <1>2, PartsOf, AnsweredRow
<1>5. Whole(q)
  BY <1>3, <1>4, KeptParts, RowOfType
<1>6. q.signed = r.signed /\ q.rsvp = a /\ q.list.lines = r.list.lines
  BY <1>4 DEF RowOf
<1>7. Kept(q, r) /\ q.text = r.text
  BY <1>1, <1>4 DEF RowOf, Row, Kept
<1>8. SeqOf(q) = SeqOf(r) /\ PlanOf(q) = PlanOf(r)
  BY <1>6, PlanParts, SamePlan
<1> QED
  BY <1>5, <1>6, <1>7, <1>8 DEF q, a

-----------------------------------------------------------------------------
(* The invariant holds at first, and every action keeps it. *)

LEMMA InvParts ==
  ASSUME EventInv
  PROVE  /\ Exists(row) => Whole(row)
         /\ Exists(mirror) => Whole(mirror)
         /\ w.pc \in {"idle", "put", "retry"}
         /\ w.pc # "idle" => Whole(w.row) /\ Whole(w.base) /\ Exists(row) /\ w.c \in Changes
         /\ w.pc = "put" => ~Degraded(w.row, Input(w.base, w.c))
         /\ unseen \subseteq {"ours", "theirs"} /\ stale \in BOOLEAN /\ raced \in BOOLEAN
BY DEF EventInv, TypeOK, InHand, Whole

LEMMA InitInv ==
  ASSUME Init
  PROVE  EventInv
<1>1. row \in Rows /\ mirror = row /\ w = Idle /\ unseen = {} /\ stale = FALSE /\ raced = FALSE
  BY DEF Init
<1>2. ~Exists(Gone)
  BY DEF Exists, Gone
<1>3. Exists(row) => Whole(row) /\ (row.packet.by # "lost" => ~DecryptFailed(row))
  BY <1>1, <1>2, RowsAssumption DEF Whole
<1>4. w.pc = "idle" /\ w = [pc |-> w.pc, row |-> w.row, base |-> w.base, blind |-> w.blind, c |-> w.c]
  BY <1>1 DEF Idle
<1>5. TypeOK
  <2>1. puts \in 0..MaxPuts /\ edits \in 0..MaxEdits /\ faults \in 0..MaxFaults
    BY BoundsAssumption DEF Init
  <2> QED
    BY <1>1, <1>3, <1>4, <2>1 DEF TypeOK, Whole
<1>6. InHand /\ CardsOpen
  BY <1>3, <1>4 DEF InHand, CardsOpen
<1>7. told = IF Exists(row) THEN {<<SeqOf(row), PlanOf(row)>>} ELSE {}
  BY DEF Init, SeqOf, PlanOf
<1>8. Latest(row, told)
  <2>1. Exists(row) => SeqOf(row) \in Nat
    BY <1>3, OneSequence, PlanParts
  <2> QED
    BY <1>7, <2>1 DEF Latest
<1>9. Apart(told)
  BY <1>7 DEF Apart
<1> QED
  BY <1>5, <1>6, <1>8, <1>9 DEF EventInv, ToldInOrder, SequenceTells, Apart

\* What Proton's clients and the invitees do to the row.
LEMMA EditInv ==
  ASSUME EventInv, Exists(row), NEW q, NEW e, Edits(q, e), Whole(q),
         \/ SeqOf(q) = SeqOf(row) + 1
         \/ SeqOf(q) = SeqOf(row) /\ PlanOf(q) = PlanOf(row),
         Kept(q, row), unseen' \subseteq {"ours", "theirs"}
  PROVE  EventInv'
<1>1. /\ row' = q /\ Tells(q) /\ edits < MaxEdits /\ edits' = edits + 1
      /\ UNCHANGED <<mirror, w, stale, raced, puts, faults>>
  BY DEF Edits
<1>2. Exists(q)
  BY WholeExists
<1>3. TypeOK'
  <2>1. edits' \in 0..MaxEdits
    BY <1>1, BoundsAssumption DEF EventInv, TypeOK
  <2>2. \A r \in {row', mirror'} : Exists(r) => r \in Row /\ Legible(r)
    BY <1>1, InvParts DEF Whole
  <2>3. w'.pc # "idle" => \A r \in {w'.row, w'.base} : r \in Row /\ Legible(r)
    BY <1>1 DEF EventInv, TypeOK
  <2> QED
    BY <1>1, <2>1, <2>2, <2>3 DEF EventInv, TypeOK
<1>4. InHand'
  BY <1>1, <1>2 DEF EventInv, InHand, Degraded, Input
<1>5. CardsOpen'
  <2>1. DecryptFailed(q) = DecryptFailed(row)
    BY DEF DecryptFailed, Opens, Kept
  <2> QED
    BY <1>1, <2>1 DEF EventInv, CardsOpen, Kept
<1>6. ToldInOrder' /\ SequenceTells'
  <2>1. Whole(row) /\ raced' = raced
    BY <1>1, InvParts
  <2>2. ToldInOrder /\ SequenceTells
    BY DEF EventInv
  <2> QED
    BY <1>1, <2>1, <2>2, TellsOneMore
<1> QED
  BY <1>3, <1>4, <1>5, <1>6 DEF EventInv

\* The row a body replaces Proton's with.
LEMMA PutsInv ==
  ASSUME EventInv, Puts
  PROVE  Whole(row') /\ Exists(row') /\ CardsOpen' /\ ToldInOrder' /\ SequenceTells'
<1> DEFINE in == Input(w.base, w.c)
           q == Updated(w.row, in)
<1>1. /\ w.pc = "put" /\ row' = q /\ Tells(q) /\ raced' = (raced \/ row # w.row)
  BY DEF Puts
<1>2. /\ Whole(w.row) /\ Whole(w.base) /\ Exists(row) /\ w.c \in Changes
      /\ ~Degraded(w.row, in) /\ raced \in BOOLEAN
  BY <1>1, InvParts
<1>3. in \in Taken /\ SameType(in)
  BY <1>2, InputType
<1> HIDE DEF in
<1>4. Whole(q) /\ Exists(q)
  BY <1>2, <1>3, UpdatedWhole, WholeExists
<1>5. ~DecryptFailed(q)
  BY <1>2, UpdatedOpens
<1>6. \/ SeqOf(q) = SeqOf(w.row) + 1
      \/ SeqOf(q) = SeqOf(w.row) /\ PlanOf(q) = PlanOf(w.row)
  BY <1>2, <1>3, UpdatedTells
<1> HIDE DEF q
<1>7. ToldInOrder' /\ SequenceTells'
  <2>1. raced' \/ (~raced /\ ToldInOrder /\ SequenceTells)
    BY <1>1 DEF EventInv
  <2>2. raced' \/ (Exists(row) => /\ Whole(row)
                                  /\ \/ SeqOf(q) = SeqOf(row) + 1
                                     \/ SeqOf(q) = SeqOf(row) /\ PlanOf(q) = PlanOf(row))
    BY <1>1, <1>2, <1>6
  <2> QED
    BY <1>1, <1>4, <2>1, <2>2, TellsOneMore
<1>8. CardsOpen'
  BY <1>1, <1>5 DEF CardsOpen
<1> QED
  BY <1>1, <1>4, <1>7, <1>8

\* An update that leaves the row, and what was told of it, as they are.
LEMMA RowStays ==
  ASSUME EventInv, UNCHANGED <<row, told, raced>>, TypeOK', InHand'
  PROVE  EventInv'
BY DEF EventInv, CardsOpen, ToldInOrder, SequenceTells, Latest, SeqOf, PlanOf

LEMMA FetchesInv ==
  ASSUME EventInv, Exists(row), Whole(mirror), NEW c \in Changes, NEW blind, Fetches(c, blind),
         UNCHANGED <<row, mirror, told, unseen, stale, raced, edits, faults>>,
         puts' \in 0..MaxPuts
  PROVE  EventInv'
<1>1. Whole(row)
  BY InvParts
<1> DEFINE put == [pc |-> "put", row |-> row, base |-> mirror, blind |-> blind, c |-> c]
<1>2. w' = IF Degraded(row, Input(mirror, c)) THEN Idle ELSE put
  BY DEF Fetches
<1>3. \A r \in {row', mirror'} : Exists(r) => r \in Row /\ Legible(r)
  BY InvParts DEF Whole
<1>4. CASE Degraded(row, Input(mirror, c))
  <2>1. w' = Idle
    BY <1>2, <1>4
  <2>2. TypeOK'
    BY <2>1, <1>3 DEF EventInv, TypeOK, Idle
  <2>3. InHand'
    BY <2>1 DEF InHand, Idle
  <2> QED
    BY <2>2, <2>3, RowStays
<1>5. CASE ~Degraded(row, Input(mirror, c))
  <2>1. w' = put
    BY <1>2, <1>5
  <2>2. w'.pc = "put" /\ w'.row = row /\ w'.base = mirror /\ w'.c = c
    BY <2>1
  <2>3. TypeOK'
    BY <2>2, <1>1, <1>3 DEF EventInv, TypeOK, Whole
  <2>4. InHand'
    <3>1. w' = [pc |-> w'.pc, row |-> w'.row, base |-> w'.base, blind |-> w'.blind, c |-> w'.c]
      BY <2>1
    <3> HIDE DEF put
    <3> QED
      BY <3>1, <2>2, <1>5 DEF InHand
  <2> QED
    BY <2>3, <2>4, RowStays
<1> QED
  BY <1>4, <1>5

LEMMA CreateInv ==
  ASSUME EventInv, NEW res \in Resources, Create(res)
  PROVE  EventInv'
<1> DEFINE in == veventToInput(res)
           q == Created(in)
<1>1. /\ w.pc = "idle" /\ ~Exists(row) /\ puts < MaxPuts
      /\ row' = q /\ mirror' = q /\ puts' = puts + 1 /\ Tells(q)
      /\ UNCHANGED <<w, unseen, stale, raced, edits, faults>>
  BY DEF Create, Tells
<1>2. res \in Sendable
  BY ClientsAssumption DEF Sendable, ClientForms
<1>3. in \in Taken /\ SameType(in)
  BY <1>2, TakenType
<1> HIDE DEF in
<1>4. Whole(q) /\ Exists(q) /\ ~DecryptFailed(q)
  BY <1>3, CreatedWhole
<1> HIDE DEF q
<1>5. TypeOK'
  <2>1. puts' \in 0..MaxPuts
    BY <1>1, BoundsAssumption DEF EventInv, TypeOK
  <2> QED
    BY <1>1, <1>4, <2>1 DEF EventInv, TypeOK, Whole
<1>6. InHand' /\ CardsOpen'
  BY <1>1, <1>4 DEF EventInv, InHand, CardsOpen
<1>7. ToldInOrder' /\ SequenceTells'
  <2>1. raced' \/ (~raced /\ ToldInOrder /\ SequenceTells)
    BY <1>1, InvParts DEF EventInv
  <2> QED
    BY <1>1, <1>4, <2>1, TellsOneMore
<1> QED
  BY <1>5, <1>6, <1>7 DEF EventInv

LEMMA PutInv ==
  ASSUME EventInv, Put \/ PutLosesAnswer
  PROVE  EventInv'
<1>1. Puts
  BY DEF Put, PutLosesAnswer
<1>2. Whole(row') /\ Exists(row') /\ CardsOpen' /\ ToldInOrder' /\ SequenceTells'
  BY <1>1, PutsInv
<1>3. stale' \in BOOLEAN /\ raced' \in BOOLEAN
  BY <1>1, InvParts DEF Puts
<1>4. CASE Put
  <2>1. w' = Idle /\ mirror' = row' /\ unseen' = {} /\ UNCHANGED counters
    BY <1>4 DEF Put
  <2>2. TypeOK'
    BY <2>1, <1>2, <1>3 DEF EventInv, TypeOK, Idle, counters, Whole
  <2>3. InHand'
    BY <2>1 DEF InHand, Idle
  <2> QED
    BY <1>2, <2>2, <2>3 DEF EventInv
<1>5. CASE PutLosesAnswer
  <2>1. /\ w' = [w EXCEPT !.pc = "retry"] /\ unseen' = unseen \cup {"ours"}
        /\ Fault /\ UNCHANGED <<mirror, puts, edits>>
    BY <1>5 DEF PutLosesAnswer
  <2>2. w = [pc |-> w.pc, row |-> w.row, base |-> w.base, blind |-> w.blind, c |-> w.c]
    BY DEF EventInv, InHand
  <2>3. w' = [pc |-> "retry", row |-> w.row, base |-> w.base, blind |-> w.blind, c |-> w.c]
    BY <2>1, <2>2
  <2>4. /\ w'.pc = "retry" /\ w'.row = w.row /\ w'.base = w.base /\ w'.blind = w.blind
        /\ w'.c = w.c
    BY <2>3
  <2>5. w.pc = "put"
    BY <1>1 DEF Puts
  <2>6. Whole(w.row) /\ Whole(w.base) /\ w.c \in Changes /\ (Exists(mirror) => Whole(mirror))
    BY <2>5, InvParts
  <2>7. faults' \in 0..MaxFaults
    BY <2>1, BoundsAssumption DEF Fault, EventInv, TypeOK
  <2>8. TypeOK'
    BY <1>2, <1>3, <2>1, <2>4, <2>6, <2>7 DEF EventInv, TypeOK, Whole
  <2>9. InHand'
    BY <1>2, <2>3, <2>4, <2>6 DEF InHand
  <2> QED
    BY <1>2, <2>8, <2>9 DEF EventInv
<1> QED
  BY <1>4, <1>5

LEMMA NextInv ==
  ASSUME EventInv, [Next]_vars
  PROVE  EventInv'
<1>1. ASSUME NEW c \in Changes, Update(c)
      PROVE  EventInv'
  <2>1. /\ Exists(row) /\ Exists(mirror) /\ Fetches(c, unseen # {})
        /\ UNCHANGED <<row, mirror, told, unseen, stale, raced, edits, faults>>
    BY <1>1 DEF Update
  <2>2. puts' \in 0..MaxPuts
    BY <1>1, BoundsAssumption DEF Update, EventInv, TypeOK
  <2> QED
    BY <2>1, <2>2, InvParts, FetchesInv
<1>2. CASE Retry
  <2>1. /\ w.pc = "retry"
        /\ UNCHANGED <<row, mirror, ideal, told, unseen, stale, raced, puts, edits, faults>>
    BY <1>2 DEF Retry, counters
  <2>2. puts' \in 0..MaxPuts
    BY <2>1 DEF EventInv, TypeOK
  <2>3. Exists(row) /\ Whole(w.base) /\ w.c \in Changes
    BY <2>1, InvParts
  <2>4. CASE mirror = w.base
    <3>1. Fetches(w.c, w.blind \/ "theirs" \in unseen)
      BY <1>2, <2>4 DEF Retry
    <3> QED
      BY <3>1, <2>1, <2>2, <2>3, <2>4, FetchesInv
  <2>5. CASE mirror # w.base
    <3>1. w' = Idle
      BY <1>2, <2>5 DEF Retry
    <3>2. TypeOK' /\ InHand'
      BY <3>1, <2>1 DEF EventInv, TypeOK, InHand, Idle
    <3> QED
      BY <3>2, <2>1, RowStays
  <2> QED
    BY <2>4, <2>5
<1>3. CASE Put \/ PutLosesAnswer
  BY <1>3, PutInv
<1>4. CASE PutFails
  <2>1. /\ w.pc = "put" /\ Fault /\ w' = [w EXCEPT !.pc = "retry"]
        /\ UNCHANGED <<row, mirror, ideal, told, unseen, stale, raced, puts, edits>>
    BY <1>4 DEF PutFails
  <2>2. w = [pc |-> w.pc, row |-> w.row, base |-> w.base, blind |-> w.blind, c |-> w.c]
    BY DEF EventInv, InHand
  <2>3. w' = [pc |-> "retry", row |-> w.row, base |-> w.base, blind |-> w.blind, c |-> w.c]
    BY <2>1, <2>2
  <2>4. /\ w'.pc = "retry" /\ w'.row = w.row /\ w'.base = w.base /\ w'.blind = w.blind
        /\ w'.c = w.c
    BY <2>3
  <2>5. Whole(w.row) /\ Whole(w.base) /\ Exists(row) /\ w.c \in Changes
    BY <2>1, InvParts
  <2>6. faults' \in 0..MaxFaults
    BY <2>1, BoundsAssumption DEF Fault, EventInv, TypeOK
  <2>7. TypeOK'
    BY <2>1, <2>4, <2>5, <2>6 DEF EventInv, TypeOK, Whole
  <2>8. InHand'
    BY <2>1, <2>3, <2>4, <2>5 DEF InHand
  <2> QED
    BY <2>1, <2>7, <2>8, RowStays
<1>5. ASSUME NEW res \in Resources, Create(res)
      PROVE  EventInv'
  BY <1>5, CreateInv
<1>6. CASE Poll
  <2>1. mirror' = row /\ unseen' = {} /\ UNCHANGED <<row, w, told, stale, raced, counters>>
    BY <1>6 DEF Poll
  <2>2. TypeOK'
    BY <2>1 DEF EventInv, TypeOK, counters
  <2>3. InHand'
    BY <2>1 DEF EventInv, InHand, Degraded, Input
  <2> QED
    BY <2>1, <2>2, <2>3, RowStays
<1>7. ASSUME NEW start \in Starts, AppMoves(start)
      PROVE  EventInv'
  <2> DEFINE q == [row EXCEPT !.signed.DTSTART = {<<start, The(@)[2]>>},
                              !.signed.SEQUENCE = {View(row).seq + 1}]
  <2>1. /\ Exists(row) /\ unseen' = unseen \cup {"theirs"}
        /\ Edits(q, Changed(ideal, Move(start, View(row).form)))
    BY <1>7 DEF AppMoves
  <2>2. Whole(row) /\ unseen' \subseteq {"ours", "theirs"}
    BY <2>1, InvParts
  <2>3. Whole(q) /\ SeqOf(q) = SeqOf(row) + 1 /\ Kept(q, row)
    BY <2>2, MovedWhole
  <2> HIDE DEF q
  <2> QED
    BY <2>1, <2>2, <2>3, EditInv
<1>8. ASSUME NEW text \in Texts, AppWrites(text)
      PROVE  EventInv'
  <2> DEFINE q == [row EXCEPT !.text.lines.DESCRIPTION = {text}]
  <2>1. /\ Exists(row) /\ unseen' = unseen \cup {"theirs"}
        /\ Edits(q, Changed(ideal, Say("note", text)))
    BY <1>8 DEF AppWrites
  <2>2. Whole(row) /\ unseen' \subseteq {"ours", "theirs"}
    BY <2>1, InvParts
  <2>3. Whole(q) /\ SeqOf(q) = SeqOf(row) /\ PlanOf(q) = PlanOf(row) /\ Kept(q, row)
    BY <2>2, WroteWhole
  <2> HIDE DEF q
  <2> QED
    BY <2>1, <2>2, <2>3, EditInv
<1>9. CASE AppAdds
  <2> DEFINE q == [row EXCEPT !.signed.X = @ \cup {edits}, !.text.lines.X = @ \cup {edits}]
             e == [ideal EXCEPT !.x = <<@[1] \cup {edits}, @[2] \cup {edits}>>]
  <2>1. Exists(row) /\ unseen' = unseen /\ Edits(q, e)
    BY <1>9 DEF AppAdds
  <2>2. Whole(row) /\ unseen' \subseteq {"ours", "theirs"} /\ edits \in 0..MaxEdits
    BY <2>1, InvParts DEF EventInv, TypeOK
  <2>3. Whole(q) /\ SeqOf(q) = SeqOf(row) /\ PlanOf(q) = PlanOf(row) /\ Kept(q, row)
    BY <2>2, AddedWhole
  <2> HIDE DEF q, e
  <2> QED
    BY <2>1, <2>2, <2>3, EditInv
<1>10. ASSUME NEW g \in Guests, Answers(g)
       PROVE  EventInv'
  <2> DEFINE q == [row EXCEPT !.rsvp = @ \cup {g}]
             e == [ideal EXCEPT !.rsvp = @ \cup {g}]
  <2>1. Exists(row) /\ g \in Listed(row.list.lines) /\ unseen' = unseen /\ Edits(q, e)
    BY <1>10 DEF Answers
  <2>2. Whole(row) /\ unseen' \subseteq {"ours", "theirs"}
    BY <2>1, InvParts
  <2>3. Whole(q) /\ SeqOf(q) = SeqOf(row) /\ PlanOf(q) = PlanOf(row) /\ Kept(q, row)
    BY <2>1, <2>2, AnsweredWhole
  <2> HIDE DEF q, e
  <2> QED
    BY <2>1, <2>2, <2>3, EditInv
<1>11. CASE UNCHANGED vars
  <2>1. TypeOK' /\ InHand'
    BY <1>11 DEF vars, EventInv, TypeOK, InHand, Degraded, Input
  <2> QED
    BY <1>11, <2>1, RowStays DEF vars
<1> QED
  BY <1>1, <1>2, <1>3, <1>4, <1>5, <1>6, <1>7, <1>8, <1>9, <1>10, <1>11 DEF Next

LEMMA EventInvariant == Spec => []EventInv
BY InitInv, NextInv, PTL DEF Spec

\* Whatever the clients, Proton's clients and the failures make of it, the row is
\* one Proton can read: one SEQUENCE, no EXDATE that is an orphan or at another
\* instant than the occurrence it leaves out of an event of DTSTART's value type, no
\* answer of somebody not invited.
THEOREM EventTypes == Spec => []TypeOK
<1>1. EventInv => TypeOK
  BY DEF EventInv
<1> QED
  BY <1>1, EventInvariant, PTL

\* No update seals a card its owner cannot open.
THEOREM RowsStayOpen == Spec => []CardsOpen
<1>1. EventInv => CardsOpen
  BY DEF EventInv
<1> QED
  BY <1>1, EventInvariant, PTL

\* Two schedules the invitees were ever told have two SEQUENCEs, however far the
\* mirror is behind: unless a row changed between the fetch and the put.
THEOREM SchedulesTold == Spec => []SequenceTells
<1>1. EventInv => SequenceTells
  BY DEF EventInv
<1> QED
  BY <1>1, EventInvariant, PTL

=============================================================================
