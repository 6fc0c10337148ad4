------------------------------- MODULE Alarms -------------------------------
(***************************************************************************)
(* internal/proton/notifications.go: a VALARM of a client and an entry of  *)
(* Proton's Notifications column.  No state: the operators EventCards is   *)
(* built from, on durations in weeks, days, hours, minutes and seconds.    *)
(***************************************************************************)
EXTENDS Integers, FiniteSets

Units == {"weeks", "days", "hours", "minutes", "seconds"}

\* A duration: a number of each unit, before the start or after it.
Duration == [Units -> Nat]
Zero == [u \in Units |-> 0]
Only(unit, n) == [Zero EXCEPT ![unit] = n]

\* An alarm as a client writes it, and as the column has it.
Alarm(action, related, negative, d) ==
  [action |-> action, related |-> related, negative |-> negative, d |-> d]
Reminder(type, negative, d) == [type |-> type, negative |-> negative, d |-> d]

VAlarms ==
  [action : {"DISPLAY", "AUDIO", "EMAIL", "NONE"}, related : {"START", "END"},
   negative : BOOLEAN, d : Duration]
Reminders == [type : {"device", "email"}, negative : BOOLEAN, d : Duration]

totalSeconds(d) ==
  604800 * d["weeks"] + 86400 * d["days"] + 3600 * d["hours"] + 60 * d["minutes"] + d["seconds"]

signedSeconds(n) == IF n.negative THEN -totalSeconds(n.d) ELSE totalSeconds(n.d)

-----------------------------------------------------------------------------
(* normalizeTriggerDuration *)

\* All-day: hours and minutes say at what time of the day, weeks stay weeks only
\* beside no days, or beside six and a time.
KeepWeeks(negative, d) ==
  IF negative /\ (d["hours"] # 0 \/ d["minutes"] # 0) THEN d["days"] = 6 ELSE d["days"] = 0

NormalDay(negative, d) ==
  LET e == [d EXCEPT !["seconds"] = 0]
  IN  IF KeepWeeks(negative, d) THEN e
      ELSE [e EXCEPT !["days"] = @ + 7 * d["weeks"], !["weeks"] = 0]

\* Mutant: the weeks of a duration of several units are forgotten.
FoldedWeekless(d) == Only("minutes", totalSeconds([d EXCEPT !["weeks"] = 0]) \div 60)

\* Several units become one, the largest that divides.
Folded(d) ==
  LET minutes == totalSeconds(d) \div 60
      hours == minutes \div 60
      days == hours \div 24
  IN  CASE minutes % 60 # 0 -> Only("minutes", minutes)
        [] minutes % 60 = 0 /\ hours % 24 # 0 -> Only("hours", hours)
        [] minutes % 1440 = 0 /\ days % 7 # 0 -> Only("days", days)
        [] OTHER -> Only("weeks", days \div 7)

NormalTimed(d) ==
  IF Cardinality({u \in Units \ {"seconds"} : d[u] # 0}) <= 1
  THEN [d EXCEPT !["seconds"] = 0]
  ELSE Folded(d)

Normal(negative, d, allDay) == IF allDay THEN NormalDay(negative, d) ELSE NormalTimed(d)

-----------------------------------------------------------------------------
(* NotificationFromAlarm: the entries an alarm becomes, none or one. *)

InBounds(d) ==
  d["seconds"] = 0 /\ d["minutes"] <= 9999 /\ d["hours"] <= 999 /\ d["days"] <= 6999 /\ d["weeks"] <= 999

\* After the start there is only "the same day at", for an all-day event.
InTime(negative, d, allDay) ==
  negative \/ totalSeconds(d) = 0 \/ (allDay /\ totalSeconds(d) < 86400)

\* What a trigger becomes when it is written out and read again (String).
Written(d) ==
  IF \A u \in Units \ {"weeks"} : d[u] = 0 THEN d
  ELSE [d EXCEPT !["days"] = @ + 7 * d["weeks"], !["weeks"] = 0]

FromAlarm(a, allDay) ==
  LET d == Normal(a.negative, a.d, allDay)
  IN  IF /\ a.action \in {"DISPLAY", "AUDIO", "EMAIL"}
         /\ a.related = "START"
         /\ InTime(a.negative, d, allDay) /\ InBounds(d)
      THEN {Reminder(IF a.action = "EMAIL" THEN "email" ELSE "device",
                     a.negative /\ totalSeconds(d) # 0, Written(d))}
      ELSE {}

\* eventToVEvent: the VALARM a client is served for an entry.
Served(n) ==
  Alarm(IF n.type = "email" THEN "EMAIL" ELSE "DISPLAY", "START", n.negative, n.d)

-----------------------------------------------------------------------------
(* The column: inherit the calendar's reminders, or a list of its own. *)

Inherit == [own |-> FALSE, list |-> {}]
OwnList(list) == [own |-> TRUE, list |-> list]

Meaning(list) == {<<n.type, signedSeconds(n)>> : n \in list}

notificationSetsEqual(a, b) == Cardinality(a) = Cardinality(b) /\ Meaning(a) = Meaning(b)

\* notificationsPayload: the column is replaced only when the reminders change.
notificationsPayload(column, want) ==
  CASE want = {} /\ column.list = {} -> column
    [] want = {} /\ column.list # {} -> OwnList({})
    [] want # {} /\ notificationSetsEqual(column.list, want) -> column
    [] OTHER -> OwnList(want)

-----------------------------------------------------------------------------
(* The reference: when a client's alarm ought to ring. *)

\* The minute before or after the start, nothing for an alarm Proton has no
\* equivalent of (header of notifications.go).
Rings(a, allDay) ==
  LET minutes == totalSeconds(a.d) \div 60
      at == IF a.negative THEN -60 * minutes ELSE 60 * minutes
  IN  IF /\ a.action \in {"DISPLAY", "AUDIO", "EMAIL"} /\ a.related = "START"
         /\ at <= (IF allDay THEN 86399 ELSE 0)
         /\ minutes <= 999 * 10080
      THEN {<<IF a.action = "EMAIL" THEN "email" ELSE "device", at>>}
      ELSE {}
=============================================================================
