---------------------------- MODULE MCEventCards ----------------------------
(***************************************************************************)
(* Instances of EventCards for TLC: rows as Proton's clients and the       *)
(* gateway leave them, resources as clients create them, and the alarms    *)
(* clients set.                                                            *)
(***************************************************************************)
EXTENDS EventCards

D(weeks, days, hours, minutes, seconds) ==
  [u \in Units |-> CASE u = "weeks" -> weeks [] u = "days" -> days [] u = "hours" -> hours
                     [] u = "minutes" -> minutes [] OTHER -> seconds]

Before(d) == Alarm("DISPLAY", "START", TRUE, d)
After(d) == Alarm("DISPLAY", "START", FALSE, d)

MCAlarmSets ==
  { {},
    \* one unit, and units that fold into minutes, hours, days and weeks
    {Before(D(0, 0, 0, 15, 0)), Before(D(1, 1, 0, 0, 0)), Before(D(0, 1, 2, 30, 0))},
    \* ..., and at nine on the day
    {Before(D(1, 7, 0, 0, 0)), Alarm("EMAIL", "START", TRUE, D(0, 1, 2, 0, 0)),
     After(D(0, 0, 9, 0, 0))},
    \* the same in other words of what a row has, beside what Proton has no
    \* equivalent of
    {Before(D(0, 0, 24, 0, 0)), Alarm("NONE", "START", TRUE, D(0, 0, 0, 5, 0)),
     Alarm("DISPLAY", "END", TRUE, D(0, 0, 0, 5, 0)), Before(D(1000, 0, 0, 0, 0))} }

Listing(lines) == [Nobody EXCEPT ![CHOOSE g \in Guests : TRUE] = lines]

\* A bare row, an hour of UTC.
Bare ==
  [packet |-> [key |-> 1, by |-> "calendar"],
   signed |-> SignedCard(1, "UTC", FALSE, {}, FALSE, 0, {}),
   text |-> [key |-> 1, lines |-> TextCard("", "", {})],
   list |-> [key |-> 1, lines |-> Nobody],
   split |-> FALSE, rsvp |-> {}, status |-> {}, alarms |-> Inherit]

\* With a guest of Proton's clients.
Invitation(r) ==
  [r EXCEPT !.signed.ORGANIZER = {"me"}, !.list.lines = Listing("theirs")]

MCRows ==
  { Gone,
    \* a series, in a zone, with an occurrence left out, a title and a reminder
    [Bare EXCEPT !.signed = SignedCard(1, "Paris", TRUE, Occs, FALSE, 1, {}),
                 !.text.lines = TextCard("talk", "", {}),
                 !.alarms = OwnList({Reminder("device", TRUE, D(0, 1, 0, 0, 0))})],
    \* with a guest: a series in a zone nobody knows, cancelled; one whose card is
    \* split; somebody else's invitation; and a row nobody can open
    [Invitation(Bare) EXCEPT !.signed = SignedCard(1, "odd", TRUE, {}, TRUE, 0, {}),
                             !.status = {"CANCELLED"}],
    [Invitation(Bare) EXCEPT !.split = TRUE],
    [Invitation(Bare) EXCEPT !.packet.by = "address", !.signed.ORGANIZER = {"them"}],
    [Bare EXCEPT !.packet.by = "lost"] }

MCResources ==
  { [start |-> 1, form |-> "Paris", rule |-> TRUE, ex |-> Occs, title |-> "talk", note |-> "",
     status |-> "TENTATIVE", guests |-> Guests,
     alarms |-> {Before(D(1, 1, 0, 0, 0))}],
    \* a day, a series
    [start |-> 2, form |-> "DATE", rule |-> TRUE, ex |-> Occs, title |-> "", note |-> "talk",
     status |-> "", guests |-> {}, alarms |-> {After(D(0, 0, 9, 0, 0))}] }

\* They are ordinary: Cards shows what EventsFaithful states of all such.
ASSUME OrdinaryAssumption == Ordinary
=============================================================================
