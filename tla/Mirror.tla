------------------------------- MODULE Mirror -------------------------------
(***************************************************************************)
(* What the gateway's cache promises, without its mechanism: no cursors,   *)
(* no generations, no poller, no files.  A view of the calendars is served *)
(* to the clients and saved now and then; truth is what Proton holds.      *)
(*                                                                         *)
(*   truth[r]  the change that last touched row r (at), and whether a      *)
(*             client should see the row at all (shown)                    *)
(*   seen[r]   the version of r that is served (0: none), and whether it   *)
(*             is only an approximation of it                              *)
(*   acked[r]  the last version a client was told it had written           *)
(*   told      the rows with a change the mirror is still going to hear of *)
(*   saved     what a restart comes back to: seen, acked and told          *)
(*                                                                         *)
(* A row that is served wrong and is not told of is owed: nothing short of *)
(* a complete re-read repairs it.  The promise is that only a client's own *)
(* write can leave a row owed, that keeping up with Proton never takes a   *)
(* row back to an older version, and that nothing takes it back behind     *)
(* what a client was told it wrote -- save a restart from an older file.   *)
(***************************************************************************)
EXTENDS Naturals

CONSTANT Rows

VARIABLES truth, seen, acked, told, saved

vars == <<truth, seen, acked, told, saved>>

Truth == [at : Nat, shown : BOOLEAN]
Seen == [at : Nat, approx : BOOLEAN]
Nothing == [at |-> 0, approx |-> FALSE]

TypeOK ==
  /\ truth \in [Rows -> Truth]
  /\ seen \in [Rows -> Seen]
  /\ acked \in [Rows -> Nat]
  /\ told \subseteq Rows
  /\ saved \in [seen : [Rows -> Seen], acked : [Rows -> Nat], told : SUBSET Rows]

Right(r) ==
  \/ seen[r] = [at |-> truth[r].at, approx |-> FALSE]
  \/ seen[r].at = 0 /\ ~truth[r].shown

Owed == {r \in Rows : ~Right(r) /\ r \notin told}

\* A step that moves the view may save it.  What is saved may have more to
\* hear of than what is served, never less.
MaySave ==
  \/ UNCHANGED saved
  \/ saved'.seen = seen' /\ saved'.acked = acked' /\ told' \subseteq saved'.told

\* A gateway that knows nothing: every row is still to be heard of.
Blank ==
  [seen |-> [r \in Rows |-> Nothing], acked |-> [r \in Rows |-> 0], told |-> Rows]

Init ==
  /\ truth \in [Rows -> Truth]
  /\ saved = Blank
  /\ seen = Blank.seen /\ acked = Blank.acked /\ told = Blank.told

\* The mirror catches up with Proton, on any rows, as far as it likes.
Refresh ==
  /\ UNCHANGED <<truth, acked>>
  /\ told' \subseteq told
  /\ \A r \in Rows :
       \/ seen'[r] \in {seen[r], Nothing}
       \/ /\ ~seen'[r].approx
          /\ seen'[r].at \in seen[r].at..truth[r].at /\ seen'[r].at >= acked[r]
  /\ Owed' \subseteq Owed
  /\ MaySave

\* Proton changes the rows of R, for one of its clients or for the gateway.
Change(R) ==
  /\ \A r \in Rows : IF r \in R THEN truth'[r].at > truth[r].at
                                ELSE truth'[r] = truth[r]
  /\ UNCHANGED <<seen, acked>>
  /\ told' = told \cup R
  /\ saved' = [saved EXCEPT !.told = saved.told \cup R]

\* A client is told its write to r succeeded, and is served the row as the
\* mirror knows it after that write.
Write(r) ==
  /\ UNCHANGED <<truth, told>>
  /\ seen' = [seen EXCEPT ![r] = seen'[r]]
  /\ seen'[r].at \in 1..truth[r].at /\ seen'[r].at >= acked[r]
  /\ acked' = [acked EXCEPT ![r] = seen'[r].at]
  /\ MaySave

\* A client is told the rows of R are deleted, or that it has no claim on them
\* any more.
Remove(R) ==
  /\ UNCHANGED <<truth, told>>
  /\ seen' = [r \in Rows |-> IF r \in R THEN Nothing ELSE seen[r]]
  /\ \A r \in Rows : IF r \in R THEN acked'[r] \in {0, truth[r].at}
                                ELSE acked'[r] = acked[r]
  /\ MaySave

Restart ==
  /\ UNCHANGED truth
  /\ saved' \in {saved, Blank}
  /\ seen' = saved'.seen /\ acked' = saved'.acked /\ told' = saved'.told

Next ==
  \/ Refresh
  \/ \E R \in SUBSET Rows : Change(R) \/ Remove(R)
  \/ \E r \in Rows : Write(r)
  \/ Restart

Spec == Init /\ [][Next]_vars

\* No row is served in a version older than the one a client was told it had
\* written.
NeverOlderThanAcked == \A r \in Rows : seen[r].at # 0 => seen[r].at >= acked[r]
=============================================================================
