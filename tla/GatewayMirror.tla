---------------------------- MODULE GatewayMirror ----------------------------
(***************************************************************************)
(* The cache coherence protocol of GatewaySync implements Mirror: a change *)
(* is still to be heard of when its log entry lies ahead of the cursor,    *)
(* and what a restart comes back to is the file.                           *)
(***************************************************************************)
EXTENDS GatewaySync

SeenIn(st) ==
  [r \in Rows |-> [at |-> st.events[r].ver, approx |-> st.events[r].synth]]

\* The last change of every row, and whether a client should see the row.
Truths ==
  [r \in Rows |-> [at    |-> touched[r],
                   shown |-> Live(r) /\ proton[r].slice # Outside]]

\* The rows whose last change the next delta will read.
Told == {r \in Rows : Ahead(r, Reached(mem, Cal[r]))}

Saved ==
  [seen  |-> SeenIn(disk),
   acked |-> disk.acked,
   told  |-> {r \in Rows : Ahead(r, disk.cursor[Cal[r]])}]

M == INSTANCE Mirror WITH
  truth <- Truths, seen <- SeenIn(mem), acked <- mem.acked, told <- Told, saved <- Saved

\* Whatever the poller, the writes and the restarts do to the store, a client
\* cannot tell it from a mirror that hears of every change, catches up without
\* going back, and owes only what a write-through left behind (writeThrough,
\* ReplaceCalendarEvents, ApplyCalendarDelta and persistLocked together).
ImplementsMirror == M!Spec
=============================================================================
