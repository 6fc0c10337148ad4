--------------------------- MODULE MCSeriesWrite ---------------------------
(***************************************************************************)
(* Instances of SeriesWrite for TLC.  Occurrence 1 is past, occurrence 2   *)
(* is not; a row ID r of the initial series is the override of occurrence  *)
(* r - 1.                                                                  *)
(***************************************************************************)
EXTENDS SeriesWrite, TLC

CONSTANTS a, b

Cancelled == [master |-> TRUE, ex |-> {1}, kids |-> {}]
Edited == [master |-> TRUE, ex |-> {}, kids |-> {1}]
Orphans == [master |-> FALSE, ex |-> {}, kids |-> {1, 2}]

CancelOrEdit == {Cancelled, Edited}
AllResources == {Cancelled, Edited, Orphans}

Symmetry == Permutations(Clients)
=============================================================================
