--------------------------- MODULE MCGatewaySync ---------------------------
(***************************************************************************)
(* Instances of GatewaySync for TLC: the rows m and x are a series (a      *)
(* master and the exception row of one occurrence), or two plain events,   *)
(* of which x is in the second calendar when there are two.                *)
(***************************************************************************)
EXTENDS GatewayMirror

CONSTANTS c1, c2, m, x

SeriesUid == [r \in Rows |-> "u"]
SeriesRid == [r \in Rows |-> IF r = x THEN 1 ELSE 0]
PlainUid == [r \in Rows |-> IF r = x THEN "v" ELSE "u"]
PlainRid == [r \in Rows |-> 0]
Placement == [r \in Rows |-> IF r = x /\ c2 \in Cals THEN c2 ELSE c1]
=============================================================================
