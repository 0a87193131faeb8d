--------------------------- MODULE MCCheckTraffic ---------------------------
(* Constants and symmetry of CheckTraffic for TLC; a unit is 30 seconds. *)
EXTENDS CheckTraffic, TLC

PerMinute == [s \in Scope |-> IF s = "burst" THEN 1 ELSE 2]
Minutes == [s \in Scope |-> IF s = "burst" THEN 2 ELSE 3]
Codes == {200, 500}
Symmetry == Permutations(Client) \cup Permutations(Worker)
=============================================================================
