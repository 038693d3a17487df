--------------------------- MODULE MCPlanAuthority ---------------------------
(* Instances of PlanAuthority for TLC. *)
EXTENDS PlanAuthority, TLC

(* Three consecutive hours and one span over the first two: abutting, nested and *)
(* overlapping pairs, which start before, at and after the instants of a run.     *)
Hours == {<<1, 2>>, <<2, 3>>, <<3, 4>>, <<1, 3>>}

BlockSymmetry == Permutations(Placed)

=============================================================================
