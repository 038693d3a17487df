--------------------------- MODULE MCSolvePipeline ---------------------------
(* Instances of SolvePipeline for TLC. *)
EXTENDS SolvePipeline, TLC

(* The api's transactions are interchangeable (no temporal property in these runs). *)
RequestSymmetry == Permutations(Requests)

(* Running out of rows would hide a follow-up.  It holds of both passing runs' bounds;  *)
(* it is no property of the code, so no run states it: add it to a cfg to change them.   *)
RowsSuffice == FreshIds # {}

=============================================================================
