---------------------------- MODULE MCProjection ----------------------------
(* Instances of Projection for TLC. *)
EXTENDS Projection

=============================================================================
