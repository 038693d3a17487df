------------------------- MODULE MCOutcomeRequests --------------------------
(* Instances of OutcomeRequests for TLC. *)
EXTENDS OutcomeRequests, TLC

CONSTANTS b1, b2, m1

(* A session, its successor, and the make-up that comes due with the second. *)
DueOnTheDay == (b1 :> 0) @@ (b2 :> 1) @@ (m1 :> 1)

=============================================================================
