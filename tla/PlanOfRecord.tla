---------------------------- MODULE PlanOfRecord ----------------------------
(***************************************************************************)
(* What the solve pipeline promises of one week, whoever raced whom: the   *)
(* plan of record is a list of revisions that only grows, and every solve  *)
(* that answers does so at once, from the week as it is.  There is no      *)
(* queue here, no claim, no lease, no retry and no snapshot: a solve reads *)
(* the week and writes its answer in one step.                             *)
(***************************************************************************)
EXTENDS Naturals

CONSTANTS
    Solves,      \* what can answer: the operations of the week
    NULL

VARIABLES
    version,     \* the week's input version; 0 while the week is not tracked
    plan,        \* how many revisions the week's plan has had
    offer,       \* the solve whose proposal awaits assent, or NULL
    answered     \* the version each solve answered, or NULL

record == <<version, plan, offer, answered>>

Init ==
    /\ version \in Nat
    /\ plan \in Nat
    /\ offer = NULL
    /\ answered = [s \in Solves |-> NULL]

(* The week's inputs change, or the week comes to be tracked. *)
Edit ==
    /\ version' = version + 1
    /\ UNCHANGED <<plan, offer, answered>>

(* A revision is appended, and with it the version moves. *)
Append ==
    /\ plan' = plan + 1
    /\ version' = version + 1

(* A solve answers the week as it stands, once: nothing to place, a revision, or a proposal. *)
Answer(s) ==
    /\ version # 0
    /\ answered[s] = NULL
    /\ answered' = [answered EXCEPT ![s] = version]
    /\ \/ UNCHANGED <<version, plan, offer>>
       \/ Append /\ UNCHANGED offer
       \/ plan # 0 /\ offer' = s /\ UNCHANGED <<version, plan>>

(* The user assents to the proposal that is on offer, which is then spent. *)
Assent ==
    /\ offer # NULL
    /\ answered[offer] # NULL
    /\ offer' = NULL
    /\ Append
    /\ UNCHANGED answered

(* The plan of last resort: only where there was none. *)
LastResort ==
    /\ plan = 0
    /\ Append
    /\ UNCHANGED <<offer, answered>>

Next ==
    \/ Edit
    \/ \E s \in Solves : Answer(s)
    \/ Assent
    \/ LastResort

Spec == Init /\ [][Next]_record

=============================================================================
