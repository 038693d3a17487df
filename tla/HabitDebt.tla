----------------------------- MODULE HabitDebt ------------------------------
(***************************************************************************)
(* What one habit's outcome log charges it with: the walk of its misses    *)
(* and credits (syncr_domain/debt.py).  A log is a function from the       *)
(* habit's occurrences to their row; times are instants.                   *)
(***************************************************************************)
EXTENDS Integers, FiniteSets, Sequences

CONSTANTS
    Blocks,   \* the habit's occurrences, one block each
    Due,      \* when each came due: Due \in [Blocks -> Nat]
    MakeUps,  \* the occurrences placed to make an earlier miss good
    NULL

ASSUME DebtSets ==
    /\ IsFiniteSet(Blocks)
    /\ Due \in [Blocks -> Nat]
    /\ MakeUps \subseteq Blocks

(* OutcomeState; `partial` and `moved` complete the occurrence as `completed` does. *)
States == {"presumed", "completed", "skipped"}

(* A row of the log, or its absence: confirmed is the instant the day was settled at. *)
Absent == [state |-> "absent", confirmed |-> NULL]

IsConfirmed(row) == row.confirmed # NULL
IsMiss(row) == IsConfirmed(row) /\ row.state = "skipped"
IsCompletion(row) == IsConfirmed(row) /\ row.state \in States \ {"skipped"}

Misses(log, at) == {b \in Blocks : IsMiss(log[b]) /\ Due[b] <= at}
Credits(log, at) == {b \in MakeUps : IsCompletion(log[b]) /\ Due[b] <= at}

(* _due_oldest_first(): a tie reads the charge as standing when the credit arrives. *)
Before(log, b, c) ==
    \/ Due[b] < Due[c]
    \/ Due[b] = Due[c] /\ IsMiss(log[b]) /\ ~IsMiss(log[c])
DueOldestFirst(log, at) ==
    LET rows == Misses(log, at) \cup Credits(log, at)
    IN  CHOOSE walk \in [1..Cardinality(rows) -> rows] :
            \A i, j \in 1..Cardinality(rows) :
                i < j => walk[i] # walk[j] /\ ~Before(log, walk[j], walk[i])

(* charged_misses(): a credit settles a charge that stands when it arrives, or nothing. *)
ChargeUnfloored(charged, miss) == IF miss THEN charged + 1 ELSE charged - 1   \* a mutation
Charge(charged, miss) ==
    IF miss THEN charged + 1 ELSE IF charged > 0 THEN charged - 1 ELSE 0

ChargedAlong(log, walk) ==
    LET charged[n \in 0..Len(walk)] ==
            IF n = 0 THEN 0 ELSE Charge(charged[n - 1], IsMiss(log[walk[n]]))
    IN  charged
ChargedMisses(log, at) ==
    LET walk == DueOldestFirst(log, at)
    IN  ChargedAlong(log, walk)[Len(walk)]

(* What the walk amounts to: the most that any later part of the log leaves uncredited. *)
LargestUncredited(log, at) ==
    LET Later(b, c) == ~Before(log, c, b)
        Left(b) == Cardinality({m \in Misses(log, at) : Later(b, m)})
                     - Cardinality({k \in Credits(log, at) : Later(b, k)})
    IN  CHOOSE n \in 0..Cardinality(Blocks) :
            /\ \A b \in Misses(log, at) : Left(b) <= n
            /\ n = 0 \/ \E b \in Misses(log, at) : Left(b) = n

=============================================================================
