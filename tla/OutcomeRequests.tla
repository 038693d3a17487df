-------------------------- MODULE OutcomeRequests ---------------------------
(***************************************************************************)
(* The requests that write one habit's outcome log: recording an outcome   *)
(* and confirming the day, behind the idempotency guard.  One request is    *)
(* one READ COMMITTED transaction that holds the key's claim, the log's     *)
(* rows, the habit's stored charge and the stored response.                 *)
(*                                                                         *)
(* Simplified:                                                             *)
(*  - one day holds all the blocks, it has begun, and its plan is fixed;    *)
(*  - confirming takes its row locks at once;                              *)
(*  - the bump and the solve request that end each write are SolvePipeline.*)
(***************************************************************************)
EXTENDS HabitDebt

CONSTANTS
    Requests,   \* concurrent transactions
    Keys,       \* idempotency keys
    Retention,  \* RETENTION
    MaxNow,     \* bound: the last instant
    MaxCalls    \* bound: requests that arrive

ASSUME RequestBounds ==
    /\ Retention \in Nat \ {0}
    /\ MaxNow \in Nat
    /\ MaxCalls \in Nat
    /\ NULL \notin Keys \cup Nat

VARIABLES
    now,
    log,       \* the committed rows of block_outcomes
    charge,    \* the habit row: [misses, walkedAt]; walkedAt is history, not a column
    keys,      \* the committed rows of idempotency_keys, or NULL
    txn,       \* each request's transaction
    ran,       \* history: the executions committed under each key
    calls      \* bound used

vars == <<now, log, charge, keys, txn, ran, calls>>

(* The request hash tells two of these apart and nothing else. *)
RecordOps == [what: {"record"}, block: Blocks, state: {"completed", "skipped"}]
ConfirmOp == [what |-> "confirm", block |-> NULL, state |-> NULL]
Ops == RecordOps \cup {ConfirmOp}

Instants == 0..MaxNow
Row == [state: States, confirmed: Instants \cup {NULL}]
Execution == [op: Ops, at: Instants]

ASSUME NoKeyIsNoRow == NULL \notin Execution

Phases == {"idle", "arrived", "held", "conflicted", "lost", "owning", "wrote", "walked"}
Answers == {"none", "applied", "replayed", "reused", "later"}
IdleTxn == [phase |-> "idle", key |-> NULL, op |-> ConfirmOp, at |-> 0,
            rows |-> [b \in {} |-> Absent], misses |-> 0, walkedAt |-> 0, answer |-> "none"]

Init ==
    /\ now = 0
    /\ log = [b \in Blocks |-> Absent]
    /\ charge = [misses |-> 0, walkedAt |-> 0]
    /\ keys = [k \in Keys |-> NULL]
    /\ txn = [r \in Requests |-> IdleTxn]
    /\ ran = [k \in Keys |-> {}]
    /\ calls = 0

-----------------------------------------------------------------------------
(* The locks of the open transactions. *)

HasKey(r) == txn[r].phase \in {"held", "conflicted", "lost", "owning", "wrote", "walked"}
KeyTaken(r) == \E other \in Requests \ {r} : HasKey(other) /\ txn[other].key = txn[r].key
Locked(r, blocks) == \E other \in Requests \ {r} : DOMAIN txn[other].rows \cap blocks # {}
HabitTakenShared(r) ==   \* a mutation: the habit's row is share-locked by the write, then upgraded
    \E other \in Requests \ {r} : txn[other].phase \in {"wrote", "walked"}
HabitTaken(r) == \E other \in Requests \ {r} : txn[other].phase = "walked"

Answered(r, answer) ==
    txn' = [txn EXCEPT ![r] = [IdleTxn EXCEPT !.answer = answer]]
Replayed(r) ==
    txn' = [txn EXCEPT ![r] = [IdleTxn EXCEPT !.key = txn[r].key, !.op = txn[r].op,
                                              !.answer = "replayed"]]

(* The log this transaction reads: what is committed, under its own writes. *)
Seen(r) == [b \in Blocks |-> IF b \in DOMAIN txn[r].rows THEN txn[r].rows[b] ELSE log[b]]

-----------------------------------------------------------------------------
(* IdempotencyGuard.once(), statement by statement. *)

(* Without a key the work simply runs. *)
Arrive(r) ==
    /\ txn[r].phase = "idle"
    /\ calls < MaxCalls
    /\ calls' = calls + 1
    /\ \E k \in Keys \cup {NULL}, op \in Ops :
        txn' = [txn EXCEPT ![r] = [IdleTxn EXCEPT !.phase = IF k = NULL THEN "owning" ELSE "arrived",
                                                  !.key = k, !.op = op]]
    /\ UNCHANGED <<now, log, charge, keys, ran>>

(* hold(): never waits; `at` is read once the key is held. *)
Hold(r) ==
    /\ txn[r].phase = "arrived"
    /\ \/ KeyTaken(r) /\ Answered(r, "later")
       \/ ~KeyTaken(r) /\ txn' = [txn EXCEPT ![r].phase = "held", ![r].at = now]
    /\ UNCHANGED <<now, log, charge, keys, ran, calls>>

(* claim(): an insert that does nothing on a conflict. *)
Claim(r) ==
    /\ txn[r].phase = "held"
    /\ txn' = [txn EXCEPT ![r].phase = IF keys[txn[r].key] = NULL THEN "owning" ELSE "conflicted"]
    /\ UNCHANGED <<now, log, charge, keys, ran, calls>>

IsExpiredAlways(row, at) == row # NULL   \* a mutation: any stored row may be taken over
IsExpired(row, at) == row # NULL /\ row.at + Retention <= at

(* reclaim(): take over a row past its window. *)
Reclaim(r) ==
    /\ txn[r].phase = "conflicted"
    /\ txn' = [txn EXCEPT ![r].phase =
                IF IsExpired(keys[txn[r].key], txn[r].at) THEN "owning" ELSE "lost"]
    /\ UNCHANGED <<now, log, charge, keys, ran, calls>>

AnswersAnything(row, op) == TRUE   \* a mutation: the request hash is not compared
AnswersFor(row, op) == row.op = op

(* find() and _replay(). *)
Find(r) ==
    /\ txn[r].phase = "lost"
    /\ LET row == keys[txn[r].key]
       IN  \/ row = NULL /\ Answered(r, "later")
           \/ row # NULL /\ AnswersFor(row, txn[r].op) /\ Replayed(r)
           \/ row # NULL /\ ~AnswersFor(row, txn[r].op) /\ Answered(r, "reused")
    /\ UNCHANGED <<now, log, charge, keys, ran, calls>>

-----------------------------------------------------------------------------
(* The work: OutcomeService.record() and confirm_day(). *)

(* record() leaves `confirmed` as it was; settle() presumes what has no row and stamps *)
(* what is not stamped.                                                                *)
Recorded(r, b) == [state |-> txn[r].op.state, confirmed |-> log[b].confirmed]
SettledAgain(r, b) ==   \* a mutation: every confirmation stamps every row
    [state |-> IF log[b] = Absent THEN "presumed" ELSE log[b].state, confirmed |-> now]
Settled(r, b) ==
    [state |-> IF log[b] = Absent THEN "presumed" ELSE log[b].state,
     confirmed |-> IF IsConfirmed(log[b]) THEN log[b].confirmed ELSE now]

WriteRows(r) ==
    /\ txn[r].phase = "owning"
    /\ \/ /\ txn[r].op.what = "record"
          /\ ~Locked(r, {txn[r].op.block})
          /\ txn' = [txn EXCEPT ![r].phase = "wrote",
                                ![r].rows = [b \in {txn[r].op.block} |-> Recorded(r, b)]]
       \/ /\ txn[r].op.what = "confirm"
          /\ ~Locked(r, Blocks)
          /\ txn' = [txn EXCEPT ![r].phase = "wrote", ![r].rows = [b \in Blocks |-> Settled(r, b)]]
    /\ UNCHANGED <<now, log, charge, keys, ran, calls>>

(* StoredChargedMisses.refresh(): lock the habit's row, then walk the log. *)
WalkUnlocked(r) ==   \* a mutation: the log is read before the lock is taken
    /\ txn[r].phase = "wrote"
    /\ txn' = [txn EXCEPT ![r].phase = "walked", ![r].walkedAt = now,
                          ![r].misses = ChargedMisses(Seen(r), now)]
    /\ UNCHANGED <<now, log, charge, keys, ran, calls>>
Walk(r) ==
    /\ txn[r].phase = "wrote"
    /\ ~HabitTaken(r)
    /\ txn' = [txn EXCEPT ![r].phase = "walked", ![r].walkedAt = now,
                          ![r].misses = ChargedMisses(Seen(r), now)]
    /\ UNCHANGED <<now, log, charge, keys, ran, calls>>

Completed(r) ==
    [k \in Keys |-> IF k = txn[r].key THEN [op |-> txn[r].op, at |-> txn[r].at] ELSE keys[k]]

Commit(r) ==
    /\ txn[r].phase = "walked"
    /\ log' = Seen(r)
    /\ charge' = [misses |-> txn[r].misses, walkedAt |-> txn[r].walkedAt]
    /\ keys' = Completed(r)
    /\ ran' = [k \in Keys |-> IF k = txn[r].key
                              THEN ran[k] \cup {[op |-> txn[r].op, at |-> txn[r].at]}
                              ELSE ran[k]]
    /\ Answered(r, "applied")
    /\ UNCHANGED <<now, calls>>

(* The service refuses, the connection drops, the process dies. *)
Rollback(r) ==
    /\ txn[r].phase # "idle"
    /\ Answered(r, "none")
    /\ UNCHANGED <<now, log, charge, keys, ran, calls>>

RequestStep(r) ==
    \/ Hold(r) \/ Claim(r) \/ Reclaim(r) \/ Find(r)
    \/ WriteRows(r) \/ Walk(r) \/ Commit(r)

-----------------------------------------------------------------------------

(* sweep(): a row a transaction has taken over is locked until it commits. *)
Sweep ==
    /\ \E k \in Keys :
        /\ IsExpired(keys[k], now)
        /\ \A r \in Requests : txn[r].key = k => txn[r].phase \notin {"owning", "wrote", "walked"}
        /\ keys' = [keys EXCEPT ![k] = NULL]
    /\ UNCHANGED <<now, log, charge, txn, ran, calls>>

Tick ==
    /\ now < MaxNow
    /\ now' = now + 1
    /\ UNCHANGED <<log, charge, keys, txn, ran, calls>>

Next ==
    \/ \E r \in Requests : Arrive(r) \/ RequestStep(r) \/ Rollback(r)
    \/ Sweep
    \/ Tick

Spec == Init /\ [][Next]_vars

Fairness == \A r \in Requests : WF_vars(RequestStep(r))

FairSpec == Spec /\ Fairness

-----------------------------------------------------------------------------
(* Properties. *)

TypeOK ==
    /\ now \in Instants
    /\ log \in [Blocks -> Row \cup {Absent}]
    /\ charge \in [misses: Nat, walkedAt: Instants]
    /\ keys \in [Keys -> Execution \cup {NULL}]
    /\ ran \in [Keys -> SUBSET Execution]
    /\ calls \in Nat
    /\ \A r \in Requests :
        /\ txn[r].phase \in Phases
        /\ txn[r].key \in Keys \cup {NULL}
        /\ txn[r].op \in Ops
        /\ txn[r].at \in Instants
        /\ txn[r].rows \in UNION {[held -> Row] : held \in SUBSET Blocks}
        /\ txn[r].misses \in Nat
        /\ txn[r].walkedAt \in Instants
        /\ txn[r].answer \in Answers

(* The stored charge is a walk of the whole committed log, whichever writers overlapped:     *)
(* no row committed before it is missing from it (habits/charged.py, "lock before reading    *)
(* the log").                                                                                *)
ChargeIsAWalkOfTheLog == charge.misses = ChargedMisses(log, charge.walkedAt)

(* The charge is the most misses that any later part of the log leaves uncredited: a credit  *)
(* settles a miss that came due no later than it, and none twice (debt.py).                   *)
WalkIsTheLargestUncredited == ChargedMisses(log, now) = LargestUncredited(log, now)

(* The instant a day was first settled at stands, whatever is corrected or confirmed over    *)
(* it (plans/reality.py, settle()).                                                           *)
FirstConfirmationStands ==
    [][\A b \in Blocks : IsConfirmed(log[b]) => log'[b].confirmed = log[b].confirmed]_vars

(* A key's work is committed at most once in the window its claim opened, under concurrent   *)
(* retries, reused keys, takeovers of expired rows, the sweep, and rollbacks between any two *)
(* statements (idempotency/guard.py).                                                         *)
AtMostOncePerWindow ==
    [][\A r \in Requests :
        txn[r].phase = "walked" /\ txn'[r].answer = "applied" /\ txn[r].key # NULL
            => \A e \in ran[txn[r].key] : e.at + Retention <= now]_vars

(* What is replayed is the answer of an execution of this very request that committed.       *)
ReplayAnswersWhatRan ==
    \A r \in Requests :
        txn[r].answer = "replayed" => \E e \in ran[txn[r].key] : e.op = txn[r].op

(* Every request that arrived is answered: the row locks, the habit's lock and the key's are *)
(* never waited for in a circle.                                                              *)
EveryRequestEnds == \A r \in Requests : txn[r].phase # "idle" ~> txn[r].phase = "idle"

=============================================================================
