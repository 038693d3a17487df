----------------------- MODULE OutcomeRequestsProofs ------------------------
(***************************************************************************)
(* Proofs about OutcomeRequests, for any number of requests, keys and      *)
(* blocks, any due times and any retention.  One invariant says what the   *)
(* open transactions hold and have computed; one lemma per part of it      *)
(* shows that every step keeps that part.                                  *)
(***************************************************************************)
EXTENDS OutcomeRequests, HabitDebtProofs

WrittenRows == UNION {[held -> Row] : held \in SUBSET Blocks}
Txn == [phase: Phases, key: Keys \cup {NULL}, op: Ops, at: Instants, rows: WrittenRows,
        misses: Nat, walkedAt: Instants, answer: Answers]

TypeInv ==
    /\ now \in Instants
    /\ log \in [Blocks -> Row \cup {Absent}]
    /\ charge \in [misses: Nat, walkedAt: Instants]
    /\ keys \in [Keys -> Execution \cup {NULL}]
    /\ txn \in [Requests -> Txn]
    /\ ran \in [Keys -> SUBSET Execution]
    /\ calls \in Nat

(* What an open transaction has written, no other has; one that has written nothing holds no  *)
(* row; one has walked at most.                                                               *)
RowLocks ==
    /\ \A r \in Requests : txn[r].phase \notin {"wrote", "walked"} => DOMAIN txn[r].rows = {}
    /\ \A r, s \in Requests : r # s => DOMAIN txn[r].rows \cap DOMAIN txn[s].rows = {}
HabitLock ==
    \A r, s \in Requests : txn[r].phase = "walked" /\ txn[s].phase = "walked" => r = s
KeyLocks ==
    /\ \A r \in Requests :
        txn[r].phase \in {"arrived", "held", "conflicted", "lost"} => txn[r].key # NULL
    /\ \A r, s \in Requests :
        r # s /\ HasKey(r) /\ HasKey(s) /\ txn[r].key # NULL => txn[r].key # txn[s].key

(* A transaction that has walked is about to store the charge of the log it commits. *)
WalkInv ==
    /\ ChargeIsAWalkOfTheLog
    /\ \A r \in Requests :
        txn[r].phase = "walked" => txn[r].misses = ChargedMisses(Seen(r), txn[r].walkedAt)

(* A row not committed yet keeps the instant the committed one was settled at. *)
SettledInv ==
    \A r \in Requests : \A b \in DOMAIN txn[r].rows :
        IsConfirmed(log[b]) => txn[r].rows[b].confirmed = log[b].confirmed

(* A stored key is that of its latest execution; where none is stored, or where one owns the  *)
(* key, the window of every execution has passed.                                             *)
Past(e) == e.at + Retention <= now
Owning(r) == txn[r].phase \in {"owning", "wrote", "walked"} /\ txn[r].key # NULL
WindowInv ==
    /\ \A k \in Keys : keys[k] = NULL => \A e \in ran[k] : Past(e)
    /\ \A k \in Keys : keys[k] # NULL =>
        /\ keys[k] \in ran[k]
        /\ \A e \in ran[k] : e.at <= keys[k].at \/ Past(e)
    /\ \A r \in Requests : txn[r].at <= now
    /\ \A r \in Requests : Owning(r) => \A e \in ran[txn[r].key] : Past(e)

RequestInv == TypeInv /\ RowLocks /\ HabitLock /\ KeyLocks /\ WalkInv /\ SettledInv /\ WindowInv

-----------------------------------------------------------------------------

(* Where nothing is due there is nothing to walk. *)
LEMMA AnEmptyLogChargesNothing == ChargedMisses([b \in Blocks |-> Absent], 0) = 0
<1> DEFINE empty == [b \in Blocks |-> Absent]
<1>1. Misses(empty, 0) = {} /\ Credits(empty, 0) = {}
  BY DebtSets DEF Misses, Credits, IsMiss, IsCompletion, IsConfirmed, Absent
<1>2. Cardinality({}) = 0 /\ 1..0 = {} /\ {} \cup {} = {}
  BY FS_EmptySet
<1>3. RowsOf(empty, 0) = {} /\ Len(DueOldestFirst(empty, 0)) = 0
  BY <1>1, <1>2, WalkFacts DEF RowsOf
<1>4. ChargedAlong(empty, DueOldestFirst(empty, 0))[0] = 0
  BY <1>3, ChargesOfAWalk
<1> QED BY <1>3, <1>4 DEF ChargedMisses

LEMMA IdleTxnTyped == IdleTxn \in Txn
<1>1. [b \in {} |-> Absent] \in WrittenRows
  <2>1. [b \in {} |-> Absent] \in [{} -> Row]
    OBVIOUS
  <2> QED BY <2>1 DEF WrittenRows
<1>2. ConfirmOp \in Ops /\ "idle" \in Phases /\ "none" \in Answers
  BY DEF Ops, Phases, Answers
<1>3. 0 \in Instants
  BY RequestBounds DEF Instants
<1> QED BY <1>1, <1>2, <1>3 DEF IdleTxn, Txn

LEMMA InitRequestInv == Init => RequestInv
<1> SUFFICES ASSUME Init PROVE RequestInv
  OBVIOUS
<1>1. TypeInv
  BY IdleTxnTyped, RequestBounds DEF Init, TypeInv, Instants
<1>2. RowLocks /\ HabitLock /\ KeyLocks
  BY DEF Init, IdleTxn, RowLocks, HabitLock, KeyLocks, HasKey
<1>3. WalkInv
  BY AnEmptyLogChargesNothing DEF Init, IdleTxn, WalkInv, ChargeIsAWalkOfTheLog
<1>4. SettledInv
  BY DEF Init, IdleTxn, SettledInv
<1>5. WindowInv
  BY DEF Init, IdleTxn, WindowInv, Owning
<1> QED BY <1>1, <1>2, <1>3, <1>4, <1>5 DEF RequestInv

-----------------------------------------------------------------------------
(* The transaction each kind of step leaves. *)

(* The rows a write puts under its locks are rows of blocks, and nobody else's. *)
LEMMA WrittenTyped ==
    ASSUME TypeInv, NEW r \in Requests, WriteRows(r)
    PROVE  \E rows \in WrittenRows :
               /\ txn' = [txn EXCEPT ![r].phase = "wrote", ![r].rows = rows]
               /\ ~Locked(r, DOMAIN rows)
               /\ \A b \in DOMAIN rows : IsConfirmed(log[b]) => rows[b].confirmed = log[b].confirmed
<1>0. txn[r] \in Txn /\ now \in Instants /\ \A b \in Blocks : log[b] \in Row \cup {Absent}
  BY DEF TypeInv
<1>00. \A b \in Blocks : log[b].confirmed \in Instants \cup {NULL}
  BY <1>0 DEF Row, Absent
<1>1. CASE txn[r].op.what = "record"
  <2> DEFINE b == txn[r].op.block
             rows == [x \in {b} |-> Recorded(r, x)]
  <2>1. b \in Blocks /\ txn[r].op.state \in States
    BY <1>0, <1>1 DEF Txn, Ops, RecordOps, ConfirmOp, States
  <2>2. Recorded(r, b) \in Row /\ Recorded(r, b).confirmed = log[b].confirmed
    BY <2>1, <1>00 DEF Recorded, Row
  <2>3. rows \in [{b} -> Row]
    BY <2>2
  <2>4. rows \in WrittenRows
    BY <2>1, <2>3 DEF WrittenRows
  <2>5. ~Locked(r, {b}) /\ txn' = [txn EXCEPT ![r].phase = "wrote", ![r].rows = rows]
    BY <1>1 DEF WriteRows
  <2> QED BY <2>2, <2>4, <2>5
<1>2. CASE txn[r].op.what = "confirm"
  <2> DEFINE rows == [x \in Blocks |-> Settled(r, x)]
  <2>1. \A b \in Blocks : Settled(r, b) \in Row
    BY <1>0, <1>00 DEF Settled, Row, Absent, States
  <2>2. \A b \in Blocks : IsConfirmed(log[b]) => Settled(r, b).confirmed = log[b].confirmed
    BY DEF Settled
  <2>3. rows \in WrittenRows
    BY <2>1 DEF WrittenRows
  <2>4. ~Locked(r, Blocks) /\ txn' = [txn EXCEPT ![r].phase = "wrote", ![r].rows = rows]
    BY <1>2 DEF WriteRows
  <2> QED BY <2>2, <2>3, <2>4
<1> QED BY <1>1, <1>2 DEF WriteRows

(* A log under the rows of a transaction is a log. *)
LEMMA SeenTyped ==
    ASSUME TypeInv, NEW r \in Requests
    PROVE  /\ Seen(r) \in [Blocks -> Row \cup {Absent}]
           /\ DOMAIN txn[r].rows \subseteq Blocks
<1>1. txn[r].rows \in WrittenRows
  BY DEF TypeInv, Txn
<1>2. PICK held \in SUBSET Blocks : txn[r].rows \in [held -> Row]
  BY <1>1 DEF WrittenRows
<1> QED BY <1>2 DEF Seen, TypeInv

LEMMA TypeStep ==
    ASSUME TypeInv, [Next]_vars
    PROVE  TypeInv'
<1> USE DEF TypeInv
<1>1. CASE UNCHANGED vars
  BY <1>1 DEF vars
<1>2. ASSUME NEW r \in Requests, Arrive(r) PROVE TypeInv'
  <2>1. PICK k \in Keys \cup {NULL}, op \in Ops :
            txn' = [txn EXCEPT ![r] = [IdleTxn EXCEPT !.phase = IF k = NULL THEN "owning" ELSE "arrived",
                                                      !.key = k, !.op = op]]
    BY <1>2 DEF Arrive
  <2>2. txn'[r] \in Txn
    BY <2>1, IdleTxnTyped DEF Txn, Phases
  <2> QED BY <1>2, <2>1, <2>2 DEF Arrive
<1>3. ASSUME NEW r \in Requests, NEW answer \in Answers, Answered(r, answer)
      PROVE  txn' \in [Requests -> Txn]
  BY <1>3, IdleTxnTyped DEF Answered, Txn
<1>4. ASSUME NEW r \in Requests, Replayed(r) PROVE txn' \in [Requests -> Txn]
  BY <1>4, IdleTxnTyped DEF Replayed, Txn, Answers
<1>5. ASSUME NEW r \in Requests, Hold(r) PROVE TypeInv'
  BY <1>3, <1>5 DEF Hold, Txn, Phases, Answers
<1>6. ASSUME NEW r \in Requests, Claim(r) PROVE TypeInv'
  BY <1>6 DEF Claim, Txn, Phases
<1>7. ASSUME NEW r \in Requests, Reclaim(r) PROVE TypeInv'
  BY <1>7 DEF Reclaim, Txn, Phases
<1>8. ASSUME NEW r \in Requests, Find(r) PROVE TypeInv'
  BY <1>3, <1>4, <1>8 DEF Find, Answers
<1>9. ASSUME NEW r \in Requests, WriteRows(r) PROVE TypeInv'
  <2>1. PICK rows \in WrittenRows : txn' = [txn EXCEPT ![r].phase = "wrote", ![r].rows = rows]
    BY <1>9, WrittenTyped
  <2>2. [txn[r] EXCEPT !.phase = "wrote", !.rows = rows] \in Txn
    BY DEF Txn, Phases
  <2>3. txn' = [txn EXCEPT ![r] = [txn[r] EXCEPT !.phase = "wrote", !.rows = rows]]
    BY <2>1
  <2>4. txn' \in [Requests -> Txn]
    BY <2>2, <2>3
  <2> QED BY <1>9, <2>4 DEF WriteRows
<1>10. ASSUME NEW r \in Requests, Walk(r) PROVE TypeInv'
  <2>1. ChargedMisses(Seen(r), now) \in Nat
    BY TheWalkIsTheLargestUncredited
  <2> DEFINE misses == ChargedMisses(Seen(r), now)
             walked == [txn[r] EXCEPT !.phase = "walked", !.walkedAt = now, !.misses = misses]
  <2> HIDE DEF misses
  <2>2. misses \in Nat
    BY <2>1 DEF misses
  <2>3. walked \in Txn
    BY <2>2 DEF Txn, Phases
  <2>4. txn' = [txn EXCEPT ![r].phase = "walked", ![r].walkedAt = now, ![r].misses = misses]
    BY <1>10 DEF Walk, misses
  <2>5. txn' = [txn EXCEPT ![r] = walked]
    BY <2>4
  <2>6. txn' \in [Requests -> Txn]
    BY <2>3, <2>5
  <2> QED BY <1>10, <2>6 DEF Walk
<1>11. ASSUME NEW r \in Requests, Commit(r) PROVE TypeInv'
  <2>1. txn' \in [Requests -> Txn]
    BY <1>3, <1>11 DEF Commit, Answers
  <2>2. log' \in [Blocks -> Row \cup {Absent}]
    BY <1>11, SeenTyped DEF Commit
  <2>3. charge' \in [misses: Nat, walkedAt: Instants]
    BY <1>11 DEF Commit, Txn
  <2>4. [op |-> txn[r].op, at |-> txn[r].at] \in Execution
    BY DEF Txn, Execution
  <2>5. keys' \in [Keys -> Execution \cup {NULL}]
    BY <1>11, <2>4 DEF Commit, Completed
  <2>6. ran' \in [Keys -> SUBSET Execution]
    BY <1>11, <2>4 DEF Commit
  <2> QED BY <1>11, <2>1, <2>2, <2>3, <2>5, <2>6 DEF Commit
<1>12. ASSUME NEW r \in Requests, Rollback(r) PROVE TypeInv'
  BY <1>3, <1>12 DEF Rollback, Answers
<1>13. CASE Sweep
  BY <1>13 DEF Sweep
<1>14. CASE Tick
  BY <1>14, RequestBounds DEF Tick, Instants
<1> QED BY <1>1, <1>2, <1>5, <1>6, <1>7, <1>8, <1>9, <1>10, <1>11, <1>12, <1>13, <1>14
        DEF Next, RequestStep

(* Seen from the locks, a step opens a transaction without rows, keeps its rows, writes rows  *)
(* nobody holds, or ends it.                                                                  *)
LEMMA RowsOfAStep ==
    ASSUME TypeInv, RowLocks, [Next]_vars
    PROVE  \/ txn' = txn
           \/ \E r \in Requests :
               /\ \A s \in Requests \ {r} : txn'[s] = txn[s]
               /\ \/ DOMAIN txn'[r].rows = {} /\ txn'[r].phase \notin {"wrote", "walked"}
                  \/ Walk(r)
                  \/ WriteRows(r)
<1> USE DEF TypeInv
<1>1. CASE UNCHANGED vars
  BY <1>1 DEF vars
<1>2. ASSUME NEW r \in Requests, Arrive(r)
      PROVE  /\ \A s \in Requests \ {r} : txn'[s] = txn[s]
             /\ DOMAIN txn'[r].rows = {} /\ txn'[r].phase \notin {"wrote", "walked"}
  BY <1>2 DEF Arrive, IdleTxn
<1>3. ASSUME NEW r \in Requests, NEW answer, Answered(r, answer) \/ Replayed(r)
      PROVE  /\ \A s \in Requests \ {r} : txn'[s] = txn[s]
             /\ DOMAIN txn'[r].rows = {} /\ txn'[r].phase \notin {"wrote", "walked"}
  <2>1. IdleTxn.phase = "idle" /\ DOMAIN IdleTxn.rows = {}
    BY DEF IdleTxn
  <2>2. CASE Answered(r, answer)
    BY <2>1, <2>2, IdleTxnTyped DEF Answered, Txn
  <2>3. CASE Replayed(r)
    BY <2>1, <2>3, IdleTxnTyped DEF Replayed, Txn
  <2> QED BY <1>3, <2>2, <2>3
<1>4. ASSUME NEW r \in Requests, Hold(r) \/ Claim(r) \/ Reclaim(r) \/ Find(r)
      PROVE  /\ \A s \in Requests \ {r} : txn'[s] = txn[s]
             /\ DOMAIN txn'[r].rows = {} /\ txn'[r].phase \notin {"wrote", "walked"}
  <2>1. DOMAIN txn[r].rows = {}
    BY <1>4 DEF Hold, Claim, Reclaim, Find, RowLocks
  <2>2. CASE Hold(r)
    BY <1>3, <2>1, <2>2 DEF Hold, Txn
  <2>3. CASE Claim(r)
    BY <2>1, <2>3 DEF Claim, Txn
  <2>4. CASE Reclaim(r)
    BY <2>1, <2>4 DEF Reclaim, Txn
  <2>5. CASE Find(r)
    BY <1>3, <2>5 DEF Find
  <2> QED BY <1>4, <2>2, <2>3, <2>4, <2>5
<1>5. ASSUME NEW r \in Requests, WriteRows(r) PROVE \A s \in Requests \ {r} : txn'[s] = txn[s]
  BY <1>5 DEF WriteRows
<1>6. ASSUME NEW r \in Requests, Walk(r) PROVE \A s \in Requests \ {r} : txn'[s] = txn[s]
  BY <1>6 DEF Walk
<1>7. ASSUME NEW r \in Requests, Commit(r) \/ Rollback(r)
      PROVE  /\ \A s \in Requests \ {r} : txn'[s] = txn[s]
             /\ DOMAIN txn'[r].rows = {} /\ txn'[r].phase \notin {"wrote", "walked"}
  BY <1>3, <1>7 DEF Commit, Rollback
<1>8. CASE Sweep \/ Tick
  BY <1>8 DEF Sweep, Tick
<1> QED BY <1>1, <1>2, <1>4, <1>5, <1>6, <1>7, <1>8 DEF Next, RequestStep

LEMMA WalkedTxn ==
    ASSUME TypeInv, NEW r \in Requests, Walk(r)
    PROVE  /\ txn[r].phase = "wrote" /\ txn'[r].phase = "walked" /\ txn'[r].rows = txn[r].rows
           /\ txn'[r].misses = ChargedMisses(Seen(r), now) /\ txn'[r].walkedAt = now
<1> DEFINE misses == ChargedMisses(Seen(r), now)
<1> HIDE DEF misses
<1>1. txn' = [txn EXCEPT ![r].phase = "walked", ![r].walkedAt = now, ![r].misses = misses]
  BY DEF Walk, misses
<1>2. txn'[r].misses = misses /\ txn'[r].walkedAt = now /\ txn'[r].phase = "walked"
  BY <1>1 DEF TypeInv, Txn
<1>3. txn'[r].rows = txn[r].rows
  BY <1>1 DEF TypeInv, Txn
<1> QED BY <1>2, <1>3 DEF Walk, misses

LEMMA WrittenTxn ==
    ASSUME TypeInv, NEW r \in Requests, WriteRows(r)
    PROVE  /\ txn'[r].phase = "wrote" /\ ~Locked(r, DOMAIN txn'[r].rows)
           /\ \A s \in Requests \ {r} : txn'[s] = txn[s]
           /\ \A b \in DOMAIN txn'[r].rows :
                  IsConfirmed(log[b]) => txn'[r].rows[b].confirmed = log[b].confirmed
<1>1. PICK rows \in WrittenRows :
          /\ txn' = [txn EXCEPT ![r].phase = "wrote", ![r].rows = rows]
          /\ ~Locked(r, DOMAIN rows)
          /\ \A b \in DOMAIN rows : IsConfirmed(log[b]) => rows[b].confirmed = log[b].confirmed
  BY WrittenTyped
<1>2. txn'[r].phase = "wrote" /\ txn'[r].rows = rows /\ \A s \in Requests \ {r} : txn'[s] = txn[s]
  BY <1>1 DEF TypeInv, Txn
<1> QED BY <1>1, <1>2

LEMMA RowLocksStep ==
    ASSUME TypeInv, RowLocks, [Next]_vars
    PROVE  RowLocks'
<1>1. CASE txn' = txn
  BY <1>1 DEF RowLocks
<1>2. ASSUME NEW r \in Requests, \A s \in Requests \ {r} : txn'[s] = txn[s],
             \/ DOMAIN txn'[r].rows = {} /\ txn'[r].phase \notin {"wrote", "walked"}
             \/ Walk(r)
      PROVE  RowLocks'
  BY <1>2, WalkedTxn DEF RowLocks
<1>3. ASSUME NEW r \in Requests, WriteRows(r) PROVE RowLocks'
  BY <1>3, WrittenTxn DEF RowLocks, Locked
<1> QED BY RowsOfAStep, <1>1, <1>2, <1>3 DEF RowLocks

LEMMA HabitLockStep ==
    ASSUME TypeInv, RowLocks, HabitLock, [Next]_vars
    PROVE  HabitLock'
<1>1. CASE txn' = txn
  BY <1>1 DEF HabitLock
<1>2. ASSUME NEW r \in Requests, \A s \in Requests \ {r} : txn'[s] = txn[s], txn'[r].phase # "walked"
      PROVE  HabitLock'
  BY <1>2 DEF HabitLock
<1>3. ASSUME NEW r \in Requests, \A s \in Requests \ {r} : txn'[s] = txn[s], Walk(r)
      PROVE  HabitLock'
  BY <1>3 DEF HabitLock, Walk, HabitTaken
<1>4. ASSUME NEW r \in Requests, WriteRows(r) PROVE txn'[r].phase # "walked"
  BY <1>4, WrittenTxn
<1> QED BY RowsOfAStep, <1>1, <1>2, <1>3, <1>4

(* The log and the charge change together, when a transaction that has walked commits. *)
LEMMA LogOfAStep ==
    ASSUME TypeInv, [Next]_vars
    PROVE  \/ UNCHANGED <<log, charge>>
           \/ \E r \in Requests : Commit(r)
BY DEF Next, RequestStep, vars, Arrive, Hold, Claim, Reclaim, Find, WriteRows, Walk, Rollback,
       Sweep, Tick

LEMMA CommittedTxn ==
    ASSUME TypeInv, NEW r \in Requests, Commit(r)
    PROVE  /\ \A s \in Requests \ {r} : txn'[s] = txn[s]
           /\ txn'[r] = [IdleTxn EXCEPT !.answer = "applied"]
           /\ txn'[r].phase = "idle" /\ DOMAIN txn'[r].rows = {}
<1>1. IdleTxn.phase = "idle" /\ DOMAIN IdleTxn.rows = {}
  BY DEF IdleTxn
<1> QED BY <1>1, IdleTxnTyped DEF Commit, Answered, TypeInv, Txn

LEMMA SettledStep ==
    ASSUME TypeInv, RowLocks, SettledInv, [Next]_vars
    PROVE  SettledInv'
<1>1. CASE \E r \in Requests : Commit(r)
  <2>1. PICK r \in Requests : Commit(r)
    BY <1>1
  <2>2. \A s \in Requests \ {r} : txn'[s] = txn[s] /\ \A b \in DOMAIN txn[s].rows : log'[b] = log[b]
    BY <2>1, CommittedTxn, SeenTyped DEF RowLocks, Commit, Seen
  <2> QED BY <2>1, <2>2, CommittedTxn DEF SettledInv
<1>2. CASE UNCHANGED log
  <2>1. CASE txn' = txn
    BY <1>2, <2>1 DEF SettledInv
  <2>2. ASSUME NEW r \in Requests, \A s \in Requests \ {r} : txn'[s] = txn[s],
               \A b \in DOMAIN txn'[r].rows :
                   IsConfirmed(log[b]) => txn'[r].rows[b].confirmed = log[b].confirmed
        PROVE  SettledInv'
    BY <1>2, <2>2 DEF SettledInv
  <2>3. ASSUME NEW r \in Requests, DOMAIN txn'[r].rows = {} \/ Walk(r) \/ WriteRows(r)
        PROVE  \A b \in DOMAIN txn'[r].rows :
                   IsConfirmed(log[b]) => txn'[r].rows[b].confirmed = log[b].confirmed
    <3>1. CASE Walk(r)
      BY <3>1, WalkedTxn DEF SettledInv
    <3>2. CASE WriteRows(r)
      BY <3>2, WrittenTxn
    <3> QED BY <2>3, <3>1, <3>2
  <2> QED BY <2>1, <2>2, <2>3, RowsOfAStep
<1> QED BY <1>1, <1>2, LogOfAStep

LEMMA WalkStep ==
    ASSUME TypeInv, RowLocks, HabitLock, WalkInv, [Next]_vars
    PROVE  WalkInv'
<1>1. CASE \E r \in Requests : Commit(r)
  <2>1. PICK r \in Requests : Commit(r)
    BY <1>1
  <2>2. charge' = [misses |-> txn[r].misses, walkedAt |-> txn[r].walkedAt] /\ log' = Seen(r)
    BY <2>1 DEF Commit
  <2>3. txn[r].misses = ChargedMisses(Seen(r), txn[r].walkedAt)
    BY <2>1 DEF Commit, WalkInv
  <2>4. ChargeIsAWalkOfTheLog'
    BY <2>2, <2>3 DEF ChargeIsAWalkOfTheLog
  <2>5. \A s \in Requests : txn'[s].phase # "walked"
    BY <2>1, CommittedTxn DEF HabitLock, Commit
  <2> QED BY <2>4, <2>5 DEF WalkInv
<1>2. CASE UNCHANGED <<log, charge>>
  <2>1. ChargeIsAWalkOfTheLog'
    BY <1>2 DEF WalkInv, ChargeIsAWalkOfTheLog
  <2>2. ASSUME NEW s \in Requests, txn'[s].rows = txn[s].rows PROVE Seen(s)' = Seen(s)
    BY <1>2, <2>2 DEF Seen
  <2>3. ASSUME NEW s \in Requests, txn'[s] = txn[s], txn'[s].phase = "walked"
        PROVE  txn'[s].misses = ChargedMisses(Seen(s)', txn'[s].walkedAt)
    <3>1. Seen(s)' = Seen(s)
      BY <2>2, <2>3
    <3> QED BY <3>1, <2>3 DEF WalkInv
  <2>4. ASSUME NEW r \in Requests, Walk(r)
        PROVE  txn'[r].misses = ChargedMisses(Seen(r)', txn'[r].walkedAt)
    <3>1. Seen(r)' = Seen(r)
      BY <2>2, <2>4, WalkedTxn
    <3> QED BY <3>1, <2>4, WalkedTxn
  <2>5. ASSUME NEW r \in Requests, WriteRows(r) PROVE txn'[r].phase # "walked"
    BY <2>5, WrittenTxn
  <2>6. ASSUME NEW s \in Requests, txn'[s].phase = "walked"
        PROVE  txn'[s].misses = ChargedMisses(Seen(s)', txn'[s].walkedAt)
    BY <2>3, <2>4, <2>5, <2>6, RowsOfAStep
  <2> QED BY <2>1, <2>6 DEF WalkInv
<1> QED BY <1>1, <1>2, LogOfAStep

(* Seen from the key, a transaction ends, opens, takes a free key at the present instant, or *)
(* goes on with the key and the instant it has; it comes to own the key where none is stored *)
(* or what is stored has expired.                                                             *)
Ended(r) == txn'[r].phase = "idle" /\ txn'[r].at = 0
Opened(r) ==
    /\ txn'[r].at = 0
    /\ \/ txn'[r].phase = "arrived" /\ txn'[r].key # NULL
       \/ txn'[r].phase = "owning" /\ txn'[r].key = NULL
Took(r) ==
    /\ txn[r].phase = "arrived" /\ txn'[r].phase = "held"
    /\ txn'[r].key = txn[r].key /\ txn'[r].at = now
    /\ ~KeyTaken(r)
WentOn(r) ==
    /\ txn'[r].key = txn[r].key /\ txn'[r].at = txn[r].at
    /\ txn[r].phase \in {"held", "conflicted", "owning", "wrote"}
    /\ txn'[r].phase \in {"conflicted", "lost", "owning", "wrote", "walked"}
    /\ txn'[r].phase \in {"conflicted", "lost"} => txn[r].key # NULL
    /\ \/ txn[r].phase \in {"owning", "wrote"}
       \/ txn'[r].phase \in {"conflicted", "lost"}
       \/ keys[txn[r].key] = NULL
       \/ IsExpired(keys[txn[r].key], txn[r].at)

LEMMA KeyOfAStep ==
    ASSUME TypeInv, KeyLocks, [Next]_vars
    PROVE  \/ txn' = txn
           \/ \E r \in Requests :
               /\ \A s \in Requests \ {r} : txn'[s] = txn[s]
               /\ Ended(r) \/ Opened(r) \/ Took(r) \/ WentOn(r)
<1> USE DEF TypeInv
<1>1. CASE UNCHANGED vars \/ Sweep \/ Tick
  BY <1>1 DEF vars, Sweep, Tick
<1>2. IdleTxn.phase = "idle" /\ IdleTxn.at = 0
  BY DEF IdleTxn
<1>3. ASSUME NEW r \in Requests, NEW answer, Answered(r, answer) \/ Replayed(r)
      PROVE  Ended(r) /\ \A s \in Requests \ {r} : txn'[s] = txn[s]
  <2>1. CASE Answered(r, answer)
    BY <1>2, <2>1, IdleTxnTyped DEF Answered, Txn, Ended
  <2>2. CASE Replayed(r)
    BY <1>2, <2>2, IdleTxnTyped DEF Replayed, Txn, Ended
  <2> QED BY <1>3, <2>1, <2>2
<1>4. ASSUME NEW r \in Requests, Arrive(r)
      PROVE  Opened(r) /\ \A s \in Requests \ {r} : txn'[s] = txn[s]
  <2>1. PICK k \in Keys \cup {NULL}, op \in Ops :
            txn' = [txn EXCEPT ![r] = [IdleTxn EXCEPT !.phase = IF k = NULL THEN "owning" ELSE "arrived",
                                                      !.key = k, !.op = op]]
    BY <1>4 DEF Arrive
  <2>2. txn'[r].phase = (IF k = NULL THEN "owning" ELSE "arrived") /\ txn'[r].key = k /\ txn'[r].at = 0
    BY <1>2, <2>1, IdleTxnTyped DEF Txn
  <2> QED BY <2>1, <2>2 DEF Opened
<1>5. ASSUME NEW r \in Requests, Hold(r)
      PROVE  (Ended(r) \/ Took(r)) /\ \A s \in Requests \ {r} : txn'[s] = txn[s]
  <2>1. CASE Answered(r, "later")
    BY <1>3, <2>1
  <2>2. CASE ~KeyTaken(r) /\ txn' = [txn EXCEPT ![r].phase = "held", ![r].at = now]
    BY <1>5, <2>2 DEF Hold, Took, Txn
  <2> QED BY <1>5, <2>1, <2>2 DEF Hold
<1>6. ASSUME NEW r \in Requests, Claim(r) \/ Reclaim(r)
      PROVE  WentOn(r) /\ \A s \in Requests \ {r} : txn'[s] = txn[s]
  <2>1. CASE Claim(r)
    BY <2>1 DEF Claim, WentOn, Txn, KeyLocks
  <2>2. CASE Reclaim(r)
    BY <2>2 DEF Reclaim, WentOn, Txn, KeyLocks
  <2> QED BY <1>6, <2>1, <2>2
<1>7. ASSUME NEW r \in Requests, Find(r) \/ Commit(r) \/ Rollback(r)
      PROVE  Ended(r) /\ \A s \in Requests \ {r} : txn'[s] = txn[s]
  BY <1>3, <1>7 DEF Find, Commit, Rollback
<1>8. ASSUME NEW r \in Requests, WriteRows(r)
      PROVE  WentOn(r) /\ \A s \in Requests \ {r} : txn'[s] = txn[s]
  <2>1. PICK rows \in WrittenRows : txn' = [txn EXCEPT ![r].phase = "wrote", ![r].rows = rows]
    BY <1>8, WrittenTyped
  <2>2. /\ txn'[r].phase = "wrote" /\ txn'[r].key = txn[r].key /\ txn'[r].at = txn[r].at
        /\ \A s \in Requests \ {r} : txn'[s] = txn[s]
    BY <2>1 DEF Txn
  <2> QED BY <1>8, <2>2 DEF WriteRows, WentOn
<1>9. ASSUME NEW r \in Requests, Walk(r)
      PROVE  WentOn(r) /\ \A s \in Requests \ {r} : txn'[s] = txn[s]
  <2>1. txn'[r].key = txn[r].key /\ txn'[r].at = txn[r].at
    <3> DEFINE misses == ChargedMisses(Seen(r), now)
    <3> HIDE DEF misses
    <3>1. txn' = [txn EXCEPT ![r].phase = "walked", ![r].walkedAt = now, ![r].misses = misses]
      BY <1>9 DEF Walk, misses
    <3> QED BY <3>1 DEF Txn
  <2> QED BY <1>9, <2>1, WalkedTxn DEF Walk, WentOn
<1> QED BY <1>1, <1>4, <1>5, <1>6, <1>7, <1>8, <1>9 DEF Next, RequestStep

LEMMA KeyLocksStep ==
    ASSUME TypeInv, KeyLocks, [Next]_vars
    PROVE  KeyLocks'
<1>1. CASE txn' = txn
  BY <1>1 DEF KeyLocks, HasKey
<1>2. ASSUME NEW r \in Requests, \A s \in Requests \ {r} : txn'[s] = txn[s],
             Ended(r) \/ Opened(r) \/ Took(r) \/ WentOn(r)
      PROVE  KeyLocks'
  <2>1. CASE Ended(r)
    BY <1>2, <2>1 DEF KeyLocks, HasKey, Ended
  <2>2. CASE Opened(r)
    BY <1>2, <2>2 DEF KeyLocks, HasKey, Opened
  <2>3. CASE Took(r)
    BY <1>2, <2>3 DEF KeyLocks, HasKey, Took, KeyTaken
  <2>4. CASE WentOn(r)
    BY <1>2, <2>4 DEF KeyLocks, HasKey, WentOn
  <2> QED BY <1>2, <2>1, <2>2, <2>3, <2>4
<1> QED BY <1>1, <1>2, KeyOfAStep

LEMMA WindowStep ==
    ASSUME TypeInv, KeyLocks, WindowInv, [Next]_vars
    PROVE  WindowInv'
<1> USE RequestBounds DEF TypeInv, Instants, Past
<1>0. /\ \A k \in Keys : \A e \in ran[k] : e \in Execution /\ e.at \in Nat
      /\ \A k \in Keys : keys[k] # NULL => keys[k] \in Execution /\ keys[k].at \in Nat
      /\ \A r \in Requests : txn[r].at \in Nat /\ txn[r].key \in Keys \cup {NULL}
      /\ now \in Nat
  BY DEF Execution, Txn
<1>1. ASSUME NEW r \in Requests, Commit(r) PROVE WindowInv'
  <2> DEFINE new == [op |-> txn[r].op, at |-> txn[r].at]
  <2>1. /\ \A k \in Keys : keys'[k] = IF k = txn[r].key THEN new ELSE keys[k]
        /\ \A k \in Keys : ran'[k] = IF k = txn[r].key THEN ran[k] \cup {new} ELSE ran[k]
        /\ now' = now
    BY <1>1 DEF Commit, Completed
  <2>2. /\ new.at = txn[r].at /\ new # NULL
        /\ txn[r].key \in Keys => \A e \in ran[txn[r].key] : Past(e)
    <3>1. new \in Execution
      BY DEF Txn, Execution
    <3> QED BY <1>0, <1>1, <3>1, NoKeyIsNoRow DEF Commit, WindowInv, Owning
  <2>3. \A s \in Requests \ {r} : txn'[s] = txn[s] /\ (Owning(s) => txn[s].key # txn[r].key)
    BY <1>0, <1>1, CommittedTxn DEF Commit, KeyLocks, HasKey, Owning
  <2>4. Ended(r) /\ txn'[r].phase = "idle" /\ txn'[r].at = 0
    <3>1. IdleTxn.at = 0
      BY DEF IdleTxn
    <3> QED BY <1>1, <3>1, CommittedTxn, IdleTxnTyped DEF Ended, Txn
  <2> HIDE DEF new
  <2>5. \A k \in Keys : keys'[k] = NULL => \A e \in ran'[k] : Past(e)
    BY <2>1, <2>2 DEF WindowInv
  <2>6. \A k \in Keys : keys'[k] # NULL =>
            keys'[k] \in ran'[k] /\ \A e \in ran'[k] : e.at <= keys'[k].at \/ Past(e)
    <3> SUFFICES ASSUME NEW k \in Keys, keys'[k] # NULL
                 PROVE  /\ keys'[k] \in ran'[k]
                        /\ \A e \in ran'[k] : e.at <= keys'[k].at \/ Past(e)
      OBVIOUS
    <3>1. CASE k = txn[r].key
      <4>1. keys'[k] = new /\ ran'[k] = ran[k] \cup {new} /\ new.at \in Nat
        BY <1>0, <2>1, <2>2, <3>1
      <4>2. \A e \in ran[k] : Past(e)
        BY <2>2, <3>1
      <4> QED BY <4>1, <4>2
    <3>2. CASE k # txn[r].key
      BY <2>1, <3>2 DEF WindowInv
    <3> QED BY <3>1, <3>2
  <2>7. \A s \in Requests : txn'[s].at <= now
    BY <1>0, <2>3, <2>4 DEF WindowInv
  <2>8. \A s \in Requests : Owning(s)' => s # r /\ Owning(s) /\ txn'[s] = txn[s]
    BY <2>3, <2>4 DEF Owning
  <2>9. \A s \in Requests : Owning(s)' => \A e \in ran'[txn'[s].key] : Past(e)
    <3> SUFFICES ASSUME NEW s \in Requests, Owning(s)'
                 PROVE  \A e \in ran'[txn'[s].key] : Past(e)
      OBVIOUS
    <3>1. s # r /\ Owning(s) /\ txn'[s] = txn[s] /\ txn[s].key # txn[r].key
      BY <2>3, <2>8
    <3>2. txn[s].key \in Keys
      BY <1>0, <3>1 DEF Owning
    <3>3. ran'[txn'[s].key] = ran[txn[s].key]
      BY <2>1, <3>1, <3>2
    <3> QED BY <3>1, <3>3 DEF WindowInv
  <2> QED BY <2>1, <2>5, <2>6, <2>7, <2>9 DEF WindowInv
<1>2. CASE Sweep
  <2>1. PICK k \in Keys :
            /\ IsExpired(keys[k], now)
            /\ keys' = [keys EXCEPT ![k] = NULL]
    BY <1>2 DEF Sweep
  <2>2. \A e \in ran[k] : Past(e)
    BY <1>0, <2>1 DEF IsExpired, WindowInv
  <2> QED BY <1>0, <1>2, <2>1, <2>2 DEF Sweep, WindowInv, Owning
<1>3. CASE Tick
  <2>1. \A k \in Keys : \A e \in ran[k] : Past(e) => Past(e)'
    BY <1>0, <1>3 DEF Tick
  <2> QED BY <1>0, <1>3, <2>1 DEF Tick, WindowInv, Owning
<1>4. CASE UNCHANGED <<now, keys, ran>> /\ txn' = txn
  BY <1>4 DEF WindowInv, Owning
<1>5. ASSUME UNCHANGED <<now, keys, ran>>, NEW r \in Requests,
             \A s \in Requests \ {r} : txn'[s] = txn[s],
             Ended(r) \/ Opened(r) \/ Took(r) \/ WentOn(r)
      PROVE  WindowInv'
  <2>1. txn'[r].at <= now
    BY <1>0, <1>5 DEF WindowInv, Ended, Opened, Took, WentOn
  <2>2. Owning(r)' => \A e \in ran[txn'[r].key] : Past(e)
    <3>1. CASE WentOn(r) /\ Owning(r)
      BY <3>1 DEF WindowInv, WentOn
    <3>2. CASE WentOn(r) /\ txn[r].key # NULL /\ keys[txn[r].key] = NULL
      BY <1>0, <3>2 DEF WindowInv, WentOn
    <3>3. CASE WentOn(r) /\ txn[r].key # NULL /\ IsExpired(keys[txn[r].key], txn[r].at)
      BY <1>0, <3>3 DEF WindowInv, WentOn, IsExpired
    <3> QED BY <1>5, <3>1, <3>2, <3>3 DEF Owning, Ended, Opened, Took, WentOn
  <2> QED BY <1>5, <2>1, <2>2 DEF WindowInv, Owning
<1>6. \/ UNCHANGED <<now, keys, ran>>
      \/ Sweep \/ Tick \/ \E r \in Requests : Commit(r)
  BY DEF Next, RequestStep, vars, Arrive, Hold, Claim, Reclaim, Find, WriteRows, Walk, Rollback
<1> QED BY <1>1, <1>2, <1>3, <1>4, <1>5, <1>6, KeyOfAStep

LEMMA RequestStepInv == RequestInv /\ [Next]_vars => RequestInv'
BY TypeStep, RowLocksStep, HabitLockStep, KeyLocksStep, WalkStep, SettledStep, WindowStep
   DEF RequestInv

LEMMA RequestInvHolds == Spec => []RequestInv
BY InitRequestInv, RequestStepInv, PTL DEF Spec

-----------------------------------------------------------------------------

(* The stored charge is always a walk of the whole committed log: a writer walks only when it *)
(* holds the habit's lock, and then no other has a walk it has yet to store                   *)
(* (habits/charged.py, refresh()).                                                            *)
THEOREM OutcomesChargeIsAWalkOfTheLog == Spec => []ChargeIsAWalkOfTheLog
<1>1. RequestInv => ChargeIsAWalkOfTheLog
  BY DEF RequestInv, WalkInv
<1> QED BY <1>1, RequestInvHolds, PTL

(* No step moves the instant a block was first settled at: a writer keeps the one it read, and *)
(* under its row lock nobody settles the block meanwhile (plans/reality.py, settle()).         *)
THEOREM OutcomesFirstConfirmationStands == Spec => FirstConfirmationStands
<1>1. ASSUME RequestInv, [Next]_vars
      PROVE  \A b \in Blocks : IsConfirmed(log[b]) => log'[b].confirmed = log[b].confirmed
  <2>1. CASE \E r \in Requests : Commit(r)
    BY <1>1, <2>1 DEF RequestInv, SettledInv, Commit, Seen
  <2>2. CASE UNCHANGED log
    BY <2>2
  <2> QED BY <1>1, <2>1, <2>2, LogOfAStep DEF RequestInv
<1> QED BY <1>1, RequestInvHolds, PTL DEF Spec, FirstConfirmationStands

(* A transaction commits under a key only when the window of every execution committed under   *)
(* it has passed (idempotency/guard.py, once()).                                               *)
THEOREM OutcomesAtMostOncePerWindow == Spec => AtMostOncePerWindow
<1>1. ASSUME RequestInv, [Next]_vars
      PROVE  \A r \in Requests :
                 txn[r].phase = "walked" /\ txn'[r].answer = "applied" /\ txn[r].key # NULL
                     => \A e \in ran[txn[r].key] : e.at + Retention <= now
  BY <1>1 DEF RequestInv, WindowInv, Owning, Past
<1> QED BY <1>1, RequestInvHolds, PTL DEF Spec, AtMostOncePerWindow

-----------------------------------------------------------------------------

(* The key a replay answered under is a key, and its answer that of a committed execution. *)
ReplayInv ==
    \A r \in Requests :
        txn[r].answer = "replayed" =>
            txn[r].key \in Keys /\ \E e \in ran[txn[r].key] : e.op = txn[r].op

(* Seen from the answer, a step keeps it with the key and the request it answers, or gives    *)
(* one that replays nothing, or replays.                                                      *)
KeptAnswer(r) ==
    txn'[r].answer = txn[r].answer /\ txn'[r].key = txn[r].key /\ txn'[r].op = txn[r].op
FoundAnswer(r) ==
    /\ txn[r].phase = "lost" /\ keys[txn[r].key] # NULL /\ AnswersFor(keys[txn[r].key], txn[r].op)
    /\ txn'[r].key = txn[r].key /\ txn'[r].op = txn[r].op

LEMMA AnswerOfAStep ==
    ASSUME TypeInv, [Next]_vars, NEW r \in Requests
    PROVE  KeptAnswer(r) \/ txn'[r].answer # "replayed" \/ FoundAnswer(r)
<1> USE DEF TypeInv
<1>1. CASE UNCHANGED vars \/ Sweep \/ Tick
  BY <1>1 DEF vars, Sweep, Tick, KeptAnswer
<1>2. IdleTxn.answer = "none"
  BY DEF IdleTxn
<1>3. ASSUME NEW s \in Requests, NEW answer, answer # "replayed", Answered(s, answer)
      PROVE  KeptAnswer(r) \/ txn'[r].answer # "replayed"
  BY <1>3, IdleTxnTyped DEF Answered, Txn, KeptAnswer
<1>4. ASSUME NEW s \in Requests, Arrive(s) PROVE KeptAnswer(r) \/ txn'[r].answer # "replayed"
  <2>1. PICK k \in Keys \cup {NULL}, op \in Ops :
            txn' = [txn EXCEPT ![s] = [IdleTxn EXCEPT !.phase = IF k = NULL THEN "owning" ELSE "arrived",
                                                      !.key = k, !.op = op]]
    BY <1>4 DEF Arrive
  <2>2. txn'[s].answer = "none" /\ (r # s => txn'[r] = txn[r])
    BY <1>2, <2>1, IdleTxnTyped DEF Txn
  <2> QED BY <2>2 DEF KeptAnswer
<1>5. ASSUME NEW s \in Requests, Hold(s) PROVE KeptAnswer(r) \/ txn'[r].answer # "replayed"
  <2>1. CASE Answered(s, "later")
    BY <1>3, <2>1
  <2>2. CASE txn' = [txn EXCEPT ![s].phase = "held", ![s].at = now]
    BY <2>2 DEF Txn, KeptAnswer
  <2> QED BY <1>5, <2>1, <2>2 DEF Hold
<1>6. ASSUME NEW s \in Requests, Claim(s) \/ Reclaim(s) PROVE KeptAnswer(r)
  <2>1. CASE Claim(s)
    BY <2>1 DEF Claim, Txn, KeptAnswer
  <2>2. CASE Reclaim(s)
    BY <2>2 DEF Reclaim, Txn, KeptAnswer
  <2> QED BY <1>6, <2>1, <2>2
<1>7. ASSUME NEW s \in Requests, Find(s)
      PROVE  KeptAnswer(r) \/ txn'[r].answer # "replayed" \/ FoundAnswer(r)
  <2>1. CASE Answered(s, "later") \/ Answered(s, "reused")
    BY <1>3, <2>1
  <2>2. CASE keys[txn[s].key] # NULL /\ AnswersFor(keys[txn[s].key], txn[s].op) /\ Replayed(s)
    <3>1. CASE r = s
      <4>1. txn'[r].key = txn[r].key /\ txn'[r].op = txn[r].op
        BY <2>2, <3>1, IdleTxnTyped DEF Replayed, Txn
      <4> QED BY <1>7, <2>2, <3>1, <4>1 DEF Find, FoundAnswer
    <3>2. CASE r # s
      BY <2>2, <3>2 DEF Replayed, KeptAnswer
    <3> QED BY <3>1, <3>2
  <2> QED BY <1>7, <2>1, <2>2 DEF Find
<1>8. ASSUME NEW s \in Requests, WriteRows(s) PROVE KeptAnswer(r)
  <2>1. PICK rows \in WrittenRows : txn' = [txn EXCEPT ![s].phase = "wrote", ![s].rows = rows]
    BY <1>8, WrittenTyped
  <2> QED BY <2>1 DEF Txn, KeptAnswer
<1>9. ASSUME NEW s \in Requests, Walk(s) PROVE KeptAnswer(r)
  <2> DEFINE misses == ChargedMisses(Seen(s), now)
  <2> HIDE DEF misses
  <2>1. txn' = [txn EXCEPT ![s].phase = "walked", ![s].walkedAt = now, ![s].misses = misses]
    BY <1>9 DEF Walk, misses
  <2> QED BY <2>1 DEF Txn, KeptAnswer
<1>10. ASSUME NEW s \in Requests, Commit(s) \/ Rollback(s)
       PROVE  KeptAnswer(r) \/ txn'[r].answer # "replayed"
  BY <1>3, <1>10 DEF Commit, Rollback
<1> QED BY <1>1, <1>4, <1>5, <1>6, <1>7, <1>8, <1>9, <1>10 DEF Next, RequestStep

(* What ran under a key is never forgotten. *)
LEMMA RanOnlyGrows ==
    ASSUME TypeInv, [Next]_vars, NEW k \in Keys
    PROVE  ran[k] \subseteq ran'[k]
BY ZenonT(30)
   DEF TypeInv, Next, RequestStep, vars, Arrive, Hold, Claim, Reclaim, Find, WriteRows, Walk, Commit,
       Rollback, Sweep, Tick

LEMMA ReplayStep == RequestInv /\ ReplayInv /\ [Next]_vars => ReplayInv'
<1> SUFFICES ASSUME RequestInv, ReplayInv, [Next]_vars,
                    NEW r \in Requests, txn'[r].answer = "replayed"
             PROVE  txn'[r].key \in Keys /\ \E e \in ran'[txn'[r].key] : e.op = txn'[r].op
  BY DEF ReplayInv
<1>1. CASE KeptAnswer(r)
  BY <1>1, RanOnlyGrows DEF ReplayInv, KeptAnswer, RequestInv
<1>2. CASE FoundAnswer(r)
  <2>1. txn[r].key \in Keys
    BY <1>2 DEF FoundAnswer, RequestInv, KeyLocks, TypeInv, Txn
  <2>2. keys[txn[r].key] \in ran[txn[r].key] /\ keys[txn[r].key].op = txn[r].op
    BY <1>2, <2>1 DEF FoundAnswer, AnswersFor, RequestInv, WindowInv
  <2> QED BY <1>2, <2>1, <2>2, RanOnlyGrows DEF FoundAnswer, RequestInv
<1> QED BY <1>1, <1>2, AnswerOfAStep DEF RequestInv

(* What a retry is answered with is the response of an execution of this very request that     *)
(* committed under its key (idempotency/guard.py, _replay()).                                  *)
THEOREM OutcomesReplayAnswersWhatRan == Spec => []ReplayAnswersWhatRan
<1>1. Init => ReplayInv
  BY DEF Init, IdleTxn, ReplayInv
<1>2. ReplayInv => ReplayAnswersWhatRan
  BY DEF ReplayInv, ReplayAnswersWhatRan
<1> QED BY <1>1, <1>2, ReplayStep, RequestInvHolds, PTL DEF Spec

-----------------------------------------------------------------------------

(* Every column holds what its type says at every step, the stored charge a natural number     *)
(* because the walk never takes a credit from a charge of nothing (syncr_domain/debt.py).      *)
THEOREM OutcomesTypeOK == Spec => []TypeOK
<1>1. TypeInv => TypeOK
  <2> SUFFICES ASSUME TypeInv PROVE TypeOK
    OBVIOUS
  <2>1. \A r \in Requests : txn[r] \in Txn
    BY DEF TypeInv
  <2>2. \A r \in Requests :
            /\ txn[r].phase \in Phases /\ txn[r].key \in Keys \cup {NULL} /\ txn[r].op \in Ops
            /\ txn[r].at \in Instants /\ txn[r].rows \in WrittenRows /\ txn[r].misses \in Nat
            /\ txn[r].walkedAt \in Instants /\ txn[r].answer \in Answers
    BY <2>1 DEF Txn
  <2> QED BY <2>2 DEF TypeInv, TypeOK, WrittenRows
<1> QED BY <1>1, RequestInvHolds, PTL DEF RequestInv

(* Whatever has been recorded, corrected and confirmed, the walk of the committed log leaves   *)
(* the most misses that any later part of it leaves uncredited (charged_misses()).             *)
THEOREM OutcomesWalkIsTheLargestUncredited == Spec => []WalkIsTheLargestUncredited
<1>1. WalkIsTheLargestUncredited
  BY TheWalkIsTheLargestUncredited DEF WalkIsTheLargestUncredited
<1> QED BY <1>1, PTL

=============================================================================
