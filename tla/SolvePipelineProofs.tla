------------------------- MODULE SolvePipelineProofs -------------------------
(* Theorems about SolvePipeline, for every value of its constants. *)
EXTENDS SolvePipeline, TLAPS

-----------------------------------------------------------------------------
(* Lemmas about the helpers. *)

(* A fresh identifier is one of the table's, and is absent from it. *)
LEMMA FreshIdIsFresh ==
    ASSUME FreshIds # {}
    PROVE  FreshId \in OpIds /\ ops[FreshId].status = "absent"
  BY DEF FreshIds, FreshId

(* What in_flight() answers is a row of the table, or nothing. *)
LEMMA TheInFlightIsARow == TheInFlight \in OpIds \cup {NULL}
  BY DEF TheInFlight, InFlight

(* A new pending row is a row. *)
LEMMA PendingRowType ==
    ASSUME NEW due \in BOOLEAN, NEW candidate \in Candidates \cup {NULL}, NEW session \in BOOLEAN
    PROVE  PendingRow(due, candidate, session) \in Row
  BY DEF PendingRow, AbsentRow, Row, Statuses, NonTerminal, Terminal

(* A failure leaves a row, pending again or failed. *)
LEMMA FailedRowType ==
    ASSUME NEW row \in Row
    PROVE  /\ FailedRow(row) \in Row
           /\ FailedRow(row).status \in {"pending", "failed"}
           /\ FailedRow(row).candidate = row.candidate
           /\ FailedRow(row).supersededBy = row.supersededBy
<1>1. row.attempt \in Nat /\ row.attempt + 1 \in Nat
  BY DEF Row
<1>2. CASE row.attempt < MaxAttempts
  <2> DEFINE new == [row EXCEPT !.status = "pending", !.due = FALSE, !.lapsed = FALSE,
                                !.attempt = row.attempt + 1]
  <2>1. /\ new \in Row /\ new.status = "pending"
        /\ new.candidate = row.candidate /\ new.supersededBy = row.supersededBy
    BY <1>1 DEF Row, Statuses, NonTerminal, Terminal
  <2>2. FailedRow(row) = new
    BY <1>2 DEF FailedRow
  <2> QED BY <2>1, <2>2
<1>3. CASE ~(row.attempt < MaxAttempts)
  <2> DEFINE new == [row EXCEPT !.status = "failed", !.lapsed = FALSE]
  <2>1. /\ new \in Row /\ new.status = "failed"
        /\ new.candidate = row.candidate /\ new.supersededBy = row.supersededBy
    BY DEF Row, Statuses, NonTerminal, Terminal
  <2>2. FailedRow(row) = new
    BY <1>3 DEF FailedRow
  <2> QED BY <2>1, <2>2
<1> QED BY <1>2, <1>3

(* A row that succeeded is a row. *)
LEMMA SucceededRowType ==
    ASSUME NEW row \in Row, NEW said \in BOOLEAN
    PROVE  [row EXCEPT !.status = "succeeded", !.lapsed = FALSE, !.recorded = said] \in Row
<1>1. said \in BOOLEAN \cup {NULL}
  OBVIOUS
<1>2. \A any \in BOOLEAN \cup {NULL} :
        [row EXCEPT !.status = "succeeded", !.lapsed = FALSE, !.recorded = any] \in Row
  BY DEF Row, Statuses, NonTerminal, Terminal
<1> QED BY <1>1, <1>2

(* Closing one row for another leaves a table. *)
LEMMA SupersedingType ==
    ASSUME NEW rows \in [OpIds -> Row], NEW old \in OpIds, NEW new \in OpIds
    PROVE  Superseding(rows, old, new) \in [OpIds -> Row]
  BY DEF Superseding, Row, Statuses, NonTerminal, Terminal

-----------------------------------------------------------------------------
(* Type correctness. *)

JobType == [phase: JobPhases, op: OpIds \cup {NULL}, session: BOOLEAN,
            profile: Nat, version: Nat, rest: Nat, live: Nat, raised: {0, 1}]
ReqType == [phase: ReqPhases, kind: AllKinds, session: BOOLEAN, seen: OpIds \cup {NULL},
            seenStatus: Statuses, failed: SUBSET OpIds]

(* Every job at work has a row of the table; every joined row is one. *)
JobHasARow == \A w \in Workers : job[w].phase \in Running \cup HoldingPhases => job[w].op \in OpIds

LEMMA IdleTypes == IdleJob \in JobType /\ IdleReq \in ReqType
  BY DEF IdleJob, IdleReq, JobType, ReqType, JobPhases, ReqPhases, Running, HoldingPhases,
         AllKinds, Statuses, NonTerminal, Terminal

LEMMA AbsentRowType == AbsentRow \in Row
  BY DEF AbsentRow, Row, Statuses, NonTerminal, Terminal

TypeInv == TypeOK /\ JobHasARow

LEMMA TypeInit == Init => TypeInv
  BY IdleTypes, AbsentRowType, BoundsAssumption
  DEF Init, TypeInv, TypeOK, JobHasARow, IdleJob, Running, HoldingPhases, JobType, ReqType

(* What a request leaves of the types when it opens. *)
LEMMA TypeOpens ==
    ASSUME TypeInv, NEW r \in Requests, RequestOpens(r)
    PROVE  TypeInv'
<1> USE DEF TypeInv
<1>1. PICK kind \in Kinds, session \in Sessions :
            OpenEdit(r, kind, session) \/ OpenUntracked(r, kind, session) \/ OpenAsk(r, kind, session)
  BY DEF RequestOpens
<1>2. kind \in AllKinds /\ session \in BOOLEAN
  BY SetsAssumption
<1>3. /\ UNCHANGED <<inputs, version, live, slot, ops, job, owed>>
      /\ spent' \in [opened: Nat, crashes: Nat]
  BY <1>1 DEF OpenEdit, OpenUntracked, OpenAsk, Opening, TypeOK
<1>4. held' \in Requests \cup Workers \cup {NULL}
  BY <1>1 DEF OpenEdit, OpenUntracked, OpenAsk, TypeOK
<1>5. req' \in [Requests -> ReqType]
  <2>1. CASE ReadInFlight(r, kind, session)
    BY <2>1, <1>2, TheInFlightIsARow
    DEF ReadInFlight, ReqType, ReqPhases, TypeOK, FailedIds, InFlight, TheInFlight, Statuses, Row
  <2>2. CASE OpenUntracked(r, kind, session)
    BY <2>2, <1>2, IdleTypes DEF OpenUntracked, ReqType, ReqPhases, TypeOK, FailedIds
  <2> QED BY <1>1, <2>1, <2>2 DEF OpenEdit, OpenAsk
<1> QED BY <1>3, <1>4, <1>5 DEF TypeOK, JobHasARow, ReqType

(* A request that joins a row leaves a row of the same status, candidate and successor. *)
LEMMA JoinedType ==
    ASSUME TypeOK, NEW r \in Requests, NEW row \in Row, NEW immediate \in BOOLEAN
    PROVE  /\ Joined(row, r, immediate) \in Row
           /\ Joined(row, r, immediate).status = row.status
           /\ Joined(row, r, immediate).candidate = row.candidate
           /\ Joined(row, r, immediate).supersededBy = row.supersededBy
<1>1. req[r].session \in BOOLEAN
  BY DEF TypeOK
<1>2. \A mayMove \in BOOLEAN : (row.due \/ (immediate /\ mayMove)) \in BOOLEAN
  BY DEF Row
<1>3. \A s, d \in BOOLEAN :
        LET new == [row EXCEPT !.session = s, !.due = d]
        IN  new \in Row /\ new.status = row.status /\ new.candidate = row.candidate
                        /\ new.supersededBy = row.supersededBy
  BY DEF Row
<1>4. (row.session \/ req[r].session) \in BOOLEAN
  BY <1>1 DEF Row
<1> QED BY <1>2, <1>3, <1>4 DEF Joined

(* The types after a commit, whatever rows it leaves. *)
LEMMA TypeCommitting ==
    ASSUME TypeInv, NEW r \in Requests, Committing(r), ops' \in [OpIds -> Row],
           owed' \in [version: Nat, failed: SUBSET OpIds, by: OpIds \cup {NULL}, attempt: Nat]
    PROVE  TypeInv'
<1> USE DEF TypeInv
<1>1. inputs' \in [profile: Nat, rest: Nat]
  BY DEF Committing, Edited, TypeOK
<1>2. version' \in Nat /\ held' \in Requests \cup Workers \cup {NULL}
  BY DEF Committing, TypeOK
<1>3. req' \in [Requests -> ReqType]
  BY IdleTypes DEF Committing, TypeOK, ReqType
<1> QED BY <1>1, <1>2, <1>3 DEF Committing, TypeOK, JobHasARow, ReqType

LEMMA TypeOwing ==
    ASSUME TypeInv, NEW r \in Requests, NEW by \in OpIds \cup {NULL}, NEW attempt \in Nat,
           Owing(r, by, attempt)
    PROVE  owed' \in [version: Nat, failed: SUBSET OpIds, by: OpIds \cup {NULL}, attempt: Nat]
  BY DEF Owing, TypeInv, TypeOK

(* A table with a new row, and with one row closed for it, is a table. *)
LEMMA TypeInsert ==
    ASSUME TypeOK, FreshIds # {}, NEW row \in Row
    PROVE  [ops EXCEPT ![FreshId] = row] \in [OpIds -> Row]
  BY FreshIdIsFresh DEF TypeOK

LEMMA TypeCommits ==
    ASSUME TypeInv, NEW r \in Requests, RequestCommits(r) \/ Enumerate(r) \/ Abort(r)
    PROVE  TypeInv'
<1> USE DEF TypeInv
<1>0. \A id \in OpIds : ops[id] \in Row /\ ops[id].attempt \in Nat
  BY DEF TypeOK, Row
<1>1. CASE CommitSilent(r)
  BY <1>1, TypeCommitting DEF CommitSilent, TypeOK
<1>2. ASSUME NEW immediate \in BOOLEAN, CommitScheduled(r, immediate) PROVE TypeInv'
  <2>1. ops' \in [OpIds -> Row]
    BY <1>2, TypeInsert, PendingRowType DEF CommitScheduled, Admits, TypeOK
  <2>2. Owing(r, NULL, 0) /\ Committing(r)
    BY <1>2 DEF CommitScheduled
  <2> QED BY <2>1, <2>2, TypeOwing, TypeCommitting
<1>3. ASSUME NEW immediate \in BOOLEAN, CommitJoined(r, immediate) PROVE TypeInv'
  <2>1. req[r].seen \in OpIds
    BY <1>3 DEF CommitJoined, TypeOK
  <2>2. ops' \in [OpIds -> Row]
    BY <1>3, <2>1, <1>0, JoinedType DEF CommitJoined, TypeOK
  <2>3. \/ Owing(r, req[r].seen, ops[req[r].seen].attempt)
        \/ Owing(r, NULL, 0)
    BY <1>3 DEF CommitJoined
  <2>4. owed' \in [version: Nat, failed: SUBSET OpIds, by: OpIds \cup {NULL}, attempt: Nat]
    BY <2>1, <2>3, <1>0, TypeOwing
  <2> QED BY <1>3, <2>2, <2>4, TypeCommitting DEF CommitJoined
<1>4. ASSUME NEW candidate \in Candidates, CommitTradeoff(r, candidate) PROVE TypeInv'
  <2> DEFINE rows == [ops EXCEPT ![FreshId] = PendingRow(TRUE, candidate, req[r].session)]
  <2>1. rows \in [OpIds -> Row]
    BY <1>4, TypeInsert, PendingRowType DEF CommitTradeoff, Admits, TypeOK
  <2>2. Closable(req[r].seen) => Superseding(rows, req[r].seen, FreshId) \in [OpIds -> Row]
    BY <1>4, <2>1, SupersedingType, FreshIdIsFresh DEF CommitTradeoff, Admits, Closable, TypeOK
  <2>3. ops' = IF Closable(req[r].seen) THEN Superseding(rows, req[r].seen, FreshId) ELSE rows
    BY <1>4 DEF CommitTradeoff
  <2>4. ops' \in [OpIds -> Row]
    BY <2>1, <2>2, <2>3
  <2> QED BY <1>4, <2>4, TypeCommitting DEF CommitTradeoff, TypeOK
<1>5. CASE Enumerate(r)
  <2>1. req' \in [Requests -> ReqType]
    BY <1>5, TheInFlightIsARow
    DEF Enumerate, ReadInFlight, ReqType, ReqPhases, TypeOK, FailedIds, InFlight, TheInFlight,
        Statuses, Row
  <2> QED BY <1>5, <2>1 DEF Enumerate, TypeOK, JobHasARow, ReqType
<1>6. CASE Abort(r)
  <2>1. req' \in [Requests -> ReqType] /\ held' \in Requests \cup Workers \cup {NULL}
    BY <1>6, IdleTypes DEF Abort, TypeOK, ReqType
  <2> QED BY <1>6, <2>1 DEF Abort, TypeOK, JobHasARow, ReqType
<1> QED BY <1>1, <1>2, <1>3, <1>4, <1>5, <1>6 DEF RequestCommits

(* The types after a worker's step, from the two variables it may change otherwise. *)
LEMMA TypeWorkerFrame ==
    ASSUME TypeInv, NEW w \in Workers, ops' \in [OpIds -> Row], job' \in [Workers -> JobType],
           JobHasARow', version' \in Nat, live' \in Nat, slot' \in OpIds \cup {NULL},
           held' \in Requests \cup Workers \cup {NULL}, spent' \in [opened: Nat, crashes: Nat],
           UNCHANGED <<inputs, req, owed>>
    PROVE  TypeInv'
  BY DEF TypeInv, TypeOK, JobType

LEMMA TypeWorker ==
    ASSUME TypeInv, NEW w \in Workers, WorkerStep(w) \/ Crash(w)
    PROVE  TypeInv'
<1> USE DEF TypeInv
<1>0. /\ \A id \in OpIds : ops[id] \in Row /\ ops[id].session \in BOOLEAN
      /\ job[w] \in JobType /\ ops \in [OpIds -> Row] /\ job \in [Workers -> JobType]
      /\ version \in Nat /\ live \in Nat /\ slot \in OpIds \cup {NULL}
      /\ inputs.profile \in Nat /\ inputs.rest \in Nat
      /\ held \in Requests \cup Workers \cup {NULL} /\ spent \in [opened: Nat, crashes: Nat]
  BY DEF TypeOK, Row, JobType
<1>1. \A phase \in {"idle", "spent", "materializing"} :
        [IdleJob EXCEPT !.phase = phase] \in JobType
  BY DEF IdleJob, JobType, JobPhases, Running, HoldingPhases
<1>2. \A new \in JobType :
        (new.phase \in Running \cup HoldingPhases => new.op \in OpIds)
        => /\ [job EXCEPT ![w] = new] \in [Workers -> JobType]
           /\ job' = [job EXCEPT ![w] = new] => JobHasARow'
  BY <1>0 DEF JobHasARow
<1>3. /\ IdleJob \in JobType /\ IdleJob.phase \notin Running \cup HoldingPhases
  BY IdleTypes DEF IdleJob, Running, HoldingPhases
<1>4. CASE Claim(w)
  <2>1. PICK id \in OpIds :
            /\ ops' = [ops EXCEPT ![id].status = "running"]
            /\ job' = [job EXCEPT ![w] = [IdleJob EXCEPT !.phase = "claimed", !.op = id,
                                                        !.session = ops[id].session]]
    BY <1>4 DEF Claim
  <2> DEFINE new == [IdleJob EXCEPT !.phase = "claimed", !.op = id, !.session = ops[id].session]
  <2>2. new \in JobType /\ new.op \in OpIds
    BY <1>0 DEF IdleJob, JobType, JobPhases, Running, HoldingPhases
  <2>3. ops' \in [OpIds -> Row]
    BY <1>0, <2>1 DEF Row, Statuses, NonTerminal, Terminal
  <2> HIDE DEF new
  <2>4. job' \in [Workers -> JobType] /\ JobHasARow'
    BY <1>2, <2>1, <2>2 DEF new
  <2> QED BY <1>0, <1>4, <2>3, <2>4, TypeWorkerFrame DEF Claim
<1>5. CASE LoadProfile(w) \/ LoadVersion(w) \/ LoadRest(w)
  <2>1. job[w].op \in OpIds
    BY <1>5 DEF LoadProfile, LoadVersion, LoadRest, JobHasARow, Running
  <2>2. job' \in [Workers -> JobType] /\ JobHasARow'
    BY <1>0, <1>5, <2>1
    DEF LoadProfile, LoadVersion, LoadRest, JobHasARow, JobType, JobPhases, Running
  <2>3. ops' \in [OpIds -> Row]
    BY <1>0, <1>5, <2>1 DEF LoadProfile, LoadVersion, LoadRest, JobType, Row
  <2>4. UNCHANGED <<inputs, version, live, slot, held, req, owed, spent>>
    BY <1>5 DEF LoadProfile, LoadVersion, LoadRest
  <2> QED BY <1>0, <2>2, <2>3, <2>4, TypeWorkerFrame
<1>6. ASSUME NEW outcome \in Outcomes, Adopt(w, outcome) PROVE TypeInv'
  <2>1. job[w].op \in OpIds /\ job[w].session \in BOOLEAN
    BY <1>0, <1>6 DEF Adopt, JobHasARow, Running, JobType
  <2>2. ops' \in [OpIds -> Row]
    <3> DEFINE new == [ops[job[w].op] EXCEPT !.status = "succeeded", !.lapsed = FALSE,
                                             !.recorded = job[w].session]
    <3>1. new \in Row
      BY <1>0, <2>1, SucceededRowType
    <3>2. ops' = [ops EXCEPT ![job[w].op] = new]
      BY <1>6 DEF Adopt
    <3> HIDE DEF new
    <3> QED BY <1>0, <3>1, <3>2
  <2>3. version' \in Nat /\ live' \in Nat /\ slot' \in OpIds \cup {NULL}
    BY <1>0, <1>6, <2>1 DEF Adopt
  <2> QED BY <1>0, <1>2, <1>3, <1>6, <2>2, <2>3, TypeWorkerFrame DEF Adopt
<1>7. CASE AdoptTakenOver(w) \/ SupersedeTakenOver(w)
  <2>1. /\ job' = [job EXCEPT ![w] = IdleJob] /\ held' \in {held, NULL}
        /\ UNCHANGED <<inputs, version, live, slot, ops, req, owed, spent>>
    BY <1>7 DEF AdoptTakenOver, SupersedeTakenOver
  <2> QED BY <1>0, <1>2, <1>3, <2>1, TypeWorkerFrame
<1>8. CASE GuardFindsNoRow(w) \/ GuardCreates(w) \/ GuardMismatch(w)
  <2>1. job[w].op \in OpIds
    BY <1>8 DEF GuardFindsNoRow, GuardCreates, GuardMismatch, JobHasARow, Running
  <2>2. job' \in [Workers -> JobType] /\ JobHasARow'
    BY <1>0, <1>8, <2>1
    DEF GuardFindsNoRow, GuardCreates, GuardMismatch, JobHasARow, JobType, JobPhases, HoldingPhases,
        Running
  <2>3. held' \in {held, w} /\ UNCHANGED <<inputs, version, live, slot, ops, req, owed, spent>>
    BY <1>8 DEF GuardFindsNoRow, GuardCreates, GuardMismatch
  <2> QED BY <1>0, <2>2, <2>3, TypeWorkerFrame
<1>9. CASE Supersede(w)
  <2> DEFINE rows == [ops EXCEPT ![FreshId] = FollowUp(ops[job[w].op])]
  <2>1. job[w].op \in OpIds
    BY <1>9 DEF Supersede, JobHasARow, HoldingPhases
  <2>2. FollowUp(ops[job[w].op]) \in Row
    BY <1>0, <2>1, PendingRowType DEF FollowUp, Row
  <2>3. rows \in [OpIds -> Row] /\ FreshId \in OpIds
    BY <1>9, <2>2, TypeInsert, FreshIdIsFresh DEF Supersede, Admits
  <2> HIDE DEF rows
  <2>4. ops' \in [OpIds -> Row]
    BY <1>9, <2>1, <2>3, SupersedingType DEF Supersede, rows
  <2>5. job' \in [Workers -> JobType] /\ JobHasARow'
    BY <1>0, <1>9, <2>1
    DEF Supersede, JobHasARow, JobType, JobPhases, HoldingPhases, Running
  <2> QED BY <1>0, <1>9, <2>4, <2>5, TypeWorkerFrame DEF Supersede
<1>10. CASE GuardCommits(w)
  <2>1. version' \in Nat
    BY <1>0, <1>10 DEF GuardCommits, JobType
  <2> QED BY <1>0, <1>2, <1>3, <1>10, <2>1, TypeWorkerFrame DEF GuardCommits
<1>11. CASE Fail(w)
  <2>1. job[w].op \in OpIds
    BY <1>11 DEF Fail, JobHasARow, HoldingPhases
  <2>2. ops' \in [OpIds -> Row]
    BY <1>0, <1>11, <2>1, FailedRowType DEF Fail
  <2>3. job' \in [Workers -> JobType] /\ JobHasARow'
    <3>1. \E new \in JobType :
            job' = [job EXCEPT ![w] = new] /\ new.phase \notin Running \cup HoldingPhases
      BY <1>1, <1>3, <1>11 DEF Fail, IdleJob, Running, HoldingPhases
    <3> QED BY <1>2, <3>1
  <2>4. held' \in {held, NULL}
    BY <1>11 DEF Fail
  <2> QED BY <1>0, <1>11, <2>2, <2>3, <2>4, TypeWorkerFrame DEF Fail
<1>12. CASE CheckForAPlan(w)
  <2>1. job' \in [Workers -> JobType] /\ JobHasARow'
    BY <1>0, <1>12
    DEF CheckForAPlan, JobHasARow, JobType, JobPhases, HoldingPhases, Running
  <2> QED BY <1>0, <1>12, <2>1, TypeWorkerFrame DEF CheckForAPlan
<1>13. CASE Materialize(w)
  <2>1. version' \in Nat /\ live' \in Nat
    BY <1>0, <1>13 DEF Materialize
  <2>2. job' \in [Workers -> JobType] /\ JobHasARow'
    BY <1>2, <1>3, <1>13 DEF Materialize
  <2> QED BY <1>0, <1>13, <2>1, <2>2, TypeWorkerFrame DEF Materialize
<1>14. CASE Crash(w)
  <2>1. spent' \in [opened: Nat, crashes: Nat]
    BY <1>0, <1>14 DEF Crash
  <2>2. held' \in {held, NULL}
    BY <1>14 DEF Crash
  <2> QED BY <1>0, <1>2, <1>3, <1>14, <2>1, <2>2, TypeWorkerFrame DEF Crash
<1> QED BY <1>4, <1>5, <1>6, <1>7, <1>8, <1>9, <1>10, <1>11, <1>12, <1>13, <1>14 DEF WorkerStep

LEMMA TypePassing ==
    ASSUME TypeInv, NEW id \in OpIds, Passing(id)
    PROVE  TypeInv'
<1>0. ops \in [OpIds -> Row] /\ ops[id] \in Row
  BY DEF TypeInv, TypeOK
<1>1. UNCHANGED <<inputs, version, live, slot, held, job, req, owed, spent>>
  BY DEF Passing, BecomesDue, LeaseLapses, Reap, Untouched
<1>2. \E row \in Row : ops' = [ops EXCEPT ![id] = row]
  <2>1. [ops[id] EXCEPT !.due = TRUE] \in Row /\ [ops[id] EXCEPT !.lapsed = TRUE] \in Row
    BY <1>0 DEF Row
  <2> QED BY <1>0, <2>1, FailedRowType DEF Passing, BecomesDue, LeaseLapses, Reap
<1> QED BY <1>0, <1>1, <1>2 DEF TypeInv, TypeOK, JobHasARow

LEMMA TypeApprove == TypeInv /\ Approve => TypeInv'
  BY DEF TypeInv, TypeOK, JobHasARow, Approve

LEMMA TypeStep == TypeInv /\ [Next]_vars => TypeInv'
<1> SUFFICES ASSUME TypeInv, [Next]_vars PROVE TypeInv'
  OBVIOUS
<1>1. CASE UNCHANGED vars
  BY <1>1 DEF TypeInv, TypeOK, JobHasARow, vars
<1> QED BY <1>1, TypeOpens, TypeCommits, TypeWorker, TypePassing, TypeApprove DEF Next

(* Every variable keeps its type in every behaviour, whatever the constants. *)
THEOREM SolveTypeOK == Spec => []TypeOK
<1>1. Spec => []TypeInv
  BY TypeInit, TypeStep, PTL DEF Spec
<1> QED BY <1>1, PTL DEF TypeInv

-----------------------------------------------------------------------------
(* What a step may do to the rows: nothing, one legal move of one row, or an  *)
(* insert that leaves it alone in flight, closing the row that was.           *)

RowKept(id) ==
    /\ ops'[id].status = ops[id].status
    /\ ops'[id].candidate = ops[id].candidate
    /\ ops'[id].supersededBy = ops[id].supersededBy

LegalMoves == {<<"pending", "running">>, <<"running", "succeeded">>,
               <<"running", "pending">>, <<"running", "failed">>}

RowMoved(id) ==
    /\ <<ops[id].status, ops'[id].status>> \in LegalMoves
    /\ ops'[id].candidate = ops[id].candidate
    /\ ops'[id].supersededBy = ops[id].supersededBy
    /\ \A other \in OpIds \ {id} : RowKept(other)

RowAdded(new) ==
    /\ ops[new].status = "absent" /\ ops'[new].status = "pending"
    /\ InFlight = {}
    /\ \A other \in OpIds \ {new} : RowKept(other)

RowReplaced(new, old) ==
    /\ ops[new].status = "absent" /\ ops'[new].status = "pending"
    /\ InFlight = {old}
    /\ ops'[old].status = "superseded" /\ ops'[old].supersededBy = new
    /\ ops'[old].candidate = ops[old].candidate
    /\ ops[old].candidate # NULL => ops'[new].candidate # NULL
    /\ \A other \in OpIds \ {new, old} : RowKept(other)

RowsStep ==
    \/ \A id \in OpIds : RowKept(id)
    \/ \E id \in OpIds : RowMoved(id)
    \/ \E new \in OpIds : RowAdded(new)
    \/ \E new, old \in OpIds : RowReplaced(new, old)

(* Replacing one row by another that keeps these three fields changes no row. *)
LEMMA OneRowKept ==
    ASSUME TypeOK, NEW id \in OpIds, NEW row \in Row, ops' = [ops EXCEPT ![id] = row],
           row.status = ops[id].status, row.candidate = ops[id].candidate,
           row.supersededBy = ops[id].supersededBy
    PROVE  RowsStep
  BY DEF RowsStep, RowKept, TypeOK

LEMMA OneRowMoved ==
    ASSUME TypeOK, NEW id \in OpIds, NEW row \in Row, ops' = [ops EXCEPT ![id] = row],
           <<ops[id].status, row.status>> \in LegalMoves, row.candidate = ops[id].candidate,
           row.supersededBy = ops[id].supersededBy
    PROVE  RowsStep
<1>1. RowMoved(id)
  BY DEF RowMoved, RowKept, TypeOK
<1> QED BY <1>1 DEF RowsStep

LEMMA OneRowAdded ==
    ASSUME TypeOK, InFlight = {}, FreshIds # {}, NEW row \in Row, row.status = "pending",
           ops' = [ops EXCEPT ![FreshId] = row]
    PROVE  RowsStep
<1>1. RowAdded(FreshId)
  BY FreshIdIsFresh DEF RowAdded, RowKept, TypeOK
<1> QED BY <1>1, FreshIdIsFresh DEF RowsStep

LEMMA OneRowReplaced ==
    ASSUME TypeOK, NEW old \in OpIds, Closable(old), Admits({old}), NEW row \in Row,
           row.status = "pending", ops[old].candidate # NULL => row.candidate # NULL,
           ops' = Superseding([ops EXCEPT ![FreshId] = row], old, FreshId)
    PROVE  RowsStep
<1>1. FreshId \in OpIds /\ ops[FreshId].status = "absent"
  BY FreshIdIsFresh DEF Admits
<1>2. InFlight = {old} /\ FreshId # old
  BY <1>1 DEF Admits, Closable, InFlight, NonTerminal
<1> DEFINE closed == [ops[old] EXCEPT !.status = "superseded", !.lapsed = FALSE,
                                      !.supersededBy = FreshId]
<1>3. /\ closed.status = "superseded" /\ closed.supersededBy = FreshId
      /\ closed.candidate = ops[old].candidate
  BY DEF TypeOK, Row
<1>4. ops' = [[ops EXCEPT ![FreshId] = row] EXCEPT ![old] = closed]
  BY <1>1, <1>2 DEF Superseding, TypeOK
<1> HIDE DEF closed
<1>5. /\ ops'[FreshId] = row /\ ops'[old] = closed
      /\ \A other \in OpIds \ {FreshId, old} : ops'[other] = ops[other]
  BY <1>1, <1>2, <1>4 DEF TypeOK
<1>6. RowReplaced(FreshId, old)
  BY <1>1, <1>2, <1>3, <1>5 DEF RowReplaced, RowKept
<1> QED BY <1>1, <1>6 DEF RowsStep

LEMMA PendingRowFields ==
    ASSUME NEW due \in BOOLEAN, NEW candidate \in Candidates \cup {NULL}, NEW session \in BOOLEAN
    PROVE  /\ PendingRow(due, candidate, session).status = "pending"
           /\ PendingRow(due, candidate, session).candidate = candidate
  BY DEF PendingRow, AbsentRow

LEMMA RowsStepOfRequests ==
    ASSUME TypeInv, NEW r \in Requests, RequestCommits(r)
    PROVE  RowsStep
<1> USE DEF TypeInv
<1>0. /\ req[r].session \in BOOLEAN /\ req[r].seen \in OpIds \cup {NULL}
      /\ \A id \in OpIds : ops[id] \in Row
  BY DEF TypeOK
<1>1. CASE CommitSilent(r)
  BY <1>1 DEF CommitSilent, RowsStep, RowKept
<1>2. ASSUME NEW immediate \in BOOLEAN, CommitScheduled(r, immediate) PROVE RowsStep
  <2>1. InFlight = {} /\ FreshIds # {}
    BY <1>2 DEF CommitScheduled, Admits
  <2>2. /\ PendingRow(immediate, NULL, req[r].session) \in Row
        /\ PendingRow(immediate, NULL, req[r].session).status = "pending"
    BY <1>0, PendingRowType, PendingRowFields
  <2>3. ops' = [ops EXCEPT ![FreshId] = PendingRow(immediate, NULL, req[r].session)]
    BY <1>2 DEF CommitScheduled
  <2> QED BY <2>1, <2>2, <2>3, OneRowAdded
<1>3. ASSUME NEW immediate \in BOOLEAN, CommitJoined(r, immediate) PROVE RowsStep
  <2>1. req[r].seen \in OpIds
    BY <1>0, <1>3 DEF CommitJoined
  <2>2. ops' = [ops EXCEPT ![req[r].seen] = Joined(ops[req[r].seen], r, immediate)]
    BY <1>3 DEF CommitJoined
  <2> QED BY ZenonT(30), <1>0, <2>1, <2>2, JoinedType, OneRowKept
<1>4. ASSUME NEW candidate \in Candidates, CommitTradeoff(r, candidate) PROVE RowsStep
  <2> DEFINE row == PendingRow(TRUE, candidate, req[r].session)
             old == req[r].seen
  <2>1. row \in Row /\ row.status = "pending" /\ row.candidate # NULL
    <3>1. candidate \in Candidates \cup {NULL} /\ candidate # NULL
      BY SetsAssumption
    <3>2. TRUE \in BOOLEAN
      OBVIOUS
    <3>3. row \in Row
      BY <1>0, <3>1, <3>2, PendingRowType
    <3>4. row.status = "pending" /\ row.candidate = candidate
      BY <1>0, <3>1, <3>2, PendingRowFields
    <3> QED BY <3>1, <3>3, <3>4
  <2>2. /\ Admits({old})
        /\ ops' = IF Closable(old) THEN Superseding([ops EXCEPT ![FreshId] = row], old, FreshId)
                  ELSE [ops EXCEPT ![FreshId] = row]
    BY <1>4 DEF CommitTradeoff
  <2> HIDE DEF row
  <2>3. CASE Closable(old)
    BY <1>0, <2>1, <2>2, <2>3, OneRowReplaced DEF Closable
  <2>4. CASE ~Closable(old)
    <3>1. InFlight = {} /\ FreshIds # {}
      BY <2>2, <2>4, SetsAssumption DEF Admits, Closable, InFlight
    <3> QED BY <2>1, <2>2, <2>4, <3>1, OneRowAdded
  <2> QED BY <2>3, <2>4
<1> QED BY <1>1, <1>2, <1>3, <1>4 DEF RequestCommits

LEMMA RowsStepOfWorkers ==
    ASSUME TypeInv, NEW w \in Workers, WorkerStep(w)
    PROVE  RowsStep
<1> USE DEF TypeInv
<1>0. /\ \A id \in OpIds : ops[id] \in Row
      /\ job[w].phase \in Running \cup HoldingPhases => job[w].op \in OpIds
      /\ job[w].session \in BOOLEAN
  BY DEF TypeOK, JobHasARow
<1>1. CASE UNCHANGED ops
  BY <1>1 DEF RowsStep, RowKept
<1>2. CASE Claim(w)
  <2>1. PICK id \in OpIds : ops[id].status = "pending"
                            /\ ops' = [ops EXCEPT ![id].status = "running"]
    BY <1>2 DEF Claim
  <2> DEFINE row == [ops[id] EXCEPT !.status = "running"]
  <2>2. /\ row \in Row /\ row.status = "running" /\ row.candidate = ops[id].candidate
        /\ row.supersededBy = ops[id].supersededBy
    BY <1>0 DEF Row, Statuses, NonTerminal
  <2>3. ops' = [ops EXCEPT ![id] = row]
    BY <2>1
  <2>4. <<ops[id].status, row.status>> \in LegalMoves
    BY <2>1, <2>2 DEF LegalMoves
  <2> HIDE DEF row
  <2> QED BY <2>2, <2>3, <2>4, OneRowMoved
<1>3. CASE LoadRest(w)
  <2> DEFINE id == job[w].op
             row == [ops[id] EXCEPT !.inputVersion = job[w].version]
  <2>1. id \in OpIds /\ job[w].version \in Nat
    BY <1>0, <1>3 DEF LoadRest, Running, TypeOK
  <2>2. /\ row \in Row /\ row.status = ops[id].status /\ row.candidate = ops[id].candidate
        /\ row.supersededBy = ops[id].supersededBy
    BY <1>0, <2>1 DEF Row
  <2>3. UNCHANGED ops \/ ops' = [ops EXCEPT ![id] = row]
    BY <1>3 DEF LoadRest
  <2> HIDE DEF row, id
  <2> QED BY <1>1, <2>1, <2>2, <2>3, OneRowKept
<1>4. ASSUME NEW outcome \in Outcomes, Adopt(w, outcome) PROVE RowsStep
  <2> DEFINE id == job[w].op
             row == [ops[id] EXCEPT !.status = "succeeded", !.lapsed = FALSE,
                                    !.recorded = job[w].session]
  <2>1. id \in OpIds /\ ops[id].status = "running" /\ ops' = [ops EXCEPT ![id] = row]
    BY <1>0, <1>4 DEF Adopt, Running
  <2>2. row \in Row
    BY <1>0, <2>1, SucceededRowType
  <2>3. /\ row.status = "succeeded" /\ row.candidate = ops[id].candidate
        /\ row.supersededBy = ops[id].supersededBy
    BY <1>0, <2>1 DEF Row
  <2>4. <<ops[id].status, row.status>> \in LegalMoves
    BY <2>1, <2>3 DEF LegalMoves
  <2> HIDE DEF row, id
  <2> QED BY <2>1, <2>2, <2>3, <2>4, OneRowMoved
<1>5. CASE Supersede(w)
  <2> DEFINE old == job[w].op
             row == FollowUp(ops[old])
  <2>1. /\ old \in OpIds /\ Closable(old) /\ Admits({old})
        /\ ops' = Superseding([ops EXCEPT ![FreshId] = row], old, FreshId)
    <3>1. job[w].phase \in Running \cup HoldingPhases
      BY <1>5 DEF Supersede, HoldingPhases
    <3> QED BY <1>0, <1>5, <3>1 DEF Supersede
  <2>2. row \in Row /\ row.status = "pending" /\ row.candidate = ops[old].candidate
    <3>1. ops[old].candidate \in Candidates \cup {NULL} /\ ops[old].session \in BOOLEAN
      BY <1>0, <2>1 DEF Row
    <3> QED BY <3>1, PendingRowType, PendingRowFields DEF FollowUp
  <2> HIDE DEF row, old
  <2> QED BY <2>1, <2>2, OneRowReplaced
<1>6. CASE Fail(w)
  <2> DEFINE id == job[w].op
  <2>1. id \in OpIds
    BY <1>0, <1>6 DEF Fail, HoldingPhases
  <2>2. UNCHANGED ops \/ (ops[id].status = "running" /\ ops' = [ops EXCEPT ![id] = FailedRow(ops[id])])
    BY <1>6 DEF Fail
  <2>3. ops[id].status = "running" => <<ops[id].status, FailedRow(ops[id]).status>> \in LegalMoves
    BY <1>0, <2>1, FailedRowType DEF LegalMoves
  <2> HIDE DEF id
  <2> QED BY <1>0, <1>1, <2>1, <2>2, <2>3, FailedRowType, OneRowMoved
<1> QED BY <1>1, <1>2, <1>3, <1>4, <1>5, <1>6
    DEF WorkerStep, LoadProfile, LoadVersion, AdoptTakenOver, GuardFindsNoRow, GuardCreates,
        GuardMismatch, SupersedeTakenOver, GuardCommits, CheckForAPlan, Materialize

LEMMA RowsStepOfTime ==
    ASSUME TypeInv, NEW id \in OpIds, Passing(id)
    PROVE  RowsStep
<1>1. ops[id] \in Row /\ TypeOK
  BY DEF TypeInv, TypeOK
<1>2. ASSUME NEW row \in {[ops[id] EXCEPT !.due = TRUE], [ops[id] EXCEPT !.lapsed = TRUE]}
      PROVE  /\ row \in Row /\ row.status = ops[id].status
             /\ row.candidate = ops[id].candidate /\ row.supersededBy = ops[id].supersededBy
  BY <1>1, <1>2 DEF Row
<1>3. CASE BecomesDue(id) \/ LeaseLapses(id)
  BY <1>1, <1>2, <1>3, OneRowKept DEF BecomesDue, LeaseLapses
<1>4. CASE Reap(id)
  <2>1. <<ops[id].status, FailedRow(ops[id]).status>> \in LegalMoves
    BY <1>1, <1>4, FailedRowType DEF Reap, LegalMoves
  <2> QED BY <1>1, <1>4, <2>1, FailedRowType, OneRowMoved DEF Reap
<1> QED BY <1>3, <1>4 DEF Passing

LEMMA EveryRowsStep ==
    ASSUME TypeInv, [Next]_vars
    PROVE  RowsStep
<1>1. CASE UNCHANGED ops
  BY <1>1 DEF RowsStep, RowKept
<1>2. ASSUME NEW r \in Requests, RequestOpens(r) \/ Enumerate(r) \/ Abort(r) PROVE UNCHANGED ops
  BY <1>2 DEF RequestOpens, OpenEdit, OpenUntracked, OpenAsk, Opening, Enumerate, Abort
<1>3. ASSUME NEW w \in Workers, Crash(w) PROVE UNCHANGED ops
  BY <1>3 DEF Crash
<1> QED BY <1>1, <1>2, <1>3, RowsStepOfRequests, RowsStepOfWorkers, RowsStepOfTime
    DEF Next, Approve, vars

-----------------------------------------------------------------------------
(* The single-flight row, the lineage of supersessions and the slot. *)

RowsInv == SingleFlight /\ SupersededIsCarriedOn /\ ProposalIsOfASolveThatSucceeded

LEMMA RowsInit == Init => RowsInv
  BY DEF Init, RowsInv, SingleFlight, SupersededIsCarriedOn, ProposalIsOfASolveThatSucceeded,
         InFlight, NonTerminal, AbsentRow

LEMMA SingleFlightStep ==
    ASSUME TypeInv, RowsStep, SingleFlight
    PROVE  SingleFlight'
<1>1. CASE \A id \in OpIds : RowKept(id)
  BY <1>1 DEF RowKept, SingleFlight, InFlight
<1>2. ASSUME NEW id \in OpIds, RowMoved(id) PROVE SingleFlight'
  <2>1. InFlight' \subseteq InFlight
    BY <1>2 DEF RowMoved, RowKept, LegalMoves, InFlight, NonTerminal
  <2> QED BY <2>1 DEF SingleFlight
<1>3. ASSUME NEW new \in OpIds, RowAdded(new) PROVE SingleFlight'
  <2>1. InFlight' \subseteq {new}
    BY <1>3 DEF RowAdded, RowKept, InFlight
  <2> QED BY <2>1 DEF SingleFlight
<1>4. ASSUME NEW new \in OpIds, NEW old \in OpIds, RowReplaced(new, old) PROVE SingleFlight'
  <2>1. InFlight' \subseteq {new}
    BY <1>4 DEF RowReplaced, RowKept, InFlight, NonTerminal
  <2> QED BY <2>1 DEF SingleFlight
<1> QED BY <1>1, <1>2, <1>3, <1>4 DEF RowsStep

LEMMA SupersededStep ==
    ASSUME TypeInv, RowsStep, SupersededIsCarriedOn
    PROVE  SupersededIsCarriedOn'
<1> DEFINE Carried(id) == LET next == ops[id].supersededBy
                          IN  /\ next \in OpIds \ {id}
                              /\ ops[next].status # "absent"
                              /\ ops[id].candidate # NULL => ops[next].candidate # NULL
<1> SUFFICES ASSUME NEW id \in OpIds, ops'[id].status = "superseded"
             PROVE  Carried(id)'
  BY DEF SupersededIsCarriedOn
<1>0. ops[id].status = "superseded" => Carried(id)
  BY DEF SupersededIsCarriedOn
<1>1. CASE \A other \in OpIds : RowKept(other)
  BY <1>0, <1>1 DEF RowKept
<1>2. ASSUME NEW moved \in OpIds, RowMoved(moved) PROVE Carried(id)'
  <2>1. moved # id /\ RowKept(id) /\ ops'[moved].status # "absent"
    BY <1>2 DEF RowMoved, LegalMoves
  <2> QED BY <1>0, <1>2, <2>1 DEF RowMoved, RowKept
<1>3. ASSUME NEW new \in OpIds, RowAdded(new) PROVE Carried(id)'
  BY <1>0, <1>3 DEF RowAdded, RowKept
<1>4. ASSUME NEW new \in OpIds, NEW old \in OpIds, RowReplaced(new, old) PROVE Carried(id)'
  <2>1. old # new
    BY <1>4 DEF RowReplaced
  <2>2. CASE id = old
    BY <1>4, <2>1, <2>2 DEF RowReplaced
  <2>3. CASE id # old
    BY <1>0, <1>4, <2>1, <2>3 DEF RowReplaced, RowKept
  <2> QED BY <2>2, <2>3
<1> QED BY <1>1, <1>2, <1>3, <1>4 DEF RowsStep

(* A terminal row keeps its status, and a succeeded one in particular. *)
LEMMA TerminalStep ==
    ASSUME TypeInv, RowsStep, NEW id \in OpIds, ops[id].status \in Terminal
    PROVE  ops'[id].status = ops[id].status
<1>1. ops[id].status \notin NonTerminal /\ ops[id].status # "absent" /\ id \notin InFlight
  BY DEF Terminal, NonTerminal, InFlight
<1> QED BY <1>1 DEF RowsStep, RowKept, RowMoved, RowAdded, RowReplaced, LegalMoves, NonTerminal

LEMMA SlotStep ==
    ASSUME TypeInv, [Next]_vars, ProposalIsOfASolveThatSucceeded
    PROVE  ProposalIsOfASolveThatSucceeded'
<1>1. \A id \in OpIds : ops[id].status = "succeeded" => ops'[id].status = "succeeded"
  BY EveryRowsStep, TerminalStep DEF Terminal
<1>2. slot \in OpIds \cup {NULL}
  BY DEF TypeInv, TypeOK
<1>3. CASE slot' \in {slot, NULL}
  BY <1>1, <1>2, <1>3 DEF ProposalIsOfASolveThatSucceeded
<1>4. ASSUME NEW w \in Workers, NEW outcome \in Outcomes, Adopt(w, outcome)
      PROVE  ProposalIsOfASolveThatSucceeded'
  <2>1. CASE slot' = job[w].op
    <3>1. job[w].op \in OpIds
      BY <1>4 DEF Adopt, TypeInv, JobHasARow, Running
    <3>2. ops'[job[w].op].status = "succeeded"
      BY <1>4, <3>1 DEF Adopt, TypeInv, TypeOK, Row
    <3> QED BY <2>1, <3>2 DEF ProposalIsOfASolveThatSucceeded
  <2> QED BY <1>3, <1>4, <2>1 DEF Adopt
<1>5. ASSUME NEW r \in Requests, RequestOpens(r) \/ Enumerate(r) \/ RequestCommits(r) \/ Abort(r)
      PROVE  slot' = slot
  BY <1>5 DEF RequestOpens, OpenEdit, OpenUntracked, OpenAsk, Opening, Enumerate, RequestCommits,
              CommitSilent, CommitScheduled, CommitJoined, CommitTradeoff, Committing, Abort
<1>6. ASSUME NEW w \in Workers, Crash(w) PROVE slot' = slot
  BY <1>6 DEF Crash
<1>7. ASSUME NEW w \in Workers, WorkerStep(w), ~\E outcome \in Outcomes : Adopt(w, outcome)
      PROVE  slot' = slot
  BY <1>7 DEF WorkerStep, Claim, LoadProfile, LoadVersion, LoadRest, AdoptTakenOver, GuardFindsNoRow,
              GuardCreates, GuardMismatch, Supersede, SupersedeTakenOver, GuardCommits, Fail,
              CheckForAPlan, Materialize
<1>8. ASSUME NEW id \in OpIds, Passing(id) PROVE slot' = slot
  BY <1>8 DEF Passing, BecomesDue, LeaseLapses, Reap, Untouched
<1> QED BY <1>3, <1>4, <1>5, <1>6, <1>7, <1>8 DEF Next, Approve, vars

LEMMA RowsInvStep == TypeInv /\ RowsInv /\ [Next]_vars => RowsInv'
  BY EveryRowsStep, SingleFlightStep, SupersededStep, SlotStep DEF RowsInv

(* The induction the three theorems below share. *)
LEMMA RowsAlways == Spec => [](TypeInv /\ RowsInv)
<1>1. Init => TypeInv /\ RowsInv
  BY TypeInit, RowsInit
<1>2. TypeInv /\ RowsInv /\ [Next]_vars => (TypeInv /\ RowsInv)'
  BY TypeStep, RowsInvStep
<1> QED BY <1>1, <1>2, PTL DEF Spec

(* At most one solve of the week is in flight, whatever the number of requests and *)
(* workers: each way in (first solve, follow-up, tradeoff, retry) leaves one row.  *)
THEOREM SolveSingleFlight == Spec => []SingleFlight
  BY RowsAlways, PTL DEF RowsInv

(* A superseded solve's successor exists and carries its concession on. *)
THEOREM SolveSupersededIsCarriedOn == Spec => []SupersededIsCarriedOn
  BY RowsAlways, PTL DEF RowsInv

(* The slot never holds the proposal of a solve that was superseded, reaped or failed. *)
THEOREM SolveProposalSucceeded == Spec => []ProposalIsOfASolveThatSucceeded
  BY RowsAlways, PTL DEF RowsInv

(* No step takes a terminal row out of its status. *)
THEOREM SolveTerminalIsFinal == Spec => TerminalIsFinal
<1>1. TypeInv /\ [Next]_vars =>
        [\A id \in OpIds : ops[id].status \in Terminal => ops'[id].status = ops[id].status]_vars
  BY EveryRowsStep, TerminalStep
<1> QED BY <1>1, TypeInit, TypeStep, PTL DEF Spec, TerminalIsFinal

-----------------------------------------------------------------------------
(* The guard: a solve is adopted only from the week as it is. *)

(* No edit is made to a week that is not tracked: either the week has a row from the   *)
(* start, or no request of those that enumerate tracked weeks arrives.                 *)
WeekIsTracked == FirstVersion # 0 \/ Kinds \cap TrackedOnly = {}

(* An edit that has read is a holder of the version row until it commits; so is a worker *)
(* whose guard failed.                                                                   *)
LockInv ==
    /\ FirstVersion # 0 => version # 0
    /\ \A r \in Requests :
        /\ req[r].phase # "untracked"
        /\ req[r].phase = "read" /\ req[r].kind \in Locking => held = r
    /\ \A w \in Workers : job[w].phase \in HoldingPhases => held = w

(* What a load read is older than the version, or is the week as it is. *)
SnapshotInv ==
    \A w \in Workers :
        /\ job[w].phase \in {"versioned", "loaded"} => job[w].version <= version
        /\ job[w].phase = "loaded" /\ job[w].version = version
            => job[w].rest = inputs.rest /\ job[w].live = live

LEMMA LockInit == Init => LockInv
  BY DEF Init, LockInv, IdleReq, IdleJob, HoldingPhases

LEMMA LockStepOfRequests ==
    ASSUME TypeInv, LockInv, WeekIsTracked, NEW r \in Requests,
           RequestOpens(r) \/ Enumerate(r) \/ RequestCommits(r) \/ Abort(r)
    PROVE  LockInv'
<1>0. r # NULL /\ (\A w \in Workers : w # r) /\ version \in Nat /\ req \in [Requests -> ReqType]
  BY SetsAssumption DEF TypeInv, TypeOK, ReqType
<1>1. CASE RequestOpens(r)
  <2>1. PICK kind \in Kinds, session \in Sessions :
            OpenEdit(r, kind, session) \/ OpenUntracked(r, kind, session) \/ OpenAsk(r, kind, session)
    BY <1>1 DEF RequestOpens
  <2>2. CASE OpenEdit(r, kind, session)
    <3>1. held = NULL /\ held' = r /\ version' = version /\ job' = job
      BY <2>2 DEF OpenEdit, Opening
    <3>2. /\ req'[r].phase = "read"
          /\ \A other \in Requests \ {r} : req'[other] = req[other]
      BY <1>0, <2>2 DEF OpenEdit, ReadInFlight
    <3>3. /\ \A other \in Requests : ~(req[other].phase = "read" /\ req[other].kind \in Locking)
          /\ \A w \in Workers : job[w].phase \notin HoldingPhases
      BY <3>1, SetsAssumption DEF LockInv
    <3> QED BY <1>0, <3>1, <3>2, <3>3 DEF LockInv
  <2>3. CASE OpenUntracked(r, kind, session)
    BY <2>3 DEF OpenUntracked, LockInv, WeekIsTracked
  <2>4. CASE OpenAsk(r, kind, session)
    <3>1. held' = held /\ version' = version /\ job' = job
      BY <2>4 DEF OpenAsk, Opening
    <3>2. /\ req'[r].phase = "read" /\ req'[r].kind \notin Locking
          /\ \A other \in Requests \ {r} : req'[other] = req[other]
      BY <1>0, <2>4 DEF OpenAsk, ReadInFlight
    <3> QED BY <3>1, <3>2 DEF LockInv
  <2> QED BY <2>1, <2>2, <2>3, <2>4
<1>2. CASE Enumerate(r)
  BY <1>2 DEF Enumerate, LockInv
<1>3. CASE RequestCommits(r) \/ Abort(r)
  <2>1. /\ held' = IF held = r THEN NULL ELSE held
        /\ req' = [req EXCEPT ![r] = IdleReq]
        /\ job' = job
        /\ version' \in {version, version + 1}
    BY <1>3 DEF RequestCommits, CommitSilent, CommitScheduled, CommitJoined, CommitTradeoff,
                Committing, Abort
  <2>2. req'[r] = IdleReq /\ \A other \in Requests \ {r} : req'[other] = req[other]
    BY <1>0, <2>1
  <2> QED BY <1>0, <2>1, <2>2 DEF LockInv, IdleReq
<1> QED BY <1>1, <1>2, <1>3

(* A worker's step is its own. *)
LEMMA JobFrame ==
    ASSUME TypeInv, NEW w \in Workers, WorkerStep(w) \/ Crash(w)
    PROVE  \A other \in Workers \ {w} : job'[other] = job[other]
<1>0. job \in [Workers -> JobType]
  BY DEF TypeInv, TypeOK, JobType
<1>1. \A new : job' = [job EXCEPT ![w] = new] => \A other \in Workers \ {w} : job'[other] = job[other]
  BY <1>0
<1>2. CASE Claim(w)
  BY <1>0, <1>2 DEF Claim
<1>3. CASE LoadProfile(w) \/ LoadVersion(w) \/ LoadRest(w)
  BY <1>0, <1>3 DEF LoadProfile, LoadVersion, LoadRest
<1>4. CASE GuardFindsNoRow(w) \/ GuardCreates(w) \/ GuardMismatch(w) \/ Supersede(w)
  BY <1>0, <1>4 DEF GuardFindsNoRow, GuardCreates, GuardMismatch, Supersede
<1>5. CASE Fail(w)
  BY <1>0, <1>5 DEF Fail
<1>6. CASE CheckForAPlan(w)
  BY <1>0, <1>6 DEF CheckForAPlan
<1>7. CASE \/ AdoptTakenOver(w) \/ SupersedeTakenOver(w) \/ GuardCommits(w) \/ Materialize(w)
           \/ Crash(w) \/ \E outcome \in Outcomes : Adopt(w, outcome)
  <2>1. job' = [job EXCEPT ![w] = IdleJob]
    BY <1>7 DEF AdoptTakenOver, SupersedeTakenOver, GuardCommits, Materialize, Crash, Adopt
  <2> QED BY <1>1, <2>1
<1> QED BY <1>2, <1>3, <1>4, <1>5, <1>6, <1>7 DEF WorkerStep

LEMMA LockStepOfWorkers ==
    ASSUME TypeInv, LockInv, NEW w \in Workers, WorkerStep(w) \/ Crash(w)
    PROVE  LockInv'
<1>0. /\ w # NULL /\ (\A r \in Requests : w # r) /\ version \in Nat
      /\ job \in [Workers -> JobType]
  BY SetsAssumption DEF TypeInv, TypeOK, JobType
<1>1. /\ req' = req /\ version' >= version
      /\ \A other \in Workers \ {w} : job'[other] = job[other]
  <2>1. req' = req
    BY DEF WorkerStep, Claim, LoadProfile, LoadVersion, LoadRest, Adopt, AdoptTakenOver,
           GuardFindsNoRow, GuardCreates, GuardMismatch, Supersede, SupersedeTakenOver, GuardCommits,
           Fail, CheckForAPlan, Materialize, Crash
  <2>2. version' \in {version, version + 1}
    <3>1. CASE GuardCommits(w) \/ Materialize(w) \/ \E outcome \in Outcomes : Adopt(w, outcome)
      BY <1>0, <3>1 DEF GuardCommits, Materialize, Adopt, JobType
    <3>2. CASE ~(GuardCommits(w) \/ Materialize(w) \/ \E outcome \in Outcomes : Adopt(w, outcome))
      BY <3>2 DEF WorkerStep, Claim, LoadProfile, LoadVersion, LoadRest, AdoptTakenOver,
             GuardFindsNoRow, GuardCreates, GuardMismatch, Supersede, SupersedeTakenOver, Fail,
             CheckForAPlan, Crash
    <3> QED BY <3>1, <3>2
  <2>3. \A other \in Workers \ {w} : job'[other] = job[other]
    BY <1>0, JobFrame
  <2> QED BY <1>0, <2>1, <2>2, <2>3
<1>2. \/ held' = held /\ (job'[w].phase \in HoldingPhases => job[w].phase \in HoldingPhases)
      \/ held = NULL /\ held' = w
      \/ held = w /\ held' = NULL /\ job'[w].phase \notin HoldingPhases
  <2>1. CASE \/ Claim(w) \/ LoadProfile(w) \/ LoadVersion(w) \/ LoadRest(w) \/ Supersede(w)
             \/ GuardFindsNoRow(w) \/ AdoptTakenOver(w) \/ CheckForAPlan(w) \/ Materialize(w)
             \/ \E outcome \in Outcomes : Adopt(w, outcome)
    <3>1. held' = held
      BY <2>1 DEF Claim, LoadProfile, LoadVersion, LoadRest, Supersede, AdoptTakenOver,
                  GuardFindsNoRow, CheckForAPlan, Materialize, Adopt
    <3>2. CASE Supersede(w)
      BY <3>1, <3>2 DEF Supersede, HoldingPhases
    <3>3. CASE ~Supersede(w)
      <4>1. \E new \in {"claimed", "profiled", "versioned", "loaded", "creating", "idle",
                         "materializing"} :
                job'[w].phase = new
        <5>1. CASE Claim(w)
          BY <1>0, <5>1 DEF Claim, IdleJob
        <5>2. CASE LoadProfile(w) \/ LoadVersion(w) \/ LoadRest(w) \/ GuardFindsNoRow(w)
          BY <1>0, <5>2 DEF LoadProfile, LoadVersion, LoadRest, GuardFindsNoRow, JobType
        <5>3. CASE CheckForAPlan(w)
          BY <1>0, <5>3 DEF CheckForAPlan, JobType
        <5>4. CASE AdoptTakenOver(w) \/ Materialize(w) \/ \E outcome \in Outcomes : Adopt(w, outcome)
          BY <1>0, <5>4 DEF AdoptTakenOver, Materialize, Adopt, IdleJob
        <5> QED BY <2>1, <3>3, <5>1, <5>2, <5>3, <5>4
      <4> QED BY <3>1, <4>1 DEF HoldingPhases
    <3> QED BY <3>2, <3>3
  <2>2. CASE GuardCreates(w) \/ GuardMismatch(w)
    BY <2>2 DEF GuardCreates, GuardMismatch
  <2>3. CASE SupersedeTakenOver(w) \/ GuardCommits(w)
    BY <1>0, <2>3 DEF SupersedeTakenOver, GuardCommits, LockInv, HoldingPhases, IdleJob
  <2>4. CASE Fail(w) \/ Crash(w)
    <3>1. job'[w].phase \notin HoldingPhases /\ held' = IF held = w THEN NULL ELSE held
      BY <1>0, <2>4 DEF Fail, Crash, IdleJob, HoldingPhases
    <3> QED BY <3>1
  <2> QED BY <2>1, <2>2, <2>3, <2>4 DEF WorkerStep
<1>3. CASE held' = held /\ (job'[w].phase \in HoldingPhases => job[w].phase \in HoldingPhases)
  BY <1>0, <1>1, <1>3 DEF LockInv
<1>4. CASE held = NULL /\ held' = w
  <2>1. /\ \A r \in Requests : ~(req[r].phase = "read" /\ req[r].kind \in Locking)
        /\ \A other \in Workers : job[other].phase \notin HoldingPhases
    BY <1>4, SetsAssumption DEF LockInv
  <2> QED BY <1>0, <1>1, <1>4, <2>1 DEF LockInv
<1>5. CASE held = w /\ held' = NULL /\ job'[w].phase \notin HoldingPhases
  <2>1. /\ \A r \in Requests : ~(req[r].phase = "read" /\ req[r].kind \in Locking)
        /\ \A other \in Workers \ {w} : job[other].phase \notin HoldingPhases
    BY <1>0, <1>5 DEF LockInv
  <2> QED BY <1>0, <1>1, <1>5, <2>1 DEF LockInv
<1> QED BY <1>2, <1>3, <1>4, <1>5

LEMMA LockStep ==
    ASSUME TypeInv, LockInv, WeekIsTracked, [Next]_vars
    PROVE  LockInv'
<1>1. ASSUME NEW id \in OpIds, Passing(id) PROVE LockInv'
  BY <1>1 DEF Passing, BecomesDue, LeaseLapses, Reap, Untouched, LockInv
<1>2. CASE Approve
  BY <1>2 DEF Approve, LockInv, TypeInv, TypeOK
<1>3. CASE UNCHANGED vars
  BY <1>3 DEF LockInv, vars
<1> QED BY <1>1, <1>2, <1>3, LockStepOfRequests, LockStepOfWorkers DEF Next

(* The version never goes back, and moves whenever an input or the plan does. *)
WeekMoves ==
    /\ version' >= version
    /\ inputs'.rest # inputs.rest \/ live' # live => version' > version

LEMMA WeekStep ==
    ASSUME TypeInv, LockInv, [Next]_vars
    PROVE  WeekMoves
<1>0. version \in Nat /\ live \in Nat /\ inputs \in [profile: Nat, rest: Nat]
  BY DEF TypeInv, TypeOK
<1>1. ASSUME UNCHANGED <<inputs, version, live>> PROVE WeekMoves
  BY <1>0, <1>1 DEF WeekMoves
<1>2. ASSUME NEW r \in Requests, Committing(r), req[r].phase \in {"read", "untracked"}
      PROVE  WeekMoves
  <2>1. req[r].kind \in Locking => held = r
    BY <1>2 DEF LockInv
  <2>2. CASE req[r].kind \in Locking
    BY <1>0, <1>2, <2>1, <2>2 DEF Committing, WeekMoves
  <2>3. CASE req[r].kind \notin Locking
    <3>1. inputs' = inputs
      BY <1>2, <2>3 DEF Committing, Edited, Locking
    <3> QED BY <1>0, <1>2, <3>1 DEF Committing, WeekMoves
  <2> QED BY <2>2, <2>3
<1>3. ASSUME NEW r \in Requests, RequestOpens(r) \/ Enumerate(r) \/ RequestCommits(r) \/ Abort(r)
      PROVE  WeekMoves
  <2>1. CASE RequestOpens(r) \/ Enumerate(r) \/ Abort(r)
    BY <1>1, <2>1 DEF RequestOpens, OpenEdit, OpenUntracked, OpenAsk, Opening, Enumerate, Abort
  <2>2. CASE RequestCommits(r)
    <3>1. Committing(r) /\ req[r].phase \in {"read", "untracked"}
      BY <2>2 DEF RequestCommits, CommitSilent, CommitScheduled, CommitJoined, CommitTradeoff, Asking
    <3> QED BY <1>2, <3>1
  <2> QED BY <1>3, <2>1, <2>2
<1>4. CASE Approve
  BY <1>0, <1>4 DEF Approve, WeekMoves
<1>5. ASSUME NEW w \in Workers, WorkerStep(w) \/ Crash(w) PROVE WeekMoves
  <2>1. CASE GuardCommits(w) \/ Materialize(w) \/ \E outcome \in Outcomes : Adopt(w, outcome)
    <3>1. CASE GuardCommits(w) \/ Materialize(w)
      <4>1. job[w].raised \in {0, 1} /\ (Materialize(w) \/ live' = live)
        BY <3>1 DEF GuardCommits, TypeInv, TypeOK
      <4> QED BY <1>0, <3>1, <4>1 DEF GuardCommits, Materialize, WeekMoves
    <3>2. ASSUME NEW outcome \in Outcomes, Adopt(w, outcome) PROVE WeekMoves
      <4>1. /\ inputs' = inputs
            /\ (live' = live /\ version' = version) \/ version' = version + 1
        BY <3>2 DEF Adopt
      <4> QED BY <1>0, <4>1 DEF WeekMoves
    <3> QED BY <2>1, <3>1, <3>2
  <2>2. CASE ~(GuardCommits(w) \/ Materialize(w) \/ \E outcome \in Outcomes : Adopt(w, outcome))
    BY <1>1, <1>5, <2>2
    DEF WorkerStep, Claim, LoadProfile, LoadVersion, LoadRest, AdoptTakenOver, GuardFindsNoRow,
        GuardCreates, GuardMismatch, Supersede, SupersedeTakenOver, Fail, CheckForAPlan, Crash
  <2> QED BY <2>1, <2>2
<1>6. ASSUME NEW id \in OpIds, Passing(id) PROVE WeekMoves
  BY <1>1, <1>6 DEF Passing, BecomesDue, LeaseLapses, Reap, Untouched
<1>7. CASE UNCHANGED vars
  BY <1>1, <1>7 DEF vars
<1> QED BY <1>3, <1>4, <1>5, <1>6, <1>7 DEF Next

(* A job is left alone, has just read the version or the rest, or holds no snapshot. *)
LEMMA JobStep ==
    ASSUME TypeInv, [Next]_vars, NEW w \in Workers
    PROVE  \/ job'[w] = job[w]
           \/ LoadVersion(w)
           \/ LoadRest(w)
           \/ job'[w].phase \notin {"versioned", "loaded"}
<1>0. job \in [Workers -> JobType]
  BY DEF TypeInv, TypeOK, JobType
<1>1. CASE WorkerStep(w) \/ Crash(w)
  <2>1. CASE Claim(w) \/ LoadProfile(w)
    <3>1. CASE Claim(w)
      BY <1>0, <3>1 DEF Claim, IdleJob
    <3>2. CASE LoadProfile(w)
      BY <1>0, <3>2 DEF LoadProfile, JobType
    <3> QED BY <2>1, <3>1, <3>2
  <2>2. CASE GuardFindsNoRow(w) \/ GuardCreates(w) \/ GuardMismatch(w) \/ Supersede(w)
    BY <1>0, <2>2 DEF GuardFindsNoRow, GuardCreates, GuardMismatch, Supersede, JobType
  <2>3. CASE Fail(w)
    BY <1>0, <2>3 DEF Fail, IdleJob
  <2>4. CASE CheckForAPlan(w)
    BY <1>0, <2>4 DEF CheckForAPlan, JobType
  <2>5. CASE \/ AdoptTakenOver(w) \/ SupersedeTakenOver(w) \/ GuardCommits(w) \/ Materialize(w)
             \/ Crash(w) \/ \E outcome \in Outcomes : Adopt(w, outcome)
    BY <1>0, <2>5
    DEF AdoptTakenOver, SupersedeTakenOver, GuardCommits, Materialize, Crash, Adopt, IdleJob
  <2> QED BY <1>1, <2>1, <2>2, <2>3, <2>4, <2>5 DEF WorkerStep
<1>2. ASSUME NEW other \in Workers \ {w}, WorkerStep(other) \/ Crash(other)
      PROVE  job'[w] = job[w]
  BY <1>2, JobFrame
<1>3. ASSUME ~\E v \in Workers : WorkerStep(v) \/ Crash(v) PROVE job' = job
  BY ZenonT(30), <1>3 DEF Next, RequestOpens, OpenEdit, OpenUntracked, OpenAsk, Opening, Enumerate,
      RequestCommits, CommitSilent, CommitScheduled, CommitJoined, CommitTradeoff, Committing,
      Abort, Approve, Passing, BecomesDue, LeaseLapses, Reap, Untouched, vars
<1> QED BY <1>1, <1>2, <1>3

LEMMA SnapshotInit == Init => SnapshotInv
  BY DEF Init, SnapshotInv, IdleJob

LEMMA SnapshotStep ==
    ASSUME TypeInv, LockInv, SnapshotInv, [Next]_vars
    PROVE  SnapshotInv'
<1> SUFFICES ASSUME NEW w \in Workers
             PROVE  /\ job'[w].phase \in {"versioned", "loaded"} => job'[w].version <= version'
                    /\ job'[w].phase = "loaded" /\ job'[w].version = version'
                       => job'[w].rest = inputs'.rest /\ job'[w].live = live'
  BY DEF SnapshotInv
<1>0. /\ job \in [Workers -> JobType] /\ version \in Nat /\ version' \in Nat
      /\ job[w].version \in Nat
  BY TypeStep DEF TypeInv, TypeOK, JobType
<1>1. CASE job'[w] = job[w]
  <2>1. WeekMoves
    BY WeekStep
  <2> QED BY <1>0, <1>1, <2>1 DEF SnapshotInv, WeekMoves
<1>2. CASE LoadVersion(w)
  BY <1>0, <1>2 DEF LoadVersion, JobType
<1>3. CASE LoadRest(w)
  BY <1>0, <1>3 DEF LoadRest, JobType, SnapshotInv
<1>4. CASE job'[w].phase \notin {"versioned", "loaded"}
  BY <1>4
<1> QED BY <1>1, <1>2, <1>3, <1>4, JobStep

(* The only step that takes a solve from its load to rest and changes the week or *)
(* closes its row as succeeded is the guarded transaction of that very solve.     *)
LEMMA AdoptionIsAdopt ==
    ASSUME TypeInv, [Next]_vars, NEW w \in Workers,
           job[w].phase = "loaded", job'[w].phase = "idle"
    PROVE  \/ \E outcome \in Outcomes : Adopt(w, outcome)
           \/ /\ live' = live /\ slot' = slot
              /\ ops'[job[w].op].status = ops[job[w].op].status
                 \/ ops'[job[w].op].status # "succeeded"
<1>0. job \in [Workers -> JobType]
  BY DEF TypeInv, TypeOK, JobType
<1>1. \E v \in Workers : WorkerStep(v) \/ Crash(v)
  <2>1. ASSUME ~\E v \in Workers : WorkerStep(v) \/ Crash(v) PROVE job' = job
    BY ZenonT(30), <2>1 DEF Next, RequestOpens, OpenEdit, OpenUntracked, OpenAsk, Opening, Enumerate,
        RequestCommits, CommitSilent, CommitScheduled, CommitJoined, CommitTradeoff, Committing,
        Abort, Approve, Passing, BecomesDue, LeaseLapses, Reap, Untouched, vars
  <2> QED BY <2>1
<1>2. WorkerStep(w) \/ Crash(w)
  BY <1>1, JobFrame
<1>3. CASE AdoptTakenOver(w) \/ Crash(w)
  BY <1>3 DEF AdoptTakenOver, Crash
<1>4. CASE Fail(w)
  <2>1. job[w].op \in OpIds
    BY DEF TypeInv, JobHasARow, Running
  <2>2. live' = live /\ slot' = slot
    BY <1>4 DEF Fail
  <2>3. ops[job[w].op] \in Row /\ ops \in [OpIds -> Row]
    BY <2>1 DEF TypeInv, TypeOK
  <2> QED BY <1>4, <2>1, <2>2, <2>3, FailedRowType DEF Fail
<1>5. CASE GuardFindsNoRow(w) \/ GuardMismatch(w)
  BY <1>0, <1>5 DEF GuardFindsNoRow, GuardMismatch, JobType
<1> QED BY <1>2, <1>3, <1>4, <1>5
    DEF WorkerStep, Claim, LoadProfile, LoadVersion, LoadRest, GuardCreates, Supersede,
        SupersedeTakenOver, GuardCommits, CheckForAPlan, Materialize

(* While the week is tracked, a solve is adopted only if nothing it read but the zone *)
(* profile has changed since: the guard of every adoption, by every worker.          *)
THEOREM SolveAdoptsCurrentInputs ==
    ASSUME WeekIsTracked
    PROVE  Spec => AdoptsCurrentInputs
<1> DEFINE Inv == TypeInv /\ LockInv /\ SnapshotInv
<1>1. Init => Inv
  BY TypeInit, LockInit, SnapshotInit
<1>2. Inv /\ [Next]_vars => Inv'
  BY TypeStep, LockStep, SnapshotStep
<1>3. Inv /\ [Next]_vars =>
        [\A w \in Workers : AdoptionBy(w) => job[w].rest = inputs.rest /\ job[w].live = live]_vars
  <2> SUFFICES ASSUME Inv, [Next]_vars, NEW w \in Workers, AdoptionBy(w)
               PROVE  job[w].rest = inputs.rest /\ job[w].live = live
    OBVIOUS
  <2>1. PICK outcome \in Outcomes : Adopt(w, outcome)
    BY AdoptionIsAdopt DEF AdoptionBy
  <2>2. job[w].phase = "loaded" /\ job[w].version = version
    BY <2>1 DEF Adopt, GuardMatches
  <2> QED BY <2>2 DEF SnapshotInv
<1> HIDE DEF Inv
<1> QED BY <1>1, <1>2, <1>3, PTL DEF Spec, AdoptsCurrentInputs

(* A solve that the reaper, a tradeoff or another worker took over writes nothing of the week. *)
THEOREM SolveTakenOverWritesNothing == Spec => TakenOverWritesNothing
<1>1. TypeInv /\ [Next]_vars =>
        [\A w \in Workers : job[w].phase = "loaded" /\ job'[w].phase = "idle"
                           /\ (live' # live \/ slot' # slot) => AdoptionBy(w)]_vars
  <2> SUFFICES ASSUME TypeInv, [Next]_vars, NEW w \in Workers,
                      job[w].phase = "loaded", job'[w].phase = "idle",
                      live' # live \/ slot' # slot
               PROVE  AdoptionBy(w)
    OBVIOUS
  <2>1. PICK outcome \in Outcomes : Adopt(w, outcome)
    BY AdoptionIsAdopt
  <2>2. job[w].op \in OpIds
    BY DEF TypeInv, JobHasARow, Running
  <2>3. ops[job[w].op].status = "running" /\ ops'[job[w].op].status = "succeeded"
    BY <2>1, <2>2 DEF Adopt, TypeInv, TypeOK, Row
  <2> QED BY <2>3 DEF AdoptionBy
<1> QED BY <1>1, TypeInit, TypeStep, PTL DEF Spec, TakenOverWritesNothing

=============================================================================
