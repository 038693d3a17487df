------------------------- MODULE PlanOfRecordProofs -------------------------
(***************************************************************************)
(* The solve pipeline implements the plan of record and answers the edits  *)
(* that ask, for one worker process and any number of requests, solves,    *)
(* retries and crashes.                                                    *)
(***************************************************************************)
EXTENDS SolvePipelineProofs

(* The deployment runs one worker process. *)
OneWorker == \A v, w \in Workers : v = w

(* The steps that touch the stamp of a row, or make it running or succeeded. *)
Stamped(id) ==
    \/ \E w \in Workers : Claim(w)
    \/ \E w \in Workers : LoadRest(w) /\ job[w].op = id
    \/ \E w \in Workers, outcome \in Outcomes : Adopt(w, outcome) /\ job[w].op = id

(* Every other step leaves the row's stamp alone, or leaves the row neither running *)
(* nor succeeded.                                                                   *)
Restamped(id) ==
    \/ /\ ops'[id].inputVersion = ops[id].inputVersion
       /\ ops'[id].status \in {"running", "succeeded"} => ops'[id].status = ops[id].status
       /\ ops[id].status = "succeeded" => ops'[id].status = "succeeded"
    \/ ops'[id].status \notin {"running", "succeeded"} /\ ops[id].status # "succeeded"
    \/ Stamped(id)

(* One row takes a new value: the others are as they were. *)
LEMMA RestampedOne ==
    ASSUME TypeOK, NEW at \in OpIds, NEW row, ops' = [ops EXCEPT ![at] = row],
           \/ /\ row.inputVersion = ops[at].inputVersion
              /\ row.status = ops[at].status
           \/ row.status \notin {"running", "succeeded"} /\ ops[at].status # "succeeded",
           NEW id \in OpIds
    PROVE  Restamped(id)
  BY DEF Restamped, TypeOK

(* A row is added, and one in flight may be closed by the same step. *)
LEMMA RestampedAdded ==
    ASSUME TypeOK, FreshIds # {}, NEW row, row.status = "pending",
           \/ ops' = [ops EXCEPT ![FreshId] = row]
           \/ \E old \in OpIds : Closable(old)
                /\ ops' = Superseding([ops EXCEPT ![FreshId] = row], old, FreshId),
           NEW id \in OpIds
    PROVE  Restamped(id)
<1>1. FreshId \in OpIds /\ ops[FreshId].status = "absent"
  BY FreshIdIsFresh
<1>2. CASE ops' = [ops EXCEPT ![FreshId] = row]
  BY <1>1, <1>2, RestampedOne
<1>3. ASSUME NEW old \in OpIds, Closable(old),
             ops' = Superseding([ops EXCEPT ![FreshId] = row], old, FreshId)
      PROVE  Restamped(id)
  <2>1. old # FreshId /\ ops[old].status \in NonTerminal
    BY <1>1, <1>3 DEF Closable, NonTerminal
  <2>2. ops[old] \in Row /\ ops \in [OpIds -> Row]
    BY DEF TypeOK
  <2>3. /\ ops'[old].status = "superseded"
        /\ ops'[FreshId].status = "pending"
        /\ id \notin {old, FreshId} => ops'[id] = ops[id]
    BY <1>1, <1>3, <2>1, <2>2 DEF Superseding, Row
  <2> QED BY <1>1, <2>1, <2>3 DEF Restamped, NonTerminal
<1> QED BY <1>2, <1>3

LEMMA RestampedByRequests ==
    ASSUME TypeInv, NEW r \in Requests, RequestCommits(r), NEW id \in OpIds
    PROVE  Restamped(id)
<1>0. TypeOK /\ ops \in [OpIds -> Row] /\ req \in [Requests -> ReqType]
  BY DEF TypeInv, TypeOK, ReqType
<1>1. CASE CommitSilent(r)
  BY <1>1 DEF CommitSilent, Restamped
<1>2. ASSUME NEW immediate \in BOOLEAN, CommitScheduled(r, immediate) PROVE Restamped(id)
  <2>1. FreshIds # {} /\ PendingRow(immediate, NULL, req[r].session).status = "pending"
    BY <1>2 DEF CommitScheduled, Admits, PendingRow, AbsentRow
  <2> QED BY <1>0, <1>2, <2>1, RestampedAdded DEF CommitScheduled
<1>3. ASSUME NEW immediate \in BOOLEAN, CommitJoined(r, immediate) PROVE Restamped(id)
  <2>1. req[r].seen \in OpIds
    BY <1>0, <1>3 DEF CommitJoined, ReqType
  <2>2. ops[req[r].seen] \in Row
    BY <1>0, <2>1
  <2>3. /\ Joined(ops[req[r].seen], r, immediate).status = ops[req[r].seen].status
        /\ Joined(ops[req[r].seen], r, immediate).inputVersion = ops[req[r].seen].inputVersion
    BY <2>2 DEF Joined, Row
  <2>4. ops' = [ops EXCEPT ![req[r].seen] = Joined(ops[req[r].seen], r, immediate)]
    BY <1>3 DEF CommitJoined
  <2> QED BY <1>0, <2>1, <2>3, <2>4, RestampedOne
<1>4. ASSUME NEW candidate \in Candidates, CommitTradeoff(r, candidate) PROVE Restamped(id)
  <2> DEFINE row == PendingRow(TRUE, candidate, req[r].session)
  <2>1. FreshIds # {} /\ row.status = "pending"
    BY <1>4 DEF CommitTradeoff, Admits, PendingRow, AbsentRow
  <2>2. req[r].seen \in OpIds \cup {NULL}
    BY <1>0 DEF ReqType
  <2>3. \/ ops' = [ops EXCEPT ![FreshId] = row]
        \/ \E old \in OpIds : Closable(old)
             /\ ops' = Superseding([ops EXCEPT ![FreshId] = row], old, FreshId)
    BY <1>4, <2>2 DEF CommitTradeoff, Closable
  <2> HIDE DEF row
  <2> QED BY <1>0, <2>1, <2>3, RestampedAdded
<1> QED BY <1>1, <1>2, <1>3, <1>4, RequestCommits(r) DEF RequestCommits

LEMMA RestampedByWorkers ==
    ASSUME TypeInv, NEW w \in Workers, WorkerStep(w), NEW id \in OpIds
    PROVE  Restamped(id)
<1>0. TypeOK /\ ops \in [OpIds -> Row]
  BY DEF TypeInv, TypeOK
<1>1. CASE Claim(w)
  BY <1>1 DEF Restamped, Stamped
<1>2. CASE LoadRest(w)
  <2>1. job[w].op = id => Stamped(id)
    BY <1>2 DEF Stamped
  <2>2. job[w].op # id => ops'[id] = ops[id]
    BY <1>0, <1>2 DEF LoadRest
  <2> QED BY <2>1, <2>2 DEF Restamped
<1>3. ASSUME NEW outcome \in Outcomes, Adopt(w, outcome) PROVE Restamped(id)
  <2>1. job[w].op = id => Stamped(id)
    BY <1>3 DEF Stamped
  <2>2. job[w].op # id => ops'[id] = ops[id]
    BY <1>0, <1>3 DEF Adopt
  <2> QED BY <2>1, <2>2 DEF Restamped
<1>4. CASE Supersede(w)
  <2>1. job[w].op \in OpIds
    BY <1>4 DEF Supersede, TypeInv, JobHasARow, HoldingPhases
  <2>2. FreshIds # {} /\ FollowUp(ops[job[w].op]).status = "pending"
    BY <1>4 DEF Supersede, Admits, FollowUp, PendingRow, AbsentRow
  <2>3. \E old \in OpIds : Closable(old)
          /\ ops' = Superseding([ops EXCEPT ![FreshId] = FollowUp(ops[job[w].op])], old, FreshId)
    BY <1>4, <2>1 DEF Supersede
  <2> QED BY <1>0, <2>2, <2>3, RestampedAdded
<1>5. CASE Fail(w)
  <2>1. job[w].op \in OpIds
    BY <1>5 DEF Fail, TypeInv, JobHasARow, HoldingPhases
  <2>2. ops[job[w].op] \in Row
    BY <1>0, <2>1
  <2>3. CASE ops[job[w].op].status = "running"
    <3>1. FailedRow(ops[job[w].op]).status \in {"pending", "failed"}
      BY <2>2, <2>3, FailedRowType
    <3>2. ops' = [ops EXCEPT ![job[w].op] = FailedRow(ops[job[w].op])]
      BY <1>5, <2>3 DEF Fail
    <3> QED BY <1>0, <2>1, <2>3, <3>1, <3>2, RestampedOne
  <2>4. CASE ops[job[w].op].status # "running"
    BY <1>5, <2>4 DEF Fail, Restamped
  <2> QED BY <2>3, <2>4
<1>6. CASE UNCHANGED ops
  BY <1>6 DEF Restamped
<1> QED BY <1>1, <1>2, <1>3, <1>4, <1>5, <1>6
    DEF WorkerStep, LoadProfile, LoadVersion, AdoptTakenOver, GuardFindsNoRow, GuardCreates,
        GuardMismatch, SupersedeTakenOver, GuardCommits, CheckForAPlan, Materialize

LEMMA RestampedByTime ==
    ASSUME TypeInv, NEW at \in OpIds, Passing(at), NEW id \in OpIds
    PROVE  Restamped(id)
<1>0. TypeOK /\ ops[at] \in Row
  BY DEF TypeInv, TypeOK
<1>1. CASE BecomesDue(at)
  <2>1. ops' = [ops EXCEPT ![at] = [ops[at] EXCEPT !.due = TRUE]]
    BY <1>1 DEF BecomesDue
  <2>2. /\ [ops[at] EXCEPT !.due = TRUE].status = ops[at].status
        /\ [ops[at] EXCEPT !.due = TRUE].inputVersion = ops[at].inputVersion
    BY <1>0 DEF Row
  <2> QED BY <1>0, <2>1, <2>2, RestampedOne
<1>2. CASE LeaseLapses(at)
  <2>1. ops' = [ops EXCEPT ![at] = [ops[at] EXCEPT !.lapsed = TRUE]]
    BY <1>2 DEF LeaseLapses
  <2>2. /\ [ops[at] EXCEPT !.lapsed = TRUE].status = ops[at].status
        /\ [ops[at] EXCEPT !.lapsed = TRUE].inputVersion = ops[at].inputVersion
    BY <1>0 DEF Row
  <2> QED BY <1>0, <2>1, <2>2, RestampedOne
<1>3. CASE Reap(at)
  <2>1. FailedRow(ops[at]).status \in {"pending", "failed"}
    BY <1>0, <1>3, FailedRowType DEF Reap
  <2>2. ops' = [ops EXCEPT ![at] = FailedRow(ops[at])] /\ ops[at].status = "running"
    BY <1>3 DEF Reap
  <2> QED BY <1>0, <2>1, <2>2, RestampedOne
<1> QED BY <1>1, <1>2, <1>3, Passing(at) DEF Passing

LEMMA EveryRowRestamped ==
    ASSUME TypeInv, [Next]_vars, NEW id \in OpIds
    PROVE  Restamped(id)
<1>1. CASE UNCHANGED ops
  BY <1>1 DEF Restamped
<1>2. ASSUME NEW r \in Requests, RequestOpens(r) \/ Enumerate(r) \/ Abort(r) PROVE UNCHANGED ops
  BY <1>2 DEF RequestOpens, OpenEdit, OpenUntracked, OpenAsk, Opening, Enumerate, Abort
<1>3. ASSUME NEW w \in Workers, Crash(w) PROVE UNCHANGED ops
  BY <1>3 DEF Crash
<1> QED BY <1>1, <1>2, <1>3, RestampedByRequests, RestampedByWorkers, RestampedByTime
    DEF Next, Approve, vars

-----------------------------------------------------------------------------
(* What the mapping rests on: with one worker, a loaded solve whose row is still running  *)
(* is the one that stamped it; and the plans a worker and the slot were shown exist.      *)
RecordInv ==
    /\ \A w \in Workers :
        job[w].phase = "loaded" /\ ops[job[w].op].status = "running"
            => ops[job[w].op].inputVersion = job[w].version
    /\ \A w \in Workers : job[w].phase = "loaded" /\ job[w].live # 0 => live # 0
    /\ \A w \in Workers : job[w].phase = "materializing" => live = 0
    /\ slot # NULL => live # 0

LEMMA RecordInit == Init => RecordInv
  BY DEF Init, RecordInv, IdleJob

(* How a step moves the plan, the version and the slot. *)
Moves(w) ==
    \/ \E outcome \in Outcomes : Adopt(w, outcome)
    \/ Materialize(w)
    \/ GuardCommits(w)

LEMMA WeekKept ==
    ASSUME TypeInv, [Next]_vars, ~\E w \in Workers : Moves(w), ~Approve
    PROVE  /\ UNCHANGED <<live, slot>>
           /\ version' \in {version, version + 1}
<1>1. ASSUME NEW r \in Requests, RequestOpens(r) \/ Enumerate(r) \/ RequestCommits(r) \/ Abort(r)
      PROVE  UNCHANGED <<live, slot>> /\ version' \in {version, version + 1}
  BY <1>1 DEF RequestOpens, OpenEdit, OpenUntracked, OpenAsk, Opening, Enumerate, RequestCommits,
              CommitSilent, CommitScheduled, CommitJoined, CommitTradeoff, Committing, Abort
<1>2. ASSUME NEW w \in Workers, WorkerStep(w) \/ Crash(w)
      PROVE  UNCHANGED <<live, slot, version>>
  BY <1>2 DEF WorkerStep, Moves, Claim, LoadProfile, LoadVersion, LoadRest, AdoptTakenOver,
              GuardFindsNoRow, GuardCreates, GuardMismatch, Supersede, SupersedeTakenOver, Fail,
              CheckForAPlan, Crash
<1>3. ASSUME NEW id \in OpIds, Passing(id) PROVE UNCHANGED <<live, slot, version>>
  BY <1>3 DEF Passing, BecomesDue, LeaseLapses, Reap, Untouched
<1> QED BY <1>1, <1>2, <1>3 DEF Next, vars

(* A job is left alone, or has just loaded, or is about to write the plan of last resort, *)
(* or is in neither of these phases.                                                      *)
LEMMA JobMoves ==
    ASSUME TypeInv, [Next]_vars, NEW w \in Workers
    PROVE  \/ job'[w] = job[w]
           \/ LoadRest(w)
           \/ CheckForAPlan(w) /\ live = 0
           \/ job'[w].phase \notin {"loaded", "materializing"}
<1>0. job \in [Workers -> JobType]
  BY DEF TypeInv, TypeOK, JobType
<1>1. CASE WorkerStep(w) \/ Crash(w)
  <2>1. CASE Claim(w)
    BY <1>0, <2>1 DEF Claim, IdleJob
  <2>2. CASE LoadProfile(w) \/ LoadVersion(w)
    BY <1>0, <2>2 DEF LoadProfile, LoadVersion, JobType
  <2>3. CASE GuardFindsNoRow(w) \/ GuardCreates(w) \/ GuardMismatch(w) \/ Supersede(w)
    BY <1>0, <2>3 DEF GuardFindsNoRow, GuardCreates, GuardMismatch, Supersede, JobType
  <2>4. CASE Fail(w)
    BY <1>0, <2>4 DEF Fail, IdleJob
  <2>5. CASE CheckForAPlan(w) /\ live # 0
    BY <1>0, <2>5 DEF CheckForAPlan, JobType
  <2>6. CASE \/ AdoptTakenOver(w) \/ SupersedeTakenOver(w) \/ GuardCommits(w) \/ Materialize(w)
             \/ Crash(w) \/ \E outcome \in Outcomes : Adopt(w, outcome)
    BY <1>0, <2>6
    DEF AdoptTakenOver, SupersedeTakenOver, GuardCommits, Materialize, Crash, Adopt, IdleJob
  <2> QED BY <1>1, <2>1, <2>2, <2>3, <2>4, <2>5, <2>6 DEF WorkerStep
<1>2. ASSUME NEW other \in Workers \ {w}, WorkerStep(other) \/ Crash(other)
      PROVE  job'[w] = job[w]
  BY <1>2, JobFrame
<1>3. ASSUME ~\E v \in Workers : WorkerStep(v) \/ Crash(v) PROVE job' = job
  BY <1>3 DEF Next, RequestOpens, OpenEdit, OpenUntracked, OpenAsk, Opening, Enumerate,
      RequestCommits, CommitSilent, CommitScheduled, CommitJoined, CommitTradeoff, Committing,
      Abort, Approve, Passing, BecomesDue, LeaseLapses, Reap, Untouched, vars
<1> QED BY <1>1, <1>2, <1>3

(* With one worker, a step of any worker that moves the week ends this worker's own job. *)
LEMMA MovesEndTheJob ==
    ASSUME TypeInv, OneWorker, NEW v \in Workers, Moves(v), NEW w \in Workers
    PROVE  job'[w] = IdleJob
<1>1. v = w /\ job \in [Workers -> JobType]
  BY DEF OneWorker, TypeInv, TypeOK, JobType
<1> QED BY <1>1 DEF Moves, Adopt, Materialize, GuardCommits

LEMMA StampStep ==
    ASSUME TypeInv, OneWorker, RecordInv, [Next]_vars, NEW w \in Workers,
           job'[w].phase = "loaded", ops'[job'[w].op].status = "running"
    PROVE  ops'[job'[w].op].inputVersion = job'[w].version
<1>0. /\ job \in [Workers -> JobType] /\ ops \in [OpIds -> Row]
      /\ TypeInv'
  BY TypeStep DEF TypeInv, TypeOK, JobType
<1>1. CASE LoadRest(w)
  <2>1. /\ job'[w].op = job[w].op /\ job'[w].version = job[w].version
        /\ job[w].op \in OpIds
    BY <1>0, <1>1 DEF LoadRest, JobType, TypeInv, JobHasARow, Running
  <2>2. ops[job[w].op] \in Row
    BY <1>0, <2>1
  <2>3. CASE ops[job[w].op].status = "running"
    BY <1>0, <1>1, <2>1, <2>2, <2>3 DEF LoadRest, Row
  <2>4. CASE ops[job[w].op].status # "running"
    BY <1>1, <2>1, <2>4 DEF LoadRest
  <2> QED BY <2>3, <2>4
<1>2. CASE job'[w] = job[w] /\ ~LoadRest(w)
  <2>1. job[w].op \in OpIds
    BY <1>2 DEF TypeInv, JobHasARow, Running
  <2>2. \A v \in Workers : ~Claim(v)
    BY <1>2 DEF OneWorker, Claim
  <2>3. \A v \in Workers, outcome \in Outcomes : ~Adopt(v, outcome)
    BY <1>2, MovesEndTheJob DEF Moves, IdleJob
  <2>4. ~Stamped(job[w].op)
    BY <1>2, <2>2, <2>3 DEF Stamped, OneWorker
  <2>5. Restamped(job[w].op)
    BY <2>1, EveryRowRestamped
  <2> QED BY <1>2, <2>4, <2>5 DEF Restamped, RecordInv
<1>3. CASE CheckForAPlan(w)
  BY <1>0, <1>3 DEF CheckForAPlan, JobType
<1> QED BY <1>1, <1>2, <1>3, JobMoves

LEMMA RecordStep ==
    ASSUME TypeInv, OneWorker, RecordInv, [Next]_vars
    PROVE  RecordInv'
<1>0. /\ job \in [Workers -> JobType] /\ live \in Nat /\ version \in Nat
      /\ slot \in OpIds \cup {NULL}
  BY DEF TypeInv, TypeOK, JobType
<1>1. \A w \in Workers :
        job'[w].phase = "loaded" /\ ops'[job'[w].op].status = "running"
            => ops'[job'[w].op].inputVersion = job'[w].version
  BY StampStep
<1>2. CASE \E w \in Workers : Moves(w)
  <2>1. PICK v \in Workers : Moves(v)
    BY <1>2
  <2>2. \A w \in Workers : job'[w].phase = "idle"
    BY <2>1, MovesEndTheJob DEF IdleJob
  <2>3. slot' # NULL => live' # 0
    <3>1. CASE Materialize(v) \/ GuardCommits(v)
      BY <1>0, <3>1 DEF Materialize, GuardCommits, RecordInv
    <3>2. ASSUME NEW outcome \in Outcomes, Adopt(v, outcome) PROVE slot' # NULL => live' # 0
      BY <1>0, <3>2 DEF Adopt, RecordInv
    <3> QED BY <2>1, <3>1, <3>2 DEF Moves
  <2> QED BY <1>1, <2>2, <2>3 DEF RecordInv
<1>3. CASE Approve
  <2>1. slot' = NULL /\ slot # NULL /\ live # 0 /\ live' # 0 /\ job' = job
    BY <1>0, <1>3 DEF Approve, RecordInv
  <2> QED BY <1>1, <2>1 DEF RecordInv
<1>4. CASE ~(\E w \in Workers : Moves(w)) /\ ~Approve
  <2>1. live' = live /\ slot' = slot
    BY <1>4, WeekKept
  <2>2. ASSUME NEW w \in Workers
        PROVE  /\ job'[w].phase = "loaded" /\ job'[w].live # 0 => live # 0
               /\ job'[w].phase = "materializing" => live = 0
    <3>1. CASE job'[w] = job[w]
      BY <3>1 DEF RecordInv
    <3>2. CASE LoadRest(w)
      BY <1>0, <3>2 DEF LoadRest, JobType
    <3>3. CASE CheckForAPlan(w) /\ live = 0
      BY <1>0, <3>3 DEF CheckForAPlan, JobType
    <3> QED BY <3>1, <3>2, <3>3, JobMoves
  <2> QED BY <1>1, <2>1, <2>2 DEF RecordInv
<1> QED BY <1>2, <1>3, <1>4

-----------------------------------------------------------------------------
(* The refinement. *)

(* Unless a solve is adopted, no row's answer changes. *)
LEMMA AnswersKept ==
    ASSUME TypeInv, [Next]_vars,
           ~\E w \in Workers, outcome \in Outcomes : Adopt(w, outcome)
    PROVE  Answered' = Answered
<1>1. ASSUME NEW id \in OpIds
      PROVE  /\ ops'[id].status = "succeeded" <=> ops[id].status = "succeeded"
             /\ ops[id].status = "succeeded" => ops'[id].inputVersion = ops[id].inputVersion
  <2>0. ops \in [OpIds -> Row] /\ job \in [Workers -> JobType]
    BY DEF TypeInv, TypeOK, JobType
  <2>1. CASE ~Stamped(id)
    BY <2>1, EveryRowRestamped DEF Restamped
  <2>2. ASSUME NEW w \in Workers, Claim(w)
        PROVE  /\ ops'[id].status = "succeeded" <=> ops[id].status = "succeeded"
               /\ ops[id].status = "succeeded" => ops'[id].inputVersion = ops[id].inputVersion
    <3>1. PICK at \in OpIds : /\ ops[at].status = "pending"
                              /\ ops' = [ops EXCEPT ![at].status = "running"]
      BY <2>2 DEF Claim
    <3>2. ops[at] \in Row
      BY <2>0
    <3> QED BY <2>0, <3>1, <3>2 DEF Row
  <2>3. ASSUME NEW w \in Workers, LoadRest(w)
        PROVE  /\ ops'[id].status = "succeeded" <=> ops[id].status = "succeeded"
               /\ ops[id].status = "succeeded" => ops'[id].inputVersion = ops[id].inputVersion
    <3>1. job[w].op \in OpIds
      BY <2>3 DEF LoadRest, TypeInv, JobHasARow, Running
    <3>2. ops[job[w].op] \in Row
      BY <2>0, <3>1
    <3>3. CASE ops[job[w].op].status = "running"
      BY <2>0, <2>3, <3>1, <3>2, <3>3 DEF LoadRest, Row
    <3>4. CASE ops[job[w].op].status # "running"
      BY <2>3, <3>4 DEF LoadRest
    <3> QED BY <3>3, <3>4
  <2> QED BY <2>1, <2>2, <2>3 DEF Stamped
<1> QED BY <1>1 DEF Answered

(* A guarded transaction is the answer of its own solve. *)
LEMMA AdoptAnswers ==
    ASSUME TypeInv, OneWorker, RecordInv, NULL \notin Nat,
           NEW w \in Workers, NEW outcome \in Outcomes, Adopt(w, outcome)
    PROVE  Record!Answer(job[w].op)
<1> DEFINE id == job[w].op
<1>0. /\ ops \in [OpIds -> Row] /\ id \in OpIds /\ version \in Nat
  BY DEF Adopt, TypeInv, TypeOK, JobHasARow, Running
<1>1. /\ job[w].phase = "loaded" /\ version # 0 /\ version = job[w].version
      /\ ops[id].status = "running" /\ ops[id] \in Row
  BY <1>0 DEF Adopt, GuardMatches
<1>2. ops[id].inputVersion = version
  BY <1>1 DEF RecordInv
<1>3. Answered' = [Answered EXCEPT ![id] = version]
  <2>1. /\ ops'[id].status = "succeeded" /\ ops'[id].inputVersion = version
        /\ \A other \in OpIds \ {id} : ops'[other] = ops[other]
    BY <1>0, <1>1, <1>2 DEF Adopt, Row
  <2> QED BY <1>0, <2>1 DEF Answered
<1>4. Answered[id] = NULL
  BY <1>0, <1>1 DEF Answered
<1>5. \/ UNCHANGED <<version, live, slot>>
      \/ live' = live + 1 /\ version' = version + 1 /\ slot' = slot
      \/ live # 0 /\ slot' = id /\ UNCHANGED <<version, live>>
  BY <1>1 DEF Adopt, Outcomes, RecordInv
<1> QED BY <1>0, <1>1, <1>3, <1>4, <1>5 DEF Record!Answer, Record!Append

(* Every step of the pipeline is a step of the plan of record, or leaves it alone. *)
LEMMA RecordSimulates ==
    ASSUME TypeInv, OneWorker, RecordInv, ProposalIsOfASolveThatSucceeded, NULL \notin Nat,
           [Next]_vars
    PROVE  [Record!Next]_(Record!record)
<1>0. /\ version \in Nat /\ live \in Nat /\ slot \in OpIds \cup {NULL}
      /\ ops \in [OpIds -> Row]
  BY DEF TypeInv, TypeOK
<1>1. ASSUME NEW w \in Workers, NEW outcome \in Outcomes, Adopt(w, outcome)
      PROVE  Record!Next
  <2>1. job[w].op \in OpIds
    BY <1>1 DEF Adopt, TypeInv, JobHasARow, Running
  <2> QED BY <1>1, <2>1, AdoptAnswers DEF Record!Next
<1>2. CASE ~\E w \in Workers, outcome \in Outcomes : Adopt(w, outcome)
  <2>0. Answered' = Answered
    BY <1>2, AnswersKept
  <2>1. ASSUME NEW w \in Workers, Materialize(w) PROVE Record!LastResort
    BY <2>0, <2>1 DEF Materialize, RecordInv, Record!LastResort, Record!Append
  <2>2. ASSUME NEW w \in Workers, GuardCommits(w) PROVE Record!Edit \/ UNCHANGED Record!record
    <3>1. job[w].raised \in {0, 1}
      BY DEF TypeInv, TypeOK
    <3> QED BY <1>0, <2>0, <2>2, <3>1 DEF GuardCommits, Record!Edit, Record!record
  <2>3. CASE Approve
    <3>1. Answered[slot] # NULL
      <4>1. slot \in OpIds /\ ops[slot].status = "succeeded" /\ ops[slot] \in Row
        BY <1>0, <2>3 DEF Approve, ProposalIsOfASolveThatSucceeded
      <4> QED BY <4>1 DEF Answered, Row
    <3> QED BY <2>0, <2>3, <3>1 DEF Approve, Record!Assent, Record!Append, Record!Next
  <2>4. CASE ~(\E w \in Workers : Moves(w)) /\ ~Approve
    <3>1. UNCHANGED <<live, slot>> /\ version' \in {version, version + 1}
      BY <2>4, WeekKept
    <3> QED BY <2>0, <3>1 DEF Record!Edit, Record!record, Record!Next
  <2> QED BY <1>2, <2>1, <2>2, <2>3, <2>4 DEF Moves, Record!Next
<1> QED BY <1>1, <1>2

(* For one worker process, whatever the requests, the retries, the crashes and the sweeps: *)
(* every solve that succeeds answers the week as it is, in one step and once, and the plan *)
(* moves by such an answer, by an assent to a proposal on offer, or as a week's first.     *)
THEOREM SolveImplementsPlanOfRecord ==
    ASSUME OneWorker, NULL \notin Nat
    PROVE  Spec => ImplementsPlanOfRecord
<1>1. Init => Record!Init
  BY BoundsAssumption DEF Init, Record!Init, Answered, AbsentRow
<1>2. TypeInv /\ RecordInv /\ [Next]_vars => RecordInv'
  BY RecordStep
<1>3. TypeInv /\ RecordInv /\ RowsInv /\ [Next]_vars => [Record!Next]_(Record!record)
  BY RecordSimulates DEF RowsInv
<1>4. Spec => [](TypeInv /\ RowsInv)
  BY RowsAlways
<1>5. Spec => []RecordInv
  BY <1>2, <1>4, RecordInit, PTL DEF Spec
<1> QED BY <1>1, <1>3, <1>4, <1>5, PTL DEF Spec, ImplementsPlanOfRecord, Record!Spec

(* With one worker process the plan of last resort is the first plan of its week: nothing *)
(* appends one between the worker's check and its write.                                   *)
THEOREM SolveLastResortIsFirst ==
    ASSUME OneWorker
    PROVE  Spec => LastResortNeverDisplacesAPlan
<1>1. TypeInv /\ RecordInv /\ [Next]_vars => RecordInv'
  BY RecordStep
<1>2. RecordInv /\ [Next]_vars =>
        [\A w \in Workers : job[w].phase = "materializing" /\ live' # live => live = 0]_vars
  BY DEF RecordInv
<1>3. Spec => [](TypeInv /\ RowsInv)
  BY RowsAlways
<1> QED BY <1>1, <1>2, <1>3, RecordInit, PTL DEF Spec, LastResortNeverDisplacesAPlan

-----------------------------------------------------------------------------
(* The edit that asked is answered. *)

(* While an edit that saw a solve in flight holds the version row, nothing is adopted: the    *)
(* queue it will join can empty only by a solve that fails for good.                          *)
AnswerInv ==
    /\ owed.version <= version
    /\ owed.failed \subseteq FailedIds
    /\ \A r \in Requests :
        /\ req[r].failed \subseteq FailedIds
        /\ held = r /\ req[r].seen # NULL => InFlight # {} \/ FailedIds # req[r].failed
    /\ AskIsAnswered

LEMMA AnswerInit == Init => AnswerInv
  BY SetsAssumption, BoundsAssumption DEF Init, AnswerInv, AskIsAnswered, IdleReq

(* What a solve that succeeded read is not forgotten. *)
LEMMA SucceededKept ==
    ASSUME TypeInv, [Next]_vars, NEW id \in OpIds, ops[id].status = "succeeded"
    PROVE  ops'[id].status = "succeeded" /\ ops'[id].inputVersion = ops[id].inputVersion
<1>0. ops \in [OpIds -> Row] /\ TypeInv'
  BY TypeStep DEF TypeInv, TypeOK
<1>1. ops'[id].status = "succeeded"
  BY EveryRowsStep, TerminalStep DEF Terminal
<1>2. ASSUME NEW w \in Workers, NEW outcome \in Outcomes, Adopt(w, outcome)
      PROVE  ops'[id].inputVersion = ops[id].inputVersion
  <2>1. job[w].op # id /\ job[w].op \in OpIds
    BY <1>2 DEF Adopt, TypeInv, JobHasARow, Running
  <2> QED BY <1>0, <1>2, <2>1 DEF Adopt
<1>3. CASE ~\E w \in Workers, outcome \in Outcomes : Adopt(w, outcome)
  <2>1. Answered'[id] = Answered[id]
    BY <1>3, AnswersKept
  <2> QED BY <1>1, <2>1 DEF Answered
<1> QED BY <1>1, <1>2, <1>3

LEMMA FailedGrow ==
    ASSUME TypeInv, [Next]_vars
    PROVE  FailedIds \subseteq FailedIds'
BY EveryRowsStep, TerminalStep DEF FailedIds, Terminal

(* Only an adoption or a failure for good empties the queue: every other close leaves a       *)
(* successor in it.                                                                           *)
LEMMA QueueEmptied ==
    ASSUME TypeInv, [Next]_vars, InFlight # {}, InFlight' = {}
    PROVE  \/ \E w \in Workers, outcome \in Outcomes : Adopt(w, outcome)
           \/ FailedIds' # FailedIds
<1>1. PICK id \in OpIds : RowMoved(id) /\ ops'[id].status \in {"succeeded", "failed"}
  <2>1. ~\A id \in OpIds : RowKept(id)
    BY DEF RowKept, InFlight
  <2>2. \A new \in OpIds : ~RowAdded(new)
    BY DEF RowAdded, InFlight, NonTerminal
  <2>3. \A new, old \in OpIds : ~RowReplaced(new, old)
    BY DEF RowReplaced, InFlight, NonTerminal
  <2>4. PICK id \in OpIds : RowMoved(id)
    BY <2>1, <2>2, <2>3, EveryRowsStep DEF RowsStep
  <2>5. ops'[id].status \notin NonTerminal
    BY DEF InFlight
  <2> QED BY <2>4, <2>5 DEF RowMoved, LegalMoves, NonTerminal
<1>2. CASE ops'[id].status = "failed"
  BY <1>1, <1>2 DEF RowMoved, LegalMoves, FailedIds
<1>3. CASE ops'[id].status = "succeeded"
  <2>1. Stamped(id)
    BY <1>1, <1>3, EveryRowRestamped DEF Restamped, RowMoved, LegalMoves
  <2>2. \A w \in Workers : ~Claim(w)
    <3> SUFFICES ASSUME NEW w \in Workers, Claim(w) PROVE FALSE
      OBVIOUS
    <3>1. PICK at \in OpIds : ops' = [ops EXCEPT ![at].status = "running"]
      BY DEF Claim
    <3>2. ops'[at].status = "running"
      BY <3>1 DEF TypeInv, TypeOK, Row
    <3> QED BY <3>2 DEF InFlight, NonTerminal
  <2>3. \A w \in Workers : ~LoadRest(w)
    <3> SUFFICES ASSUME NEW w \in Workers, LoadRest(w) PROVE FALSE
      OBVIOUS
    <3>1. job[w].op \in OpIds
      BY DEF LoadRest, TypeInv, JobHasARow, Running
    <3>2. ops'[id].status = ops[id].status
      BY <3>1 DEF LoadRest, TypeInv, TypeOK, Row
    <3> QED BY <1>1, <3>2 DEF RowMoved, LegalMoves
  <2> QED BY <2>1, <2>2, <2>3 DEF Stamped
<1> QED BY <1>1, <1>2, <1>3

LEMMA VersionGrows ==
    ASSUME TypeInv, [Next]_vars
    PROVE  version' >= version
<1>0. version \in Nat
  BY DEF TypeInv, TypeOK
<1>1. ASSUME NEW w \in Workers, Moves(w) PROVE version' >= version
  <2>1. job[w].raised \in {0, 1}
    BY DEF TypeInv, TypeOK
  <2> QED BY <1>0, <1>1, <2>1 DEF Moves, Adopt, Materialize, GuardCommits
<1>2. CASE Approve
  BY <1>0, <1>2 DEF Approve
<1> QED BY <1>0, <1>1, <1>2, WeekKept

(* What is owed changes with the commit of an edit that asked and held the row: it left a row *)
(* in the queue, or joined what it had seen there.                                            *)
LEMMA OwedMoves ==
    ASSUME TypeInv, [Next]_vars
    PROVE  \/ owed' = owed
           \/ \E r \in Requests :
                /\ held = r
                /\ owed'.version = version' /\ owed'.failed = req[r].failed
                /\ \/ InFlight' # {}
                   \/ req[r].seen # NULL /\ \A id \in OpIds : ops'[id].status = ops[id].status
<1>0. TypeOK /\ ops \in [OpIds -> Row] /\ req \in [Requests -> ReqType]
  BY DEF TypeInv, TypeOK, ReqType
<1>1. ASSUME NEW r \in Requests, NEW immediate \in BOOLEAN, CommitScheduled(r, immediate), held = r
      PROVE  InFlight' # {} /\ owed'.version = version' /\ owed'.failed = req[r].failed
  <2>1. FreshId \in OpIds
    BY <1>1, FreshIdIsFresh DEF CommitScheduled, Admits
  <2>2. ops'[FreshId].status = "pending"
    BY <1>0, <1>1, <2>1 DEF CommitScheduled, PendingRow, AbsentRow
  <2>3. owed'.version = version' /\ owed'.failed = req[r].failed
    BY <1>1 DEF CommitScheduled, Owing, Committing
  <2> QED BY <2>1, <2>2, <2>3 DEF InFlight, NonTerminal
<1>2. ASSUME NEW r \in Requests, NEW immediate \in BOOLEAN, CommitJoined(r, immediate), held = r
      PROVE  /\ req[r].seen # NULL /\ \A id \in OpIds : ops'[id].status = ops[id].status
             /\ owed'.version = version' /\ owed'.failed = req[r].failed
  <2>1. req[r].seen # NULL /\ req[r].seen \in OpIds
    BY <1>0, <1>2 DEF CommitJoined, ReqType
  <2>2. ops' = [ops EXCEPT ![req[r].seen] = Joined(ops[req[r].seen], r, immediate)]
    BY <1>2 DEF CommitJoined
  <2>3. Joined(ops[req[r].seen], r, immediate).status = ops[req[r].seen].status
    BY <1>0, <2>1, JoinedType
  <2>4. owed'.version = version' /\ owed'.failed = req[r].failed
    BY <1>2 DEF CommitJoined, Owing, Committing
  <2> QED BY <1>0, <2>1, <2>2, <2>3, <2>4
<1>3. ASSUME NEW r \in Requests, NEW immediate \in BOOLEAN,
             CommitScheduled(r, immediate) \/ CommitJoined(r, immediate), held # r
      PROVE  owed' = owed
  BY <1>3 DEF CommitScheduled, CommitJoined, Owing
<1>4. ASSUME NEW r \in Requests,
             \/ RequestOpens(r) \/ Enumerate(r) \/ Abort(r) \/ CommitSilent(r)
             \/ \E candidate \in Candidates : CommitTradeoff(r, candidate)
      PROVE  owed' = owed
  BY <1>4 DEF RequestOpens, OpenEdit, OpenUntracked, OpenAsk, Opening, Enumerate, Abort, CommitSilent,
              CommitTradeoff
<1>5. ASSUME NEW w \in Workers, WorkerStep(w) \/ Crash(w) PROVE owed' = owed
  BY <1>5 DEF WorkerStep, Claim, LoadProfile, LoadVersion, LoadRest, Adopt, AdoptTakenOver,
      GuardFindsNoRow, GuardCreates, GuardMismatch, Supersede, SupersedeTakenOver, GuardCommits, Fail,
      CheckForAPlan, Materialize, Crash
<1>6. ASSUME NEW id \in OpIds, Passing(id) PROVE owed' = owed
  BY <1>6 DEF Passing, BecomesDue, LeaseLapses, Reap, Untouched
<1>7. CASE Approve \/ UNCHANGED vars
  BY <1>7 DEF Approve, vars
<1> QED BY <1>1, <1>2, <1>3, <1>4, <1>5, <1>6, <1>7 DEF Next, RequestCommits

(* A request remembers what had failed when it read the queue. *)
LEMMA RequestMoves ==
    ASSUME TypeInv, [Next]_vars, NEW r \in Requests
    PROVE  \/ req'[r] = req[r] /\ (held' = r => held = r)
           \/ req'[r].seen = NULL /\ req'[r].failed \subseteq FailedIds
           \/ /\ req'[r].failed = FailedIds /\ ops' = ops
              /\ req'[r].seen # NULL => InFlight # {}
<1>0. /\ req \in [Requests -> ReqType] /\ r # NULL /\ \A w \in Workers : w # r
  BY SetsAssumption DEF TypeInv, TypeOK, ReqType
<1>1. ASSUME NEW q \in Requests, NEW kind, NEW session, ReadInFlight(q, kind, session), q # r
      PROVE  req'[r] = req[r]
  BY <1>0, <1>1 DEF ReadInFlight
<1>2. ASSUME NEW kind, NEW session, ReadInFlight(r, kind, session)
      PROVE  req'[r].failed = FailedIds /\ (req'[r].seen # NULL => InFlight # {})
  BY <1>0, <1>2 DEF ReadInFlight, TheInFlight
<1>3. CASE RequestOpens(r) \/ Enumerate(r)
  <2>1. CASE \E kind, session : ReadInFlight(r, kind, session)
    BY <1>2, <1>3, <2>1 DEF RequestOpens, OpenEdit, OpenUntracked, OpenAsk, Opening, Enumerate
  <2>2. CASE ~\E kind, session : ReadInFlight(r, kind, session)
    BY <1>0, <1>3, <2>2 DEF RequestOpens, OpenEdit, OpenUntracked, OpenAsk, Enumerate, IdleReq
  <2> QED BY <2>1, <2>2
<1>4. CASE RequestCommits(r) \/ Abort(r)
  <2>1. req' = [req EXCEPT ![r] = IdleReq]
    BY <1>4 DEF RequestCommits, CommitSilent, CommitScheduled, CommitJoined, CommitTradeoff, Committing,
                Abort
  <2> QED BY <1>0, <2>1 DEF IdleReq
<1>5. ASSUME NEW q \in Requests, q # r,
             RequestOpens(q) \/ Enumerate(q) \/ RequestCommits(q) \/ Abort(q)
      PROVE  req'[r] = req[r] /\ (held' = r => held = r)
  <2>1. CASE RequestOpens(q) \/ Enumerate(q)
    <3>1. (held' = r => held = r)
      BY <1>5, <2>1 DEF RequestOpens, OpenEdit, OpenUntracked, OpenAsk, Enumerate
    <3>2. req'[r] = req[r]
      BY <1>0, <1>1, <1>5, <2>1 DEF RequestOpens, OpenEdit, OpenUntracked, OpenAsk, Enumerate
    <3> QED BY <3>1, <3>2
  <2>2. CASE RequestCommits(q) \/ Abort(q)
    <3>1. req' = [req EXCEPT ![q] = IdleReq] /\ held' = IF held = q THEN NULL ELSE held
      BY <2>2 DEF RequestCommits, CommitSilent, CommitScheduled, CommitJoined, CommitTradeoff, Committing,
                  Abort
    <3> QED BY <1>0, <1>5, <3>1
  <2> QED BY <1>5, <2>1, <2>2
<1>6. ASSUME NEW w \in Workers, WorkerStep(w) \/ Crash(w)
      PROVE  req' = req /\ (held' = r => held = r)
  BY <1>0, <1>6 DEF WorkerStep, Claim, LoadProfile, LoadVersion, LoadRest, Adopt, AdoptTakenOver,
      GuardFindsNoRow, GuardCreates, GuardMismatch, Supersede, SupersedeTakenOver, GuardCommits, Fail,
      CheckForAPlan, Materialize, Crash
<1>7. ASSUME NEW id \in OpIds, Passing(id) PROVE req' = req /\ held' = held
  BY <1>7 DEF Passing, BecomesDue, LeaseLapses, Reap, Untouched
<1>8. CASE Approve \/ UNCHANGED vars
  BY <1>8 DEF Approve, vars
<1> QED BY <1>3, <1>4, <1>5, <1>6, <1>7, <1>8 DEF Next

LEMMA AnswerStep ==
    ASSUME TypeInv, RecordInv, AnswerInv, [Next]_vars
    PROVE  AnswerInv'
<1>0. /\ version \in Nat /\ version' \in Nat /\ owed.version \in Nat
      /\ FailedIds \subseteq FailedIds' /\ version' >= version
  BY TypeStep, FailedGrow, VersionGrows DEF TypeInv, TypeOK
<1>1. owed'.version <= version' /\ owed'.failed \subseteq FailedIds'
  BY <1>0, OwedMoves DEF AnswerInv
<1>2. ASSUME NEW r \in Requests
      PROVE  /\ req'[r].failed \subseteq FailedIds'
             /\ held' = r /\ req'[r].seen # NULL => InFlight' # {} \/ FailedIds' # req'[r].failed
  <2>1. CASE req'[r] = req[r] /\ (held' = r => held = r)
    <3>1. req[r].failed \subseteq FailedIds
      BY DEF AnswerInv
    <3>2. ASSUME held = r, req[r].seen # NULL, InFlight' = {}, FailedIds' = req[r].failed PROVE FALSE
      <4>1. FailedIds' = FailedIds
        BY <1>0, <3>1, <3>2
      <4>2. InFlight # {}
        BY <3>2, <4>1 DEF AnswerInv
      <4>3. held = NULL
        BY <3>2, <4>1, <4>2, QueueEmptied DEF Adopt
      <4> QED BY <3>2, <4>3, SetsAssumption
    <3> QED BY <1>0, <2>1, <3>1, <3>2
  <2>2. CASE req'[r].seen = NULL /\ req'[r].failed \subseteq FailedIds
    BY <1>0, <2>2
  <2>3. CASE /\ req'[r].failed = FailedIds /\ ops' = ops
             /\ req'[r].seen # NULL => InFlight # {}
    BY <1>0, <2>3 DEF InFlight
  <2> QED BY <2>1, <2>2, <2>3, RequestMoves
<1>3. AskIsAnswered'
  <2> SUFFICES ASSUME InFlight' = {}, FailedIds' = owed'.failed, owed'.version # 0
               PROVE  \E id \in OpIds : /\ ops'[id].status = "succeeded"
                                        /\ ops'[id].inputVersion >= owed'.version
    BY DEF AskIsAnswered
  <2>1. owed' = owed
    <3> SUFFICES ASSUME NEW r \in Requests, held = r, owed'.failed = req[r].failed,
                        req[r].seen # NULL, \A id \in OpIds : ops'[id].status = ops[id].status
                 PROVE  FALSE
      BY OwedMoves
    <3>1. InFlight = {} /\ FailedIds' = FailedIds
      BY DEF InFlight, FailedIds
    <3> QED BY <3>1 DEF AnswerInv
  <2>2. FailedIds' = FailedIds /\ FailedIds = owed.failed
    BY <1>0, <2>1 DEF AnswerInv
  <2>3. CASE InFlight = {}
    <3>1. PICK id \in OpIds : ops[id].status = "succeeded" /\ ops[id].inputVersion >= owed.version
      BY <2>1, <2>2, <2>3 DEF AnswerInv, AskIsAnswered
    <3> QED BY <2>1, <3>1, SucceededKept
  <2>4. CASE InFlight # {}
    <3>1. PICK w \in Workers, outcome \in Outcomes : Adopt(w, outcome)
      BY <2>2, <2>4, QueueEmptied
    <3>2. /\ job[w].op \in OpIds /\ ops[job[w].op].status = "running"
          /\ ops[job[w].op].inputVersion = version
      BY <3>1 DEF Adopt, GuardMatches, RecordInv, TypeInv, JobHasARow, Running
    <3>3. ops'[job[w].op].status = "succeeded" /\ ops'[job[w].op].inputVersion = version
      BY <3>1, <3>2 DEF Adopt, TypeInv, TypeOK, Row
    <3> QED BY <1>0, <2>1, <3>2, <3>3 DEF AnswerInv
  <2> QED BY <2>3, <2>4
<1> QED BY <1>1, <1>2, <1>3 DEF AnswerInv

(* An edit that asks is answered whatever races it: joined to a running solve or to one that   *)
(* ends before it commits, replaced by a tradeoff, reaped, retried or superseded, the queue    *)
(* does not empty without a solve of inputs that hold the edit, unless one fails for good      *)
(* (coordinator.py, request_solve; dispatch.py, _adopted).  For one worker process, and in     *)
(* weeks that are not tracked as well.                                                         *)
THEOREM SolveAskIsAnswered ==
    ASSUME OneWorker
    PROVE  Spec => []AskIsAnswered
<1>1. TypeInv /\ RecordInv /\ [Next]_vars => RecordInv'
  BY RecordStep
<1>2. TypeInv /\ RecordInv /\ AnswerInv /\ [Next]_vars => AnswerInv'
  BY AnswerStep
<1>3. Spec => [](TypeInv /\ RowsInv)
  BY RowsAlways
<1>4. AnswerInv => AskIsAnswered
  BY DEF AnswerInv
<1> QED BY <1>1, <1>2, <1>3, <1>4, RecordInit, AnswerInit, PTL DEF Spec

=============================================================================
