---------------------------- MODULE SolvePipeline ----------------------------
(***************************************************************************)
(* The solve pipeline of one tenant's week: the requests that change the   *)
(* week's inputs and ask for a solve, the single-flight coordinator, the   *)
(* worker that claims, loads, solves and writes under the week's input     *)
(* version, the retry and last-resort paths, and the lease reaper.         *)
(*                                                                         *)
(* One step is one database statement group that no other transaction can *)
(* see the middle of.  PostgreSQL runs the code's transactions at READ     *)
(* COMMITTED, so a transaction that reads and then writes is several steps *)
(* here, unless the week's version row is held across all of them.         *)
(*                                                                         *)
(* Simplified:                                                             *)
(*  - what a solve computes is a choice among the three writes adoption    *)
(*    can make of it (PlanAuthority models the documents themselves);      *)
(*  - instants are what is compared: a pending row is due or not yet, a    *)
(*    running row's lease has lapsed or not;                               *)
(*  - an input is a count of the committed changes to it, so two reads     *)
(*    are equal exactly when nothing was committed between them.           *)
(***************************************************************************)
EXTENDS Naturals, FiniteSets

CONSTANTS
    OpIds,        \* identifiers a SOLVE row can take; also the bound on rows
    Requests,     \* the api's concurrent transactions
    Workers,      \* worker processes (the deployment runs one)
    Candidates,   \* concessions a tradeoff request can carry
    Sessions,     \* what callers state about the weekly session: a subset of BOOLEAN
    Kinds,        \* which kinds of request arrive: a subset of AllKinds
    NULL,
    MaxAttempts,  \* MAX_ATTEMPTS
    FirstVersion, \* 0: the week starts with no version row; 1: it is tracked
    FirstPlan,    \* 0: the week starts with no plan; 1: it has a plan of record
    MaxOpened,    \* bound: requests opened in a behaviour
    MaxCrashes    \* bound: worker crashes in a behaviour

AllKinds == {"pin", "task", "review", "zone", "resolve", "tradeoff"}

ASSUME SetsAssumption ==
    /\ Sessions \subseteq BOOLEAN
    /\ Kinds \subseteq AllKinds
    /\ Requests \cap Workers = {}
    /\ NULL \notin OpIds \cup Requests \cup Workers \cup Candidates

ASSUME BoundsAssumption ==
    /\ MaxAttempts \in Nat \ {0}
    /\ FirstVersion \in Nat
    /\ FirstPlan \in Nat
    /\ MaxOpened \in Nat
    /\ MaxCrashes \in Nat

VARIABLES
    inputs,   \* committed changes: [profile: zone settings, rest: everything else]
    version,  \* the week's input version row; 0 when there is none
    live,     \* the latest plan revision; 0 when the week holds no plan
    slot,     \* the operation whose proposal awaits assent, or NULL
    ops,      \* the operations table, SOLVE rows only
    held,     \* which transaction holds the version row, or NULL
    job,      \* what each worker is doing
    req,      \* what each api transaction is doing
    owed,     \* history: the newest committed edit that asked for a solve
    spent     \* bounds used: [opened, crashes]

vars == <<inputs, version, live, slot, ops, held, job, req, owed, spent>>

-----------------------------------------------------------------------------
(* Rows of the operations table. *)

NonTerminal == {"pending", "running"}
Terminal == {"succeeded", "failed", "superseded"}
Statuses == {"absent"} \cup NonTerminal \cup Terminal

Row == [status: Statuses,
        candidate: Candidates \cup {NULL},
        session: BOOLEAN,
        due: BOOLEAN,
        lapsed: BOOLEAN,
        attempt: Nat,
        inputVersion: Nat,
        supersededBy: OpIds \cup {NULL},
        recorded: BOOLEAN \cup {NULL}]

AbsentRow == [status |-> "absent", candidate |-> NULL, session |-> FALSE,
              due |-> FALSE, lapsed |-> FALSE, attempt |-> 0, inputVersion |-> 0,
              supersededBy |-> NULL, recorded |-> NULL]

PendingRow(due, candidate, session) ==
    [AbsentRow EXCEPT !.status = "pending", !.due = due, !.candidate = candidate,
                      !.session = session, !.attempt = 1]

InFlight == {id \in OpIds : ops[id].status \in NonTerminal}
TheInFlight == IF InFlight = {} THEN NULL ELSE CHOOSE id \in InFlight : TRUE

FreshIds == {id \in OpIds : ops[id].status = "absent"}
FreshId == CHOOSE id \in FreshIds : TRUE

(* The follow-up of a supersession: due now, with what the discarded solve was asked. *)
FollowUpDroppingTheCandidate(old) == PendingRow(TRUE, NULL, old.session)   \* a mutation
FollowUp(old) == PendingRow(TRUE, old.candidate, old.session)

(* The partial unique index admits an insert when no row is in flight but those *)
(* this transaction has closed.                                                 *)
AdmitsARival(closed) == FreshIds # {}   \* a mutation: the index is not there
Admits(closed) == FreshIds # {} /\ InFlight \subseteq closed

(* A write that closes `old` and names `new`, already inserted, as its successor. *)
Superseding(rows, old, new) ==
    [rows EXCEPT ![old] = [@ EXCEPT !.status = "superseded", !.lapsed = FALSE,
                                    !.supersededBy = new]]

(* The failure step: back to the queue behind its backoff while an attempt is left. *)
FailedRow(row) ==
    IF row.attempt < MaxAttempts
    THEN [row EXCEPT !.status = "pending", !.due = FALSE, !.lapsed = FALSE,
                     !.attempt = @ + 1]
    ELSE [row EXCEPT !.status = "failed", !.lapsed = FALSE]

FailedIds == {id \in OpIds : ops[id].status = "failed"}

-----------------------------------------------------------------------------
(* What a transaction remembers between its statements. *)

(* A request: what it asks, what it read of the row in flight, and (history)  *)
(* the solves that had already failed for good when it opened.                *)
IdleReq == [phase |-> "idle", kind |-> "resolve", session |-> FALSE,
            seen |-> NULL, seenStatus |-> "absent", failed |-> {}]

(* A worker: the claimed row, what it said of the session when it was claimed, *)
(* what has been read of the week so far, and by how much its open transaction *)
(* has raised the version row.                                                *)
IdleJob == [phase |-> "idle", op |-> NULL, session |-> FALSE,
            profile |-> 0, version |-> 0, rest |-> 0, live |-> 0, raised |-> 0]

ReqPhases == {"idle", "untracked", "read"}
Running == {"claimed", "profiled", "versioned", "loaded", "creating"}
HoldingPhases == {"superseding", "closed"}
JobPhases == {"idle", "spent", "materializing"} \cup Running \cup HoldingPhases

Locking == {"pin", "task", "review", "zone"}   \* requests that change inputs, and bump
TrackedOnly == {"task", "review", "zone"}      \* ... enumerating the weeks that have a row

Init ==
    /\ inputs = [profile |-> 0, rest |-> 0]
    /\ version = FirstVersion
    /\ live = FirstPlan
    /\ slot = NULL
    /\ ops = [id \in OpIds |-> AbsentRow]
    /\ held = NULL
    /\ job = [w \in Workers |-> IdleJob]
    /\ req = [r \in Requests |-> IdleReq]
    /\ owed = [version |-> 0, failed |-> {}, by |-> NULL, attempt |-> 0]
    /\ spent = [opened |-> 0, crashes |-> 0]

-----------------------------------------------------------------------------
(* Requests.  A request opens by making its edit and its bump, which takes  *)
(* the version row until it commits, and by reading the row in flight; its  *)
(* second step is its remaining writes and its commit.                      *)

ReadInFlight(r, kind, session) ==
    req' = [req EXCEPT ![r] =
        [phase |-> "read", kind |-> kind, session |-> session, seen |-> TheInFlight,
         seenStatus |-> IF InFlight = {} THEN "absent" ELSE ops[TheInFlight].status,
         failed |-> FailedIds]]

Opening(r) ==
    /\ req[r].phase = "idle"
    /\ spent.opened < MaxOpened
    /\ spent' = [spent EXCEPT !.opened = @ + 1]
    /\ UNCHANGED <<inputs, version, live, slot, ops, job, owed>>

(* bump(week): one statement, which waits for the row and then holds it. *)
OpenEdit(r, kind, session) ==
    /\ kind \in Kinds \cap Locking
    /\ kind \in TrackedOnly => version # 0
    /\ Opening(r)
    /\ held = NULL
    /\ held' = r
    /\ ReadInFlight(r, kind, session)

(* tracked_weeks() names no row for this week: the edit is made, nothing is bumped. *)
OpenUntracked(r, kind, session) ==
    /\ kind \in Kinds \cap TrackedOnly
    /\ version = 0
    /\ Opening(r)
    /\ req' = [req EXCEPT ![r] = [IdleReq EXCEPT !.phase = "untracked", !.kind = kind,
                                                 !.session = session, !.failed = FailedIds]]
    /\ UNCHANGED held

(* The re-solve control and the tradeoff request change no input and take no row. *)
OpenAsk(r, kind, session) ==
    /\ kind \in Kinds \ Locking
    /\ kind = "tradeoff" => live # 0
    /\ Opening(r)
    /\ ReadInFlight(r, kind, session)
    /\ UNCHANGED held

(* The weeks to ask about are enumerated a second time, after the bump's own read. *)
Enumerate(r) ==
    /\ req[r].phase = "untracked"
    /\ version # 0
    /\ req[r].kind # "review"
    /\ ReadInFlight(r, req[r].kind, req[r].session)
    /\ UNCHANGED <<inputs, version, live, slot, ops, held, job, owed, spent>>

Edited(kind) ==
    IF kind = "zone" THEN [inputs EXCEPT !.profile = @ + 1]
    ELSE IF kind \in Locking THEN [inputs EXCEPT !.rest = @ + 1]
    ELSE inputs

(* The commit of r: the edit lands together with its bump, if r made one. *)
Committing(r) ==
    /\ inputs' = Edited(req[r].kind)
    /\ version' = IF held = r THEN version + 1 ELSE version
    /\ held' = IF held = r THEN NULL ELSE held
    /\ req' = [req EXCEPT ![r] = IdleReq]
    /\ UNCHANGED <<live, slot, job, spent>>

(* History: a committed bump that asked is owed an answer; `by` is a running row it joined. *)
Owing(r, by, attempt) ==
    owed' = IF held = r
            THEN [version |-> version + 1, failed |-> req[r].failed,
                  by |-> by, attempt |-> attempt]
            ELSE owed

(* An edit that asks for nothing, or whose second enumeration found no tracked week *)
(* either (Enumerate is the one that finds it): a row may have come since.          *)
CommitSilent(r) ==
    /\ \/ req[r].phase = "read" /\ req[r].kind = "review"
       \/ req[r].phase = "untracked"
    /\ Committing(r)
    /\ UNCHANGED <<ops, owed>>

Asking(r) == req[r].phase = "read" /\ req[r].kind # "review"

(* _scheduled: the week's first solve, due now or at the end of the window.  *)
CommitScheduled(r, immediate) ==
    /\ Asking(r)
    /\ req[r].kind # "tradeoff" /\ req[r].seen = NULL
    /\ immediate => req[r].kind = "resolve"
    /\ Admits({})
    /\ ops' = [ops EXCEPT ![FreshId] = PendingRow(immediate, NULL, req[r].session)]
    /\ Owing(r, NULL, 0)
    /\ Committing(r)

(* _joined: the row as it was read decides, the row as it is now takes the writes. *)
Joined(row, r, immediate) ==
    LET flags == req[r].session /\ ~row.session
        mayMove == /\ flags \/ req[r].seenStatus = "pending"
                   /\ row.status = "pending" /\ row.candidate = NULL
    IN  [row EXCEPT !.session = @ \/ req[r].session,
                    !.due = @ \/ (immediate /\ mayMove)]

CommitJoined(r, immediate) ==
    /\ Asking(r)
    /\ req[r].kind # "tradeoff" /\ req[r].seen # NULL
    /\ immediate => req[r].kind = "resolve"
    /\ ops' = [ops EXCEPT ![req[r].seen] = Joined(@, r, immediate)]
    /\ IF ops[req[r].seen].status = "running"
       THEN Owing(r, req[r].seen, ops[req[r].seen].attempt)
       ELSE Owing(r, NULL, 0)
    /\ Committing(r)

(* _for_a_candidate: close what was read in flight if it is still open, and replace it. *)
ClosableWhateverItBecame(id) == id # NULL   \* a mutation: the write has no WHERE on the status
Closable(id) == id # NULL /\ ops[id].status \in NonTerminal

CommitTradeoff(r, candidate) ==
    /\ Asking(r)
    /\ req[r].kind = "tradeoff"
    /\ Admits({req[r].seen})
    /\ LET old == req[r].seen
           rows == [ops EXCEPT ![FreshId] = PendingRow(TRUE, candidate, req[r].session)]
       IN  ops' = IF Closable(old) THEN Superseding(rows, old, FreshId) ELSE rows
    /\ UNCHANGED owed
    /\ Committing(r)

(* The partial unique index refuses the insert of a second row in flight, or the  *)
(* connection is lost: everything the request wrote is rolled back.               *)
Abort(r) ==
    /\ req[r].phase # "idle"
    /\ held' = IF held = r THEN NULL ELSE held
    /\ req' = [req EXCEPT ![r] = IdleReq]
    /\ UNCHANGED <<inputs, version, live, slot, ops, job, owed, spent>>

(* approve(): the version row is held before the slot is read, so it is one step. *)
Approve ==
    /\ held = NULL
    /\ slot # NULL
    /\ live' = live + 1
    /\ version' = version + 1
    /\ inputs' = IF ops[slot].candidate = NULL THEN inputs
                 ELSE [inputs EXCEPT !.rest = @ + 1]
    /\ slot' = NULL
    /\ UNCHANGED <<ops, held, job, req, owed, spent>>

RequestCommits(r) ==
    \/ CommitSilent(r)
    \/ \E immediate \in BOOLEAN : CommitScheduled(r, immediate) \/ CommitJoined(r, immediate)
    \/ \E candidate \in Candidates : CommitTradeoff(r, candidate)

RequestOpens(r) ==
    \E kind \in Kinds, session \in Sessions :
        \/ OpenEdit(r, kind, session)
        \/ OpenUntracked(r, kind, session)
        \/ OpenAsk(r, kind, session)

-----------------------------------------------------------------------------
(* The worker: claim, load, solve, write.                                   *)

(* claim_next(): the scan and the conditional claim; a lost claim is skipped. *)
Claim(w) ==
    /\ job[w].phase = "idle"
    /\ \E id \in OpIds :
        /\ ops[id].status = "pending" /\ ops[id].due
        /\ ops' = [ops EXCEPT ![id].status = "running"]
        /\ job' = [job EXCEPT ![w] = [IdleJob EXCEPT !.phase = "claimed", !.op = id,
                                                    !.session = ops[id].session]]
    /\ UNCHANGED <<inputs, version, live, slot, held, req, owed, spent>>

(* assemble(): the settings and the travel overrides are read first ... *)
LoadProfile(w) ==
    /\ job[w].phase = "claimed"
    /\ job' = [job EXCEPT ![w].phase = "profiled", ![w].profile = inputs.profile]
    /\ UNCHANGED <<inputs, version, live, slot, ops, held, req, owed, spent>>

LoadVersionOfAnAbsentRow(w) ==   \* a mutation: the absence is not read as 0
    /\ job[w].phase = "profiled"
    /\ job' = [job EXCEPT ![w].phase = "versioned",
                          ![w].version = IF version = 0 THEN NULL ELSE version]
    /\ UNCHANGED <<inputs, version, live, slot, ops, held, req, owed, spent>>

(* ... then the version (0 for an absent row) ... *)
LoadVersion(w) ==
    /\ job[w].phase = "profiled"
    /\ job' = [job EXCEPT ![w].phase = "versioned", ![w].version = version]
    /\ UNCHANGED <<inputs, version, live, slot, ops, held, req, owed, spent>>

(* ... then the rest, the live plan included; the stamp commits with the reads. *)
LoadRest(w) ==
    /\ job[w].phase = "versioned"
    /\ job' = [job EXCEPT ![w].phase = "loaded", ![w].rest = inputs.rest, ![w].live = live]
    /\ LET id == job[w].op
       IN  ops' = IF ops[id].status = "running"
                  THEN [ops EXCEPT ![id].inputVersion = job[w].version] ELSE ops
    /\ UNCHANGED <<inputs, version, live, slot, held, req, owed, spent>>

GuardToleratesOneBump(w) ==   \* a mutation
    version # 0 /\ version \in {job[w].version, job[w].version + 1}
GuardIsOnlyPresence(w) == version # 0   \* a mutation
(* holds_version(): the row is there, and is what the load read. *)
GuardMatches(w) == version # 0 /\ version = job[w].version

(* _adopted: the guard, the writes and the solve's own last step, in one transaction. *)
Adopt(w, outcome) ==
    /\ job[w].phase = "loaded"
    /\ held = NULL
    /\ GuardMatches(w)
    /\ ops[job[w].op].status = "running"
    /\ outcome = "proposal" => job[w].live # 0
    /\ live' = IF outcome = "fills" THEN live + 1 ELSE live
    /\ version' = IF outcome = "fills" THEN version + 1 ELSE version
    /\ slot' = IF outcome = "proposal" THEN job[w].op ELSE slot
    /\ ops' = [ops EXCEPT ![job[w].op] = [@ EXCEPT !.status = "succeeded", !.lapsed = FALSE,
                                                   !.recorded = job[w].session]]
    /\ job' = [job EXCEPT ![w] = IdleJob]
    /\ UNCHANGED <<inputs, held, req, owed, spent>>

AdoptTakenOverHalfLands(w) ==   \* a mutation: the refusal is swallowed, the writes commit
    /\ job[w].phase = "loaded"
    /\ held = NULL
    /\ GuardMatches(w)
    /\ ops[job[w].op].status # "running"
    /\ live' = live + 1
    /\ version' = version + 1
    /\ job' = [job EXCEPT ![w] = IdleJob]
    /\ UNCHANGED <<inputs, slot, ops, held, req, owed, spent>>

(* The same transaction when its last step finds the row moved on: nothing of it lands. *)
AdoptTakenOver(w) ==
    /\ job[w].phase = "loaded"
    /\ held = NULL
    /\ GuardMatches(w)
    /\ ops[job[w].op].status # "running"
    /\ job' = [job EXCEPT ![w] = IdleJob]
    /\ UNCHANGED <<inputs, version, live, slot, ops, held, req, owed, spent>>

(* The guard finds no row, which it cannot lock: a request may be inserting the first. *)
GuardFindsNoRow(w) ==
    /\ job[w].phase = "loaded"
    /\ version = 0
    /\ job' = [job EXCEPT ![w].phase = "creating"]
    /\ UNCHANGED <<inputs, version, live, slot, ops, held, req, owed, spent>>

(* Its bump() creates the row, or raises the one that came in between, and holds it. *)
GuardCreates(w) ==
    /\ job[w].phase = "creating"
    /\ held = NULL
    /\ held' = w
    /\ job' = [job EXCEPT ![w].phase = "superseding", ![w].raised = 1]
    /\ UNCHANGED <<inputs, version, live, slot, ops, req, owed, spent>>

(* The guard fails: its transaction stays open, holding the row, around _superseded's own. *)
GuardMismatch(w) ==
    /\ job[w].phase = "loaded"
    /\ held = NULL
    /\ version # 0
    /\ ~GuardMatches(w)
    /\ held' = w
    /\ job' = [job EXCEPT ![w].phase = "superseding"]
    /\ UNCHANGED <<inputs, version, live, slot, ops, req, owed, spent>>

(* finish(Superseded): the row is closed, the follow-up is inserted due now with the *)
(* row's candidate and session, and the row names it; one transaction.               *)
Supersede(w) ==
    /\ job[w].phase = "superseding"
    /\ Closable(job[w].op)
    /\ Admits({job[w].op})
    /\ LET rows == [ops EXCEPT ![FreshId] = FollowUp(ops[job[w].op])]
       IN  ops' = Superseding(rows, job[w].op, FreshId)
    /\ job' = [job EXCEPT ![w].phase = "closed"]
    /\ UNCHANGED <<inputs, version, live, slot, held, req, owed, spent>>

(* The row moved on first: the refusal unwinds through the guard's transaction too. *)
SupersedeTakenOver(w) ==
    /\ job[w].phase = "superseding"
    /\ ~Closable(job[w].op)
    /\ job' = [job EXCEPT ![w] = IdleJob]
    /\ held' = NULL
    /\ UNCHANGED <<inputs, version, live, slot, ops, req, owed, spent>>

(* The guard's transaction commits, and with it what it made of an absent version row. *)
GuardCommits(w) ==
    /\ job[w].phase = "closed"
    /\ version' = version + job[w].raised
    /\ held' = NULL
    /\ job' = [job EXCEPT ![w] = IdleJob]
    /\ UNCHANGED <<inputs, live, slot, ops, req, owed, spent>>

(* recovery.failed: any phase may raise; the failure is recorded if the row is still running. *)
Fail(w) ==
    /\ job[w].phase \in Running \cup {"superseding"}
    /\ LET id == job[w].op
           row == FailedRow(ops[id])
       IN  IF ops[id].status = "running"
           THEN /\ ops' = [ops EXCEPT ![id] = row]
                /\ job' = [job EXCEPT ![w] =
                        [IdleJob EXCEPT !.phase = IF row.status = "failed" THEN "spent" ELSE "idle"]]
           ELSE /\ job' = [job EXCEPT ![w] = IdleJob]
                /\ UNCHANGED ops
    /\ held' = IF held = w THEN NULL ELSE held
    /\ UNCHANGED <<inputs, version, live, slot, req, owed, spent>>

MaterializeUnchecked(w) ==   \* a mutation
    /\ job[w].phase = "spent"
    /\ job' = [job EXCEPT ![w].phase = "materializing"]
    /\ UNCHANGED <<inputs, version, live, slot, ops, held, req, owed, spent>>

(* materialized_if_the_week_has_no_plan: the check, then the plan of last resort. *)
CheckForAPlan(w) ==
    /\ job[w].phase = "spent"
    /\ job' = [job EXCEPT ![w].phase = IF live = 0 THEN "materializing" ELSE "idle"]
    /\ UNCHANGED <<inputs, version, live, slot, ops, held, req, owed, spent>>

Materialize(w) ==
    /\ job[w].phase = "materializing"
    /\ held = NULL
    /\ live' = live + 1
    /\ version' = version + 1
    /\ job' = [job EXCEPT ![w] = IdleJob]
    /\ UNCHANGED <<inputs, slot, ops, held, req, owed, spent>>

(* The process dies: what it had not committed is gone, its row stays running. *)
Crash(w) ==
    /\ job[w].phase # "idle"
    /\ spent.crashes < MaxCrashes
    /\ spent' = [spent EXCEPT !.crashes = @ + 1]
    /\ held' = IF held = w THEN NULL ELSE held
    /\ job' = [job EXCEPT ![w] = IdleJob]
    /\ UNCHANGED <<inputs, version, live, slot, ops, req, owed>>

Outcomes == {"nothing", "fills", "proposal"}

WorkerStep(w) ==
    \/ Claim(w)
    \/ LoadProfile(w)
    \/ LoadVersion(w)
    \/ LoadRest(w)
    \/ \E outcome \in Outcomes : Adopt(w, outcome)
    \/ AdoptTakenOver(w)
    \/ GuardFindsNoRow(w)
    \/ GuardCreates(w)
    \/ GuardMismatch(w)
    \/ Supersede(w)
    \/ SupersedeTakenOver(w)
    \/ GuardCommits(w)
    \/ Fail(w)
    \/ CheckForAPlan(w)
    \/ Materialize(w)

-----------------------------------------------------------------------------
(* Time, and the maintenance sweep (a duty of the worker, and by the runbook *)
(* of an operator, so it may run while a worker is solving).                 *)

Untouched == UNCHANGED <<inputs, version, live, slot, held, job, req, owed, spent>>

BecomesDue(id) ==
    /\ ops[id].status = "pending" /\ ~ops[id].due
    /\ ops' = [ops EXCEPT ![id].due = TRUE]
    /\ Untouched

LeaseLapses(id) ==
    /\ ops[id].status = "running" /\ ~ops[id].lapsed
    /\ ops' = [ops EXCEPT ![id].lapsed = TRUE]
    /\ Untouched

ReapPending(id) ==   \* a mutation: the sweep looks for the wrong status
    /\ ops[id].status = "pending" /\ ops[id].lapsed
    /\ ops' = [ops EXCEPT ![id] = FailedRow(@)]
    /\ Untouched

Reap(id) ==
    /\ ops[id].status = "running" /\ ops[id].lapsed
    /\ ops' = [ops EXCEPT ![id] = FailedRow(@)]
    /\ Untouched

Passing(id) == BecomesDue(id) \/ LeaseLapses(id) \/ Reap(id)

Next ==
    \/ \E r \in Requests : RequestOpens(r) \/ Enumerate(r) \/ RequestCommits(r) \/ Abort(r)
    \/ Approve
    \/ \E w \in Workers : WorkerStep(w) \/ Crash(w)
    \/ \E id \in OpIds : Passing(id)

Spec == Init /\ [][Next]_vars

(* A transaction that was opened ends; the worker's loop runs; time passes and *)
(* the sweep runs.  No user is made to ask, to edit or to approve.             *)
Fairness ==
    /\ \A r \in Requests : WF_vars(Enumerate(r) \/ RequestCommits(r) \/ Abort(r))
    /\ \A w \in Workers : WF_vars(WorkerStep(w))
    /\ \A id \in OpIds : WF_vars(Passing(id))

FairSpec == Spec /\ Fairness

-----------------------------------------------------------------------------
(* Properties. *)

TypeOK ==
    /\ inputs \in [profile: Nat, rest: Nat]
    /\ version \in Nat
    /\ live \in Nat
    /\ slot \in OpIds \cup {NULL}
    /\ ops \in [OpIds -> Row]
    /\ held \in Requests \cup Workers \cup {NULL}
    /\ job \in [Workers -> [phase: JobPhases, op: OpIds \cup {NULL}, session: BOOLEAN,
                           profile: Nat, version: Nat, rest: Nat, live: Nat, raised: {0, 1}]]
    /\ req \in [Requests -> [phase: ReqPhases, kind: AllKinds, session: BOOLEAN,
                             seen: OpIds \cup {NULL},
                             seenStatus: Statuses, failed: SUBSET OpIds]]
    /\ owed \in [version: Nat, failed: SUBSET OpIds, by: OpIds \cup {NULL}, attempt: Nat]
    /\ spent \in [opened: Nat, crashes: Nat]

(* At most one solve of the week is pending or running (coordinator.py, "at most one *)
(* non-terminal solve exists per week"; retries and follow-ups are new ways in).      *)
SingleFlight == \A a, b \in InFlight : a = b

(* A superseded solve names the row that replaced it, a row that exists; and a concession *)
(* it carried is carried by that row too (finish(), "a pin landing mid solve does not     *)
(* discard the concession the user asked for").                                           *)
SupersededIsCarriedOn ==
    \A id \in OpIds : ops[id].status = "superseded" =>
        LET next == ops[id].supersededBy
        IN  /\ next \in OpIds \ {id}
            /\ ops[next].status # "absent"
            /\ ops[id].candidate # NULL => ops[next].candidate # NULL

(* The edit that asked is answered: once nothing is in flight, a solve that read the    *)
(* newest such edit has succeeded, unless a solve failed for good after the edit began. *)
AskIsAnswered ==
    InFlight = {} /\ FailedIds = owed.failed =>
        \/ owed.version = 0
        \/ \E id \in OpIds : ops[id].status = "succeeded" /\ ops[id].inputVersion >= owed.version

(* A proposal that waits for assent is the work of a solve that committed: no solve the *)
(* reaper or a tradeoff closed leaves one behind (dispatch.py, "nothing half-lands").   *)
ProposalIsOfASolveThatSucceeded == slot # NULL => ops[slot].status = "succeeded"

(* w's solve is adopted by this step: the guarded transaction commits. *)
AdoptionBy(w) ==
    job[w].phase = "loaded" /\ job'[w].phase = "idle" /\ ops[job[w].op].status # ops'[job[w].op].status
                            /\ ops'[job[w].op].status = "succeeded"

(* What is adopted was solved from the week as it is: every input but the zone profile, *)
(* and the plan of record it is compared with, are those the load read.                 *)
AdoptsCurrentInputs ==
    [][\A w \in Workers : AdoptionBy(w) => job[w].rest = inputs.rest /\ job[w].live = live]_vars

(* The same of the zone profile, which the assembler reads before the version           *)
(* (solve_inputs.py:3-6, dispatch.py:213-214).  It does not hold.                       *)
AdoptsCurrentProfile ==
    [][\A w \in Workers : AdoptionBy(w) => job[w].profile = inputs.profile]_vars

(* Whatever a worker's solve changes of the week, it changes in the step that closes its *)
(* own row: a solve taken over by the reaper or by a tradeoff writes nothing.            *)
TakenOverWritesNothing ==
    [][\A w \in Workers : job[w].phase = "loaded" /\ job'[w].phase = "idle"
                          /\ (live' # live \/ slot' # slot) => AdoptionBy(w)]_vars

(* A terminal row is never taken out of its status, whoever raced for it. *)
TerminalIsFinal ==
    [][\A id \in OpIds : ops[id].status \in Terminal => ops'[id].status = ops[id].status]_vars

(* The plan of last resort is written only for a week that has no plan (with one worker   *)
(* process: the check and the append are apart, and nothing but the worker appends a     *)
(* week's first plan).                                                                    *)
LastResortNeverDisplacesAPlan ==
    [][\A w \in Workers : job[w].phase = "materializing" /\ live' # live => live = 0]_vars

(* A solve in flight ends: claimed by a process that dies, outlived by its lease, failed,  *)
(* superseded again and again, the week's queue drains once the edits stop.                *)
QueueDrains == InFlight # {} ~> InFlight = {}

(* The pipeline implements the plan of record: with the queue, the claims and the reads    *)
(* hidden, each solve that succeeds answers in one step the version it was stamped with,   *)
(* and the plan moves by such an answer, by an assent, or as the first plan of a week.     *)
(* (dispatch.py, "the conditional write".)  With one worker process: two loads of one row  *)
(* at once could stamp it with either's version.                                           *)
Answered == [id \in OpIds |-> IF ops[id].status = "succeeded" THEN ops[id].inputVersion ELSE NULL]

Record == INSTANCE PlanOfRecord
    WITH Solves <- OpIds, plan <- live, offer <- slot, answered <- Answered

ImplementsPlanOfRecord == Record!Spec

(* Losing the close means the solve committed: the row is terminal, nothing is in flight *)
(* (coordinator.py:313-314).  It does not hold: the worker may have superseded the row,  *)
(* or another tradeoff may have replaced it, and the insert that follows is refused.     *)
LosingTheCloseLeavesNothingInFlight ==
    \A r \in Requests :
        req[r].phase = "read" /\ req[r].kind = "tradeoff" /\ req[r].seen # NULL
            /\ ops[req[r].seen].status \in Terminal
        => InFlight = {}

(* An edit that joined a running solve is followed up: that run of the row does not end   *)
(* the matter (coordinator.py:28-30).  It does not hold when the run fails for good.      *)
JoinedRunningSolveIsFollowedUp ==
    owed.by # NULL =>
        ~(ops[owed.by].status = "failed" /\ ops[owed.by].attempt = owed.attempt)

(* What the recorder reads back of the session is what the row carries across coalescing  *)
(* (dispatch.py:428-429).  It does not hold: it reads the record made at the claim.       *)
RecorderReadsTheRow ==
    [][\A w \in Workers : AdoptionBy(w) =>
            ops'[job[w].op].recorded = ops[job[w].op].session]_vars

=============================================================================
