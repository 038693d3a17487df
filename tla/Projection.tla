----------------------------- MODULE Projection -----------------------------
(***************************************************************************)
(* The projection of one tenant's plan onto the calendar syncr writes to:  *)
(* the queue of PROJECTION operations, the worker's pass (claim, read,     *)
(* list, write, close), the external calendar, the user who edits it, and  *)
(* the lease reaper.                                                       *)
(*                                                                         *)
(* The calendar is outside the database: what a pass has written there     *)
(* stays when the pass dies or its transaction rolls back.                 *)
(*                                                                         *)
(* Simplified:                                                             *)
(*  - an event says its key and when it is; title and description change   *)
(*    with `at` (matches() compares them all, the diff keys on none);      *)
(*  - the plans of the horizon's weeks and the off-plan periods are read   *)
(*    in one step: each week's change queues an operation of its own;      *)
(*  - one worker process, whose duties run one after the other.            *)
(***************************************************************************)
EXTENDS Naturals, FiniteSets

CONSTANTS
    PlanKeys,      \* syncr keys of plan blocks
    OffPlanKeys,   \* syncr keys of off-plan day segments
    Days,          \* the days an event can be on, and a bound on time
    Reaches,       \* how many days ahead the horizon may be set to reach
    EventIds,      \* the provider's event ids, ordered; also the bound on events
    OpIds,         \* identifiers a PROJECTION row can take; the bound on rows
    Targets,       \* what the write target may be at first: a subset of AllTargets
    NULL,
    MaxAttempts,   \* MAX_ATTEMPTS
    DrainLimit,    \* DRAIN_LIMIT
    MaxDrifts      \* bound: changes of what is desired or held that queue no projection

Keys == PlanKeys \cup OffPlanKeys
AllTargets == {"none", "google", "feed"}

ASSUME ProjectionSets ==
    /\ PlanKeys \cap OffPlanKeys = {}
    /\ NULL \notin Keys \cup Days
    /\ EventIds \subseteq Nat
    /\ Days \subseteq Nat
    /\ Reaches \subseteq Nat
    /\ Targets \subseteq AllTargets

ASSUME ProjectionBounds ==
    /\ MaxAttempts \in Nat \ {0}
    /\ DrainLimit \in Nat \ {0}
    /\ MaxDrifts \in Nat

VARIABLES
    plan,       \* when each key is intended, or NULL
    today,      \* the local date
    reach,      \* the horizon_days setting
    target,     \* the provider of the designated write target, or "none"
    calendar,   \* what the provider holds: event id -> event, or NULL
    ops,        \* the operations table, PROJECTION rows only
    pass,       \* the worker's pass
    banner,     \* the write target's last_error is set
    drift,      \* history: what is desired or held moved, and no pass has seen it since
    abandoned,  \* history: a claim was given up on by the reaper since the last success
    drifts      \* bound used: of MaxDrifts

vars == <<plan, today, reach, target, calendar, ops, pass, banner, drift, abandoned, drifts>>

(* horizon_span(): the days the projection covers. *)
HorizonOf(date, days) == {d \in Days : date <= d /\ d < date + days}
horizon == HorizonOf(today, reach)

Statuses == {"absent", "pending", "running", "succeeded", "failed"}
Row == [status: Statuses, attempt: 0..MaxAttempts, due: BOOLEAN, lapsed: BOOLEAN]
AbsentRow == [status |-> "absent", attempt |-> 0, due |-> FALSE, lapsed |-> FALSE]

Event == [key: Keys \cup {NULL}, at: Days]
ASSUME NullIsNoEvent == NULL \notin Event

Write == [do: {"patch", "insert", "delete"}, event: EventIds \cup {NULL},
          key: Keys \cup {NULL}, at: Days \cup {NULL}]
Intent == Keys \X Days

IdlePass == [phase |-> "idle", claimed |-> {}, today |-> 0, target |-> "none", horizon |-> {},
             intended |-> {}, todo |-> {}, fresh |-> FALSE]
Phases == {"idle", "claimed", "reading", "writing", "done", "stopped"}
Pass == [phase: Phases, claimed: SUBSET OpIds, today: Nat, target: AllTargets,
         horizon: SUBSET Days, intended: SUBSET Intent, todo: SUBSET Write, fresh: BOOLEAN]

Pending == {id \in OpIds : ops[id].status = "pending"}
Running == {id \in OpIds : ops[id].status = "running"}
InFlight == Pending \cup Running
FreshOps == {id \in OpIds : ops[id].status = "absent"}

Init ==
    /\ plan = [k \in Keys |-> NULL]
    /\ today \in Days
    /\ reach \in Reaches
    /\ target \in Targets
    /\ calendar = [e \in EventIds |-> NULL]
    /\ ops = [id \in OpIds |-> AbsentRow]
    /\ pass = IdlePass
    /\ banner = FALSE
    /\ drift = TRUE
    /\ abandoned = FALSE
    /\ drifts = 0

-----------------------------------------------------------------------------
(* What is desired, and what the diff makes of it. *)

(* desired_events(): the keys whose time is in the horizon. *)
Desired(p, days) == {i \in Intent : p[i[1]] = i[2] /\ i[2] \in days}

(* The provider's answer to a read bounded by the horizon. *)
Existing(days) == {e \in EventIds : calendar[e] # NULL /\ calendar[e].at \in days}

Holders(k, days) == {e \in Existing(days) : calendar[e].key = k}
Kept(k, days) == CHOOSE e \in Holders(k, days) : \A other \in Holders(k, days) : e <= other

Patch(e, k, d) == [do |-> "patch", event |-> e, key |-> k, at |-> d]
Insert(k, d) == [do |-> "insert", event |-> NULL, key |-> k, at |-> d]
Delete(e) == [do |-> "delete", event |-> e, key |-> NULL, at |-> NULL]

(* plan_reconciliation(): patches, inserts and deletes. *)
PatchesEvenIdentical(intended, days) ==   \* a mutation: no `identical` arm
    {Patch(Kept(i[1], days), i[1], i[2]) : i \in {j \in intended : Holders(j[1], days) # {}}}
Patches(intended, days) ==
    {Patch(Kept(i[1], days), i[1], i[2]) :
        i \in {j \in intended : Holders(j[1], days) # {}
                                /\ calendar[Kept(j[1], days)].at # j[2]}}
Inserts(intended, days) ==
    {Insert(i[1], i[2]) : i \in {j \in intended : Holders(j[1], days) = {}}}
DeletesSparingCopies(intended, days) ==   \* a mutation: a duplicate is taken for the event itself
    {Delete(e) : e \in {x \in Existing(days) : ~\E i \in intended : calendar[x].key = i[1]}}
Deletes(intended, days) ==
    {Delete(e) : e \in {x \in Existing(days) :
        ~\E i \in intended : Holders(i[1], days) # {} /\ x = Kept(i[1], days)}}

Reconciliation(intended, days) ==
    Patches(intended, days) \cup Inserts(intended, days) \cup Deletes(intended, days)

(* The calendar holds over `days` exactly what is intended, each key once. *)
Shows(intended, days) ==
    /\ \A i \in intended : \E e \in EventIds :
        calendar[e] = [key |-> i[1], at |-> i[2]] /\ Holders(i[1], days) = {e}
    /\ \A e \in Existing(days) : \E i \in intended : calendar[e].key = i[1]

Shown == Shows(Desired(plan, horizon), horizon)

-----------------------------------------------------------------------------
(* Everything that changes what is desired. *)

(* The pass's reading no longer describes the world. *)
Stale == pass' = [pass EXCEPT !.fresh = FALSE]

(* A mutation: the change joins a projection in flight, as a solve request would. *)
PlanChangesJoining ==
    /\ \E k \in PlanKeys, d \in Days \cup {NULL} :
        plan[k] # d /\ plan' = [plan EXCEPT ![k] = d]
    /\ \/ InFlight # {} /\ UNCHANGED ops
       \/ InFlight = {} /\ \E id \in FreshOps :
            ops' = [ops EXCEPT ![id] =
                     [status |-> "pending", attempt |-> 1, due |-> TRUE, lapsed |-> FALSE]]
    /\ UNCHANGED <<today, reach, target, calendar, pass, banner, drift, abandoned, drifts>>

(* A revision is appended for a week of the horizon: adoption, assent, production. *)
(* The projection is queued in the same transaction.                               *)
PlanChanges ==
    /\ \E k \in PlanKeys, d \in Days \cup {NULL} :
        plan[k] # d /\ plan' = [plan EXCEPT ![k] = d]
    /\ \E id \in FreshOps :
        /\ \A other \in FreshOps : id <= other
        /\ ops' = [ops EXCEPT ![id] =
                    [status |-> "pending", attempt |-> 1, due |-> TRUE, lapsed |-> FALSE]]
    /\ UNCHANGED <<today, reach, target, calendar, pass, banner, drift, abandoned, drifts>>

Drifting ==
    /\ drifts < MaxDrifts
    /\ drifts' = drifts + 1
    /\ drift' = TRUE
    /\ Stale
    /\ UNCHANGED <<ops, banner, abandoned>>

(* OffPlanService: the period is written, its weeks are bumped, a solve is asked for; *)
(* no projection is queued.                                                           *)
OffPlanChanges ==
    /\ \E k \in OffPlanKeys, d \in Days \cup {NULL} :
        plan[k] # d /\ plan' = [plan EXCEPT ![k] = d]
    /\ Drifting
    /\ UNCHANGED <<today, reach, target, calendar>>

(* Midnight passes: no projection is queued. *)
MidnightPasses ==
    /\ today' = today + 1
    /\ today' \in Days
    /\ Drifting
    /\ UNCHANGED <<plan, reach, target, calendar>>

(* set_horizon(): no projection is queued. *)
SetHorizon ==
    /\ reach' \in Reaches \ {reach}
    /\ Drifting
    /\ UNCHANGED <<plan, today, target, calendar>>

(* designate_write_target(), or remove_source(). *)
TargetChanges ==
    /\ target' = IF target = "none" THEN "google" ELSE "none"
    /\ Drifting
    /\ UNCHANGED <<plan, today, reach, calendar>>

(* The calendar's user moves, removes, adds or copies an event; a copy keeps its key. *)
UserEdits ==
    /\ \/ \E e \in EventIds, d \in Days :
            calendar[e] # NULL /\ calendar' = [calendar EXCEPT ![e].at = d]
       \/ \E e \in EventIds :
            calendar[e] # NULL /\ calendar' = [calendar EXCEPT ![e] = NULL]
       \/ \E e \in EventIds, d \in Days, k \in Keys \cup {NULL} :
            /\ calendar[e] = NULL
            /\ k # NULL => \E x \in EventIds : calendar[x] # NULL /\ calendar[x].key = k
            /\ calendar' = [calendar EXCEPT ![e] = [key |-> k, at |-> d]]
    /\ Drifting
    /\ UNCHANGED <<plan, today, reach, target>>

-----------------------------------------------------------------------------
(* The worker's pass. *)

(* due(): at most DRAIN_LIMIT of the due rows; every one is claimed, in one transaction. *)
(* The tick's clock, read before it, decides what is due and is the pass's instant.      *)
Claim ==
    /\ pass.phase = "idle"
    /\ LET due == {id \in Pending : ops[id].due}
       IN  \E taken \in SUBSET due :
            /\ taken # {}
            /\ Cardinality(taken) = DrainLimit \/ (taken = due /\ Cardinality(due) < DrainLimit)
            /\ ops' = [id \in OpIds |-> IF id \in taken THEN [ops[id] EXCEPT !.status = "running"]
                                        ELSE ops[id]]
            /\ pass' = [IdlePass EXCEPT !.phase = "claimed", !.claimed = taken,
                                            !.today = today]
    /\ UNCHANGED <<plan, today, reach, target, calendar, banner, drift, abandoned, drifts>>

(* run(): no target closes the claims, a feed stops the pass, and otherwise what is *)
(* desired is read before the provider is asked anything: over the horizon from the *)
(* tick's own date, which midnight may have left behind.                            *)
Read ==
    /\ pass.phase = "claimed"
    /\ LET days == HorizonOf(pass.today, reach)
       IN  pass' = [pass EXCEPT
            !.phase = CASE target = "none" -> "done"
                        [] target = "feed" -> "stopped"
                        [] target = "google" -> "reading",
            !.target = target,
            !.horizon = days,
            !.intended = Desired(plan, days),
            !.fresh = (target = "google" /\ days = horizon)]
    /\ UNCHANGED <<plan, today, reach, target, calendar, ops, banner, drift, abandoned, drifts>>

ListEvents ==
    /\ pass.phase = "reading"
    /\ pass' = [pass EXCEPT !.phase = "writing",
                            !.todo = Reconciliation(pass.intended, pass.horizon)]
    /\ UNCHANGED <<plan, today, reach, target, calendar, ops, banner, drift, abandoned, drifts>>

(* Patches, then inserts, then deletes. *)
SendableInAnyOrder == pass.todo   \* a mutation
Sendable == {write \in pass.todo :
    \/ write.do = "patch"
    \/ write.do = "insert" /\ \A other \in pass.todo : other.do # "patch"
    \/ \A other \in pass.todo : other.do = "delete"}

(* The provider applies a write: an insert takes a new id, a delete of what is gone is done. *)
Applied(write) ==
    \/ /\ write.do = "insert"
       /\ \E e \in EventIds :
            /\ calendar[e] = NULL
            /\ calendar' = [calendar EXCEPT ![e] = [key |-> write.key, at |-> write.at]]
    \/ /\ write.do = "patch"
       /\ calendar[write.event] # NULL
       /\ calendar' = [calendar EXCEPT ![write.event] = [key |-> write.key, at |-> write.at]]
    \/ /\ write.do = "delete"
       /\ calendar' = [calendar EXCEPT ![write.event] = NULL]

Send ==
    /\ pass.phase = "writing"
    /\ \E write \in Sendable :
        /\ Applied(write)
        /\ pass' = [pass EXCEPT !.todo = @ \ {write}]
    /\ UNCHANGED <<plan, today, reach, target, ops, banner, drift, abandoned, drifts>>

(* The provider refuses, cannot be read, or does not answer in time: whether the write *)
(* that was out was applied is unknown.  Nothing is retried; the pass stops.           *)
SendFails ==
    /\ pass.phase \in {"reading", "writing"}
    /\ \/ UNCHANGED calendar
       \/ pass.phase = "writing" /\ \E write \in Sendable : Applied(write)
    /\ pass' = [pass EXCEPT !.phase = "stopped", !.todo = {}]
    /\ UNCHANGED <<plan, today, reach, target, ops, banner, drift, abandoned, drifts>>

FailedRowOnceMore(row) ==   \* a mutation: the bound is off by one
    IF row.attempt <= MaxAttempts
    THEN [row EXCEPT !.status = "pending", !.attempt = @ + 1, !.due = FALSE, !.lapsed = FALSE]
    ELSE [row EXCEPT !.status = "failed", !.lapsed = FALSE]
FailedRow(row) ==
    IF row.attempt < MaxAttempts
    THEN [row EXCEPT !.status = "pending", !.attempt = @ + 1, !.due = FALSE, !.lapsed = FALSE]
    ELSE [row EXCEPT !.status = "failed", !.lapsed = FALSE]

(* Every write was answered, or nothing was to be written. *)
ReadyToClose == pass.phase = "done" \/ (pass.phase = "writing" /\ pass.todo = {})

(* _record and _close, one transaction: the attempt is written on the target, if it is *)
(* still there, and every claim is finished with the one outcome.                      *)
CloseDone ==
    /\ ReadyToClose
    /\ pass.claimed \subseteq Running
    /\ ops' = [id \in OpIds |-> IF id \in pass.claimed
                                THEN [ops[id] EXCEPT !.status = "succeeded", !.lapsed = FALSE]
                                ELSE ops[id]]
    /\ banner' = IF pass.target = "google" /\ target # "none" THEN FALSE ELSE banner
    /\ drift' = (drift /\ ~pass.fresh)
    /\ abandoned' = (abandoned /\ ~pass.fresh)
    /\ pass' = IdlePass
    /\ UNCHANGED <<plan, today, reach, target, calendar, drifts>>

CloseStoppedAsDone ==   \* a mutation: the failure is not passed on to the claims
    /\ pass.phase = "stopped"
    /\ pass.claimed \subseteq Running
    /\ ops' = [id \in OpIds |-> IF id \in pass.claimed
                                THEN [ops[id] EXCEPT !.status = "succeeded", !.lapsed = FALSE]
                                ELSE ops[id]]
    /\ pass' = IdlePass
    /\ UNCHANGED <<plan, today, reach, target, calendar, banner, drift, abandoned, drifts>>

CloseStopped ==
    /\ pass.phase = "stopped"
    /\ pass.claimed \subseteq Running
    /\ ops' = [id \in OpIds |-> IF id \in pass.claimed THEN FailedRow(ops[id]) ELSE ops[id]]
    /\ banner' = IF target # "none" THEN TRUE ELSE banner
    /\ pass' = IdlePass
    /\ UNCHANGED <<plan, today, reach, target, calendar, drift, abandoned, drifts>>

(* One claim was reaped meanwhile: the whole closing transaction rolls back. *)
CloseTakenOver ==
    /\ ReadyToClose \/ pass.phase = "stopped"
    /\ ~(pass.claimed \subseteq Running)
    /\ pass' = IdlePass
    /\ UNCHANGED <<plan, today, reach, target, calendar, ops, banner, drift, abandoned, drifts>>

(* The process dies, or the pass raises: its claims stay running. *)
Crash ==
    /\ pass.phase # "idle"
    /\ pass' = IdlePass
    /\ UNCHANGED <<plan, today, reach, target, calendar, ops, banner, drift, abandoned, drifts>>

WorkerStep ==
    \/ Claim \/ Read \/ ListEvents \/ Send \/ SendFails
    \/ CloseDone \/ CloseStopped \/ CloseTakenOver

-----------------------------------------------------------------------------
(* Time, and the maintenance sweep. *)

BecomesDue(id) ==
    /\ ops[id].status = "pending" /\ ~ops[id].due
    /\ ops' = [ops EXCEPT ![id].due = TRUE]
    /\ UNCHANGED <<plan, today, reach, target, calendar, pass, banner, drift, abandoned, drifts>>

LeaseLapses(id) ==
    /\ ops[id].status = "running" /\ ~ops[id].lapsed
    /\ ops' = [ops EXCEPT ![id].lapsed = TRUE]
    /\ UNCHANGED <<plan, today, reach, target, calendar, pass, banner, drift, abandoned, drifts>>

ReapWithoutABound(id) ==   \* a mutation: the reaper returns what it finds
    /\ ops[id].status = "running" /\ ops[id].lapsed
    /\ ops' = [ops EXCEPT ![id] = [@ EXCEPT !.status = "pending", !.due = FALSE, !.lapsed = FALSE]]
    /\ UNCHANGED <<plan, today, reach, target, calendar, pass, banner, drift, abandoned, drifts>>

Reap(id) ==
    /\ ops[id].status = "running" /\ ops[id].lapsed
    /\ ops' = [ops EXCEPT ![id] = FailedRow(@)]
    /\ abandoned' = (abandoned \/ FailedRow(ops[id]).status = "failed")
    /\ UNCHANGED <<plan, today, reach, target, calendar, pass, banner, drift, drifts>>

Passing(id) == BecomesDue(id) \/ LeaseLapses(id) \/ Reap(id)

Next ==
    \/ PlanChanges
    \/ OffPlanChanges
    \/ MidnightPasses
    \/ SetHorizon
    \/ TargetChanges
    \/ UserEdits
    \/ WorkerStep
    \/ Crash
    \/ \E id \in OpIds : Passing(id)

Spec == Init /\ [][Next]_vars

(* The worker's loop and the sweep run, and time passes.  No user is made to act. *)
Fairness ==
    /\ WF_vars(WorkerStep)
    /\ \A id \in OpIds : WF_vars(Passing(id))

FairSpec == Spec /\ Fairness

-----------------------------------------------------------------------------
(* Properties. *)

TypeOK ==
    /\ plan \in [Keys -> Days \cup {NULL}]
    /\ today \in Days
    /\ reach \in Reaches
    /\ target \in AllTargets
    /\ calendar \in [EventIds -> Event \cup {NULL}]
    /\ ops \in [OpIds -> Row]
    /\ pass \in Pass
    /\ banner \in BOOLEAN
    /\ drift \in BOOLEAN
    /\ abandoned \in BOOLEAN
    /\ drifts \in Nat

(* A quiet queue means the phone shows the plan, or the user is told it does not            *)
(* (projection_pass.py, "the one degradation a user cannot discover by looking at the        *)
(* plan"): whatever plan change raced a pass, was claimed by a pass that died, or rode on    *)
(* a transaction that rolled back.  Not claimed of a claim given up on by the reaper, which  *)
(* raises no notice, nor after a change of what is desired or held that queues nothing.      *)
QuietIsShownOrStated ==
    InFlight = {} /\ target = "google" /\ ~drift => Shown \/ banner \/ abandoned

(* A projection that succeeded wrote the plan it read: whatever its pass found on the       *)
(* calendar (earlier halves of itself, copies, foreign events), it left each intended event  *)
(* once and nothing else, unless somebody changed the calendar or the settings meanwhile.    *)
SucceededShowsWhatItRead ==
    [][\A id \in OpIds :
        ops[id].status = "running" /\ ops'[id].status = "succeeded" /\ pass.fresh
            => Shows(pass.intended, pass.horizon)]_vars

(* No write opens a gap: what the plan wants and the phone shows, it shows at every moment  *)
(* of the pass (reconciliation.py, "Nothing the plan wants goes missing because a later      *)
(* write failed").                                                                           *)
Held(i) == \E e \in EventIds : calendar[e] = [key |-> i[1], at |-> i[2]]
NoWriteOpensAGap ==
    [][pass.phase = "writing" /\ pass.fresh /\ pass'.fresh
        => \A i \in pass.intended : Held(i) => Held(i)']_vars

(* A second pass over a calendar that already shows the plan writes nothing, whichever id    *)
(* the event carries and whichever pass wrote it (reconciliation.py, "the second run finds   *)
(* nothing left to resolve").                                                                *)
RightIsLeftAlone ==
    [][pass.phase = "reading" /\ pass'.phase = "writing" /\ Shows(pass.intended, pass.horizon)
        => pass'.todo = {}]_vars

(* A queued projection ends, whatever dies, lapses or is refused on the way. *)
QueueDrains == InFlight # {} ~> InFlight = {}

(* A plan change reaches the phone, or the user is told, or the world moved on. *)
PlanReachesThePhone ==
    target = "google" /\ ~drift /\ ~Shown
        ~> Shown \/ banner \/ abandoned \/ drift \/ target # "google"

=============================================================================
