# syncr: a plan's way from its inputs to the calendar, in TLA+

syncr keeps a weekly plan. Users (and calendar polls, and the passage of time)
change what a week is planned from; a worker solves the week in the background;
what a solve may change on its own is limited, and the rest waits for the user's
assent; what is planned is projected to an external calendar, and what is lived is
logged and fed back into what a week owes. This directory models that, checks it with
TLC on small instances and proves its main properties with TLAPS for every instance.

Paths below are relative to `src/packages/syncr-api/src/syncr_api/` unless they
start with `docs/`, `syncr_domain/` (`src/packages/syncr-domain/src/syncr_domain/`)
or `syncr_solver/` (`src/packages/syncr-solver/src/syncr_solver/`).

## 1. Inventory of the system

| Component | State it keeps | Operations | Interacts through | What is hard | What makes it correct |
|---|---|---|---|---|---|
| Input versions (`plans/versions.py`, `user_settings/solve_inputs.py`) | one counter row per tracked week | bump, hold, enumerate the tracked weeks, compare | row lock taken by every mutation, by approval, and by the guarded write | a row that does not exist yet; reads outside the lock | a solve is written only if nothing it read has changed |
| Solve coordinator and lifecycle (`solving/coordinator.py`, `lifecycle.py`, `repository.py`) | the `operations` table | request (schedule, join, replace by a tradeoff), claim, finish, retry | conditional updates, a partial unique index | many writers of one row, stale reads of the row in flight | one solve in flight per week; terminal rows are final; an edit that asked is answered |
| Dispatch, recovery, runner (`solving/dispatch.py`, `recovery.py`, `runner.py`) | what a running solve has read | load, solve, adopt or supersede, fail, plan of last resort | three transactions per solve, one nested in another | crash or slow worker between any two | nothing of a solve lands without its row's terminal step |
| Maintenance (`solving/maintenance.py`) | none | reap lapsed leases, prune | the same rows | reaping a worker that is alive | the queue drains; a reaped solve writes nothing |
| Assembly (`plans/assembler.py`) | none | some thirty reads of one week | READ COMMITTED snapshots | reads of different instants | what is assembled is covered by the version read |
| Authority and adoption (`plans/authority.py`, `settled.py`, `assent.py`, `adoption.py`, `proposals.py`) | live revision, one pending proposal per week | classify, append, replace the slot | the worker's guarded write | time passes between load, write and assent | nothing moves or goes without assent; the lived past stands |
| Approvals (`approvals/service.py`) | - | approve | version row, slot | stale proposals | an approval writes what was shown, or is refused |
| Week production (`plans/production.py`) | - | first plan from fixed sources | the live revision | check, then append | never displaces a plan |
| Entity services (tasks, habits, routines, areas, templates, preferences, outcomes, off-plan periods, settings, pins, concessions, reviews) | one table each | CRUD, then bump, then request | input versions, coordinator | enumerations that miss a week created meanwhile | an edit reaches every solve it concerns |
| Projection (`calendars/projection_runner.py`, `projection_pass.py`, `projection_writer.py`, `reconciliation.py`, `google_write_adapter.py`) | the operations of kind PROJECTION, the target's `last_error`, remote events | claim all that are due, read, list, write, close all | external API, then one transaction | a crash or a refusal after half of the external writes; one lost claim rolls all back; the user edits the same calendar | retries converge on the plan, no event the plan wants disappears on the way, every row ends |
| Calendar sync and anchors (`calendars/sync.py`, `anchors/reconcile.py`) | anchors, sync state | fetch, reconcile, invalidate | bumps and requests | partial feeds, deletes | exactly the affected weeks are invalidated |
| Conflicts (`conflicts/`) | conflict rows | raise once, resolve | adoption, pins | double raise, resolve against raise | one open conflict per collision |
| Verdict events (`plans/recording.py`, `verdict_transitions.py`, `episodes.py`) | event log | record a transition | three surfaces write | two recorders reading the same newest row | one row per flip; an episode's first row says who noticed |
| Horizon maintainer (`horizon/`) | none | per week: skip, ask, settle | coordinator, versions | asking forever, or never again | each week of the horizon gets a plan or an answer |
| Idempotency (`idempotency/`) | key rows, advisory locks | hold, claim, take over, replay, complete, sweep | wraps unsafe requests, in their transaction | expiry and sweep between the statements of a retry | work commits at most once in a key's window; what is replayed is what ran |
| Outcome log (`outcomes/service.py`, `plans/reality.py`) | one row per block | record, confirm a day | row locks, then the habit's row | concurrent writers of one habit | a settled instant stands; the stored charge is a walk of the whole log |
| Habit debt (`habits/charged.py`, `syncr_domain/debt.py`) | a habit's charged misses | walk the log, oldest due first | inside the outcome's transaction | ties, credits before any miss, reads before the lock | the charge is what later credits leave |
| Netting and the feasibility probe (`plans/netting.py`, `demand.py`, `reservations.py`, `placements.py`, `syncr_domain/feasibility/`) | none | net plan, pins and outcomes out of floors and demands; three checks | every edit's verdict, the solver's verdict | past and future counted by different rules; Areas that compete for the same minutes | never refuses a week that holds; doing nothing never helps |
| Solver (`syncr_solver/`) | one attempt | inherit, fill, improve by moves, report | pure, called by the dispatch | many rules over one growing set of placements | what was held stays held; no rule is broken; what is left is named |
| Off-plan periods, learned weights | own tables | declare, activate | bumps, requests | overlap checks | no overlap |
| Events (`events/`) | bounded queues | publish, subscribe | LISTEN/NOTIFY | loss by design | clients refetch |
| Domain algorithms (`syncr_domain/`) | - | intervals, weeks and zones, budgets, gaps | pure | boundaries | agree with their definitions |
| Learning job, accounts and OAuth, ops, CLI, frontend | - | - | - | - | outside this project (section 11) |

## 2. Plan

In the order in which it was built, the most important behaviour first:

| Modules | What | Proofs |
|---|---|---|
| `SolvePipeline` | a week's queue, version, guard and retries | `SolvePipelineProofs` |
| `PlanAuthority` | the documents those writes carry | `PlanAuthorityProofs` |
| `PlanOfRecord` | abstract: a solve answers the week in one step. Implemented by `SolvePipeline` | `PlanOfRecordProofs` |
| `Projection` | from the plan to the external calendar | `ProjectionProofs` |
| `HabitDebt` <- `OutcomeRequests` | what one habit is charged with, and the requests that write its log behind the idempotency guard | `HabitDebtProofs` <- `OutcomeRequestsProofs` |
| `IntervalSets` <- `CapacityProbe` <- `WeekCapacity` <- `WeekSolve` | the interval algebra, the netting and probe over it, a week as its user edits it, and that week solved | `WeekCapacityProofs` <- `WeekSolveProofs` |

(`A <- B`: B extends A.) `MCSolvePipeline`, `MCPlanAuthority`, `MCProjection`,
`MCOutcomeRequests` and `MCWeekSolve` give the instances TLC checks.

How they meet. `SolvePipeline` says *when* a solve may write and that it is
current; `PlanAuthority` *what* such a write may change; `WeekSolve` what a solve computes, and
`CapacityProbe` what it and every edit report. `Projection` starts where a revision is
appended. `OutcomeRequests` is where the outcomes that `WeekCapacity` nets come from.

What would come next: verdict events and episodes (three surfaces that append by
comparing with the newest row), conflicts, the calendar sync's choice of the weeks it
invalidates.

## 3. SolvePipeline

One tenant's one week. Weeks of one tenant, and tenants, share no row that this
code locks or writes, so one week is the unit.

| Variable | In the code |
|---|---|
| `inputs` | what is committed of everything a solve reads, as a count of changes; `profile` is the home zone and the travel overrides, `rest` everything else |
| `version` | `WeekInputVersion.version`; 0 for no row |
| `held` | the transaction that holds that row's lock |
| `live` | number of the latest plan revision; 0 for none |
| `slot` | `PendingProposal.operation_id` |
| `ops` | rows of `operations` of kind SOLVE: status, candidate, stated session, due, lease, attempt, stamped version, successor, and what the recorder was given |
| `job` | the worker's local variables between its statements |
| `req` | a request's local variables between its statements |
| `owed`, `spent` | history of the newest bump that asked; the bounds used |

**Steps.** PostgreSQL runs these transactions at READ COMMITTED, so a
transaction that reads and later writes is two steps or more, and what it read
may have changed. A request opens (its edit, its bump, its read of the row in
flight) and commits (its write of the queue). Its edit becomes visible only at the
commit, together with the bump; the version row is held in between. The kinds:

- `pin`: bumps whether or not the row exists (`pins/service.py`; the horizon
  maintainer's request has this shape too);
- `task`: bumps the tracked weeks it enumerates, then asks for those it enumerates
  again: a week whose row appears between the two is asked for and not bumped, one whose row appears
  after both is neither (tasks, habits, routines, areas, templates, preferences, outcomes, off-plan, and a
  concession's revocation);
- `zone`: the same for the settings and travel overrides;
- `review`: bumps and asks for nothing (`reviews/service.py`);
- `resolve`: changes nothing and asks for a solve, now or debounced;
- `tradeoff`: changes nothing and replaces the row in flight.

The worker claims, reads the zone profile, then the version, then the rest (with
the stamp), then runs one guarded transaction. If the guard does not match, that
transaction stays open, holding the row, while `finish` runs in another: the
phases `superseding` and `closed`. Where the guard finds no row (`GuardFindsNoRow`) it creates it in a
statement of its own (`GuardCreates`, phase `creating`), and a row another request has created meanwhile is raised
instead; either way it reports a mismatch. Any phase may fail. `AdoptTakenOver` is the
transaction that rolls back because its last statement found the row moved on.
A crash loses the worker's memory and its lock, and leaves its row running.

**Abstractions.** What the solve computed is a choice of nothing, fills or a
proposal (a week with no plan gets no proposal: `AProposalHasAPlanUnderIt` and the
lemma `FirstPlanIsAllFills` justify it). Instants are two bits per row: due, lapsed.
The backoff's lengths, logging, metrics and events are left out. `Abort` is any
rollback of a request: a lost connection, a 4xx after the bump, or the unique
index's refusal, which no handler maps: the loser of two inserts is answered as an
unhandled error, and the properties see only that it left no second row. The version
row is the one lock: an update of a row of `operations` is one step, so a circle
of waits through those rows would not be seen. `finish`, which closes the row, inserts
the follow-up and names it in one transaction, is one step.

### Properties

| Property | Says |
|---|---|
| `SingleFlight` | never two solves of the week in flight |
| `SupersededIsCarriedOn` | a superseded row names an existing successor, and hands it its concession |
| `AskIsAnswered` | once nothing is in flight, a solve that read the newest edit that asked has succeeded, or a solve failed for good after that edit began |
| `ProposalIsOfASolveThatSucceeded` | no reaped, failed or replaced solve leaves a proposal |
| `AdoptsCurrentInputs` | an adopted solve read every input (but the zone profile) and the plan as they are |
| `TakenOverWritesNothing` | plan and slot change only in the step that closes the solve's own row |
| `TerminalIsFinal` | a terminal row keeps its status |
| `LastResortNeverDisplacesAPlan` | the plan of last resort is only ever a first plan |
| `QueueDrains` | a solve in flight eventually leaves the week with none in flight |
| `ImplementsPlanOfRecord` | each solve that succeeds answers the week as it is at that step |

`ImplementsPlanOfRecord` is the refinement: `PlanOfRecord` has no queue, claim, lease,
retry or snapshot. A solve there reads the week and answers it in one step, once; the
plan moves only by such an answer, by an assent to the proposal on offer, or as a first
plan. The mapping is `plan <- live`, `offer <- slot`, and for each row that succeeded the
version it was stamped with; `version` is itself. That the snapshot a solve took seconds earlier is still
the week is exactly what makes the adopting step an `Answer`. It holds for the deployment's
one worker process: two loads of one row at once could stamp it with either's version.

`LastResortNeverDisplacesAPlan` is about the deployment's one worker: the check
and the append are two steps, and with two workers it would not hold.

## 4. PlanAuthority

The same week seen as documents: a function from blocks to intervals or `NULL`.
`Placed` blocks are the solver's, `Fixed` blocks come from their source
(`syncr_domain/identity.py`, `PLACED_BY`). A solve is a load, which fixes the
instant `at`, and a write, which happens only if `current` (the version) still
holds. The solver's answer is **any** document whose placed blocks do not overlap:
the rule under study must not depend on the search being good.

| Definition | In the code |
|---|---|
| `RestatesThePast` | `require_an_unchanged_past` with its three comparisons, one exclusive (`has_elapsed`) and two inclusive (`has_started`) |
| `Arriving`, `Displacing`, `Fills` | `_new_blocks` |
| `Dropped`, `Relocated` | `_dropped`, `_relocated` |
| `ProposalDiff`, `AppliesImmediately` | `ProposalDiff`, `Classification.applies_immediately` |
| `Unassented`, `Approvable` | `unassented_changes`, `_require_only_the_changes_the_user_was_shown` |
| `AppendFills`, `ReplaceProposal`, `ChangeNothing` | the three outcomes of `PlanAdoption.adopt` |
| `Materialize` | the week producer for a week without a plan |

`slot.compared` is history: whether the plan is still the one the proposal was
compared with; `against` is the instant of the last write's comparison. An approval reads its clock
before it waits for the version row (`approvals/service.py:203-208`), so it compares at an instant
that may lie behind, even before the load of the solve it approves: `Approve(at)` takes any instant up to now. At such an
instant it may be refused (what the solve found settled is still a change then, and was not shown), and it never writes more than was shown.

| Property | Says |
|---|---|
| `AProposalHasAPlanUnderIt` | a pending proposal always has a plan of record |
| `AssentOutlivesTheWait` | while the plan has not moved, a proposal asks at every later instant for no more than it showed |
| `NothingMovesUnasked` | a held block is moved or dropped only by an approval that showed exactly that; exceptions: a fixed block already reached, and a block moved to begin at the very instant of comparison |
| `TheLivedWeekStands` | at the comparison's instant, a placed block that has started is neither moved nor dropped, and none is put into time already spent |

The second exception of `NothingMovesUnasked` is the disagreement of section 9.

## 5. Projection

One tenant's projection onto the calendar it writes to.

| Variable | In the code |
|---|---|
| `plan` | when each block of the horizon's plans, and each off-plan day segment, is |
| `today`, `reach`, `target` | the local date; the `horizon_days` setting; the designated write target's provider. `horizon` is the days that the first two cover (`horizon_span`) |
| `calendar` | what the provider holds. It is **outside the database**: no rollback reaches it |
| `ops` | rows of `operations` of kind PROJECTION: status, attempt, due, lapsed |
| `pass` | `TenantPass`: what was claimed, read and planned, and the writes still to send |
| `banner` | the target's `last_error` is set |
| `drift`, `abandoned`, `pass.fresh` | history: something changed that queues no projection; the reaper gave a claim up; nothing of the kind happened since this pass read |

A plan change appends a revision and queues an operation in one transaction. A
pass claims every due row (up to the drain limit), reads what is desired over the horizon from
the date of its tick (read before the claim; midnight may pass between: `pass.today`), lists the
provider's events, and computes the keyed reconciliation once: of several events with one
key the first is kept, an identical one is left alone, and foreign or surplus ones go. Patches are
sent before inserts and inserts before deletes, each on its own; a failed answer leaves unknown
whether the write was applied (`SendFails`). One transaction then closes all claims, or rolls back
because the reaper took one of them. Between any two steps the process may die, a
lease may lapse, the user may move, delete, add or copy events, and settings may change.

| Property | Says |
|---|---|
| `QuietIsShownOrStated` | with nothing in flight the calendar shows the plan, or a notice is up, or the reaper gave a claim up |
| `SucceededShowsWhatItRead` | a projection that succeeded left each event it read once, and nothing else |
| `NoWriteOpensAGap` | what is intended and shown is shown at every moment of the pass |
| `RightIsLeftAlone` | a pass over a calendar that is right writes nothing |
| `QueueDrains`, `PlanReachesThePhone` | a queued row ends; a plan change is shown, or stated, or overtaken |

The exclusions in these are findings about reach, not about a failure. A reaped claim
raises no notice. A change of horizon, target or off-plan period queues no projection of
its own: it reaches the calendar with the next plan change (`calendars/service.py:15-18`
and the docstring of `_bump_covered_weeks` read as if the bump were enough).

## 6. OutcomeRequests and HabitDebt

Requests that record one block's outcome or confirm a day, each one READ COMMITTED
transaction, cut into its statements: hold the key's advisory lock (never waits), claim its row,
take over an expired one or find and replay, write the log's rows, lock the habit's row,
walk the log, store the charge and the response, commit. `Rollback` may come between any two.

| Variable | In the code |
|---|---|
| `log` | `block_outcomes` of one habit: state, and the instant the day was settled at |
| `charge` | the habit's `charged_misses`; `walkedAt` is history |
| `keys` | `idempotency_keys` |
| `txn` | each request's open transaction: its phase, locks, rows not yet committed, the charge it computed |
| `ran` | history: executions committed under each key |

`HabitDebt` is `syncr_domain/debt.py`: misses and credits in the order they came due, a tie
reading the charge first, a credit settling a charge that stands or nothing.
`WalkIsTheLargestUncredited` compares the walk with a definition that has no walk: the
largest surplus of misses over credits in any later part of the log.

| Property | Says |
|---|---|
| `ChargeIsAWalkOfTheLog` | the stored charge is the walk of the whole committed log at some instant, whichever writers overlapped |
| `WalkIsTheLargestUncredited` | see above |
| `FirstConfirmationStands` | the instant a day was first settled at survives corrections and later confirmations |
| `AtMostOncePerWindow` | a key's work commits once in the window its claim opened, under retries, takeovers, the sweep and rollbacks |
| `ReplayAnswersWhatRan` | a replay answers a committed execution of this very request |
| `EveryRequestEnds` | key, row and habit locks are never waited for in a circle; a confirmation takes its rows in one step, so a circle among the rows of two confirmations is not looked for |

## 7. A week's capacity, and its solve

**`IntervalSets`** is `syncr_domain/intervals.py`: taken in order and merged
where members touch, cut, clipped. `IntervalsAreTheirMinutes` compares it with plain sets of
slots, and asks for the one canonical form, on every set of spans the week produces.

**`CapacityProbe`** is the netting (`placements`, `PlacedTime`, `area_budgets`,
`deadline_demands`) and the probe. `Holds` is the reference: some way to give out the free slots, one
content each, meets every floor and every deadline. It enumerates functions over slots
and uses no total, no Area competition and no order of deadlines.

**`WeekCapacity`** is the week as its user edits it: `Hold` (a pin to a new start), `Reject`
(a pin where it is), `Release`, `Record` (completed, skipped, partial, moved), `TimePasses`. No proposal is
pending in it: `pin()` takes the block from the pending proposal first (`pins/service.py:191-196`,
`:346-363`), so a pin of a block that only a proposal holds, or of the length it gives it, is not
among the edits. Every task has a deadline, from the week's start to its end. The code makes no demand of a task
without one and keeps a deadline outside the week (`plans/demand.py:106-111`): one past the end has
the free time up to the end, as the end itself has (and nets what a block does past the end as well), one
before the start has no free time, as the start has none.

**`WeekSolve`** is the solver over the same assembly. A solve inherits what has begun or is pinned,
fills gap by gap, one piece of the first candidate at a time, improves by moves, and its plan becomes the
week's plan. Every hard rule but the grid (H14) and slot duration (H5) is an operator (H1 to H4,
H6 to H13; `docs/invariants.md`). **The objective is a choice**: any accepted offer may be taken, any accepted
move may be accepted; so the properties hold whatever the terms and weights say. The budget of scored windows
(`filling.py:114-116`) is a choice too: a placement may log the refusals met on the way or may have ended its scan before
them; a start is not tried below its longest accepted length (`Checked`). A candidate nothing holds has been offered everywhere.

| Property | Says |
|---|---|
| `ProbeNeverRefusesAWeekThatHolds` | no gap is reported on a week that can still be done |
| `OneAreaIsReadExactly` | where one Area alone wants time and has a content to give it to, the totals are exact in the other direction as well |
| `IntervalsAreTheirMinutes` | the algebra is that of the minutes covered, in one canonical form |
| `NeitherAPinNorASkipHelps` | pinning a block where it is changes no gap; a skip makes none smaller |
| `WaitingNeverHelps` | a week proved impossible stays so while nothing is done |
| `ChoicesKeepTheRules` | whatever is chosen and moved: no overlap, caps, no block placed twice and no demand beyond what it owes, no floor put further out of reach |
| `HeldStaysHeld` | what was begun or pinned is in the result, where it was; a re-split may not lose a piece |
| `VerdictNamesWhatIsLeft` | a task the construction leaves short is named by the verdict |

What the exceptions inside these properties say about the code:

- *A pin can lapse.* A pin whose start is reached no longer constrains
  (`plans/placements.py:155-170`). Where no solve has moved the block there yet, the block reads again as
  the plan has it, and `WaitingNeverHelps` excludes that instant (`APinLapses`).
- *A later deadline's gap can shrink after a skip*: an earlier demand that misses more
  of its own minutes claims fewer of the next one's. `plans/reservations.py` says each of
  these moves enlarges or holds the gap; that is so of the week's verdict, of the floors, and of the
  first deadline, which is what `NoSmaller` asks.
- *Work reported in time to come* (`partial`, `moved`) counts as done and its time as free at once;
  `ReportsAhead` excludes it from the two properties it breaks.
- *Work can be left unnamed*: a task for which no gap is left at all is offered nowhere, nothing
  is refused, and the attempt's verdict does not name it (`syncr_solver/verdicts.py:69-105`,
  whose docstring speaks of each demand the attempt could not place).

Three more things the models follow and a reader may want to know. `PlacedTime.immovable_minutes_of_task`
(`plans/netting.py:242-255`) clips at `now`, while `Attempt.placed_minutes`
(`syncr_solver/attempt.py:213-231`) leaves out every pinned or begun piece as netted already: the minutes
of a pin still to come are netted by neither, so a splittable task is planned
for its pin and its full estimate (the docstrings of `attempt.py` and `inheritance.py` describe
the opposite; the tests of the assembler pin the clip). The rule for floors (H9) reads free time of the whole
week, the lived part included. No rule enforces a deadline: a piece placed after
it counts as placed.

## 8. Runs

| Run | Bounds | Distinct states |
|---|---|---|
| `pipeline_core` | tracked week with a plan; 8 rows, 2 concurrent requests, 3 opened in all, kinds pin/review/resolve/tradeoff, 1 worker, 1 crash, 2 attempts | 3.7 million |
| `pipeline_firstplan` | no row, no plan; 7 rows, 2 requests, kinds pin/task/resolve/tradeoff, 1 crash, 3 attempts, fairness | 362 thousand |
| `authority_core` | 2 placed and 1 fixed block, spans over hours 1 to 3 (abutting, nested, overlapping), instants 0 to 2 | 244 thousand |
| `projection_core` | 1 block and 1 off-plan segment over 2 days, a horizon of 1 or 2, 2 event ids, 2 rows, 2 attempts, claims of up to two, 1 drift, fairness | 855 thousand |
| `outcomes_core` | 2 occurrences and a make-up due with the second, 2 requests, 3 arrivals, 1 key, a window of one instant, fairness | 440 thousand |
| `week_core` | 4 slots, 2 Areas, 3 contents of up to 3 pieces; 4 weeks read (every plan of at most 2 blocks, 2 edits) and 5 weeks solved (from a plan after an edit, or twice from none, 2 moves) | 108 thousand |
| `pipeline_zone`, `_untracked`, `_tradeoff`, `_stranded`, `_session`, `authority_boundary` | the smallest instance that shows each finding | stop at the violation |

Why the bounds are enough. *Pipeline*: every race in the coordinator is between a request and
the worker, or between two requests over one row; a third opened request lets one
arrive after the race has been decided. Two attempts give one retry and one final
failure, and the other run uses the code's three. One crash is enough for a row
nobody runs; the next claim is an ordinary one. Identifiers never run out within
these bounds (`RowsSuffice` in `MCSolvePipeline`, to be added to a configuration
whose bounds change). *Authority*: starts at 1, 2 and 3 against instants 0 to 2 place a
block before, at and after a comparison, and leave one start always ahead. *Projection*: two event ids are enough for a copy, a
surplus event, and an insert beside an event to delete; two rows for a change that arrives under a
pass, and for a pass whose two claims roll back because one was reaped (a claim that leaves due rows behind is left to
the theorems, which hold for any drain limit); two days, midnight and a horizon of one or two days for an event inside, outside and
moved across; where all ids are held an insert waits for the user or fails, as a
full provider would refuse it. *Outcomes*: a tie, a credit before and after its miss, two concurrent
writers and a third request that finds what they left; one instant of retention lets a key expire under a request.
*Week*: the weeks are chosen so that floors compete, a
window is scoped to one Area, two deadlines of one Area share minutes, a cap binds on a day, a
task must be cut in three, a habit has a choice of length, and floors fit alone and
not together; four slots keep the reference search exhaustive.

The two requests of the pipeline are interchangeable, as are the two placed
blocks; symmetry is used in no run with a liveness property. Deadlock checking is
off because a week with no more requests, edits or time really stops.

**Fairness.** `pipeline_firstplan`: weak fairness of an open transaction's
next step (it commits or is rolled back), of each worker's loop (`solving/runner.py` drains
on every tick), of time passing over a row, and of the sweep (`solving/maintenance.py`, on its
own interval). `projection_core`: the same for its worker (`calendars/projection_runner.py`), time and sweep; a
worker may still die any number of times, since attempts are bounded. `outcomes_core`: weak
fairness of each open request's next statement; rollbacks, the sweep and time are not fair. No user is ever
assumed to ask, edit or approve, no solve and no external write is assumed to succeed:
`Fail` and `SendFails` are steps of their workers.

Each property of these runs is also shown to be breakable: for each, one
definition has a mutated form beside it (`AdmitsARival`, `DeletesSparingCopies`,
`KeepsItsOwnFloor` and so on, commented "a mutation"), and with it TLC finds
the property violated. No specification uses them.

## 9. Where the code and its documentation disagree

Each is a run that TLC ends with the counterexample.

1. **A zone change can be missed** (`AdoptsCurrentProfile`). `_assemble` reads the
   zone profile (`plans/assembler.py:278-280`) before the version (`:288`). An edit committed between them is
   in the version and not in the profile; the guard matches.
   `user_settings/solve_inputs.py:4-6` promises the mismatch.
2. **An edit of an untracked week can be missed** (`AdoptsCurrentInputs`, with a
   `task` request and no version row). The edit enumerates no row, another request
   creates it, the worker loads, the edit commits without a bump.
   `user_settings/solve_inputs.py:99-101` says there is no running solve to invalidate.
3. **A tradeoff that loses the close may find a row in flight**
   (`LosingTheCloseLeavesNothingInFlight`): the worker superseded the row first.
   The insert is refused by the index and the request fails.
   `solving/coordinator.py:313-314` says nothing is in flight.
4. **An edit that joined a running solve may get no follow-up**
   (`JoinedRunningSolveIsFollowedUp`): the run's last attempt fails before the
   conditional write that was to notice. `solving/coordinator.py:28-31`.
5. **The session flag of a joined request is lost** (`RecorderReadsTheRow`): the
   recorder is given the record of the claim. `solving/dispatch.py:428-429`.
6. **A block can move without assent, by one instant** (`MovesNeedAssent`): moved
   to begin exactly at the comparison's instant it is in no class
   (`plans/authority.py:193-209`) and not refused (`plans/settled.py:148-168`).
   `docs/prd.md:42`: "It may never move or remove a block without user assent."
   The docstring of `_stated_past` accepts one instant of drift, for a block the
   live plan does not hold; the code lets one it does hold through as well.

One more, found while proving `ChoicesKeepTheRules`, is in the model and has no run of its own. A block
that has begun and is pinned elsewhere is called unreachable (`plans/placements.py:28-33`, and the
docstring of `syncr_solver/immovability.py`). It is reached: pin a block to a later time, and let its
planned start arrive before a solve's plan has moved it. The solver then inherits it at the pin while
H10 holds it to the begun place. An atomic task that begins exactly at `now` has that place
still free ahead and is admitted a second time, since the rules on caps and floors and the netted
minutes skip what is already netted; the document refuses two blocks of one identity
(`syncr_domain/plan.py:398-422`) and the solve fails. `Raise` is that step, and `PinnedAway` in
`MCWeekSolve` the week that takes it.

## 10. Proofs

All statements hold for every value of the constants, under the modules' named
assumptions (the sets are disjoint and `NULL` is in none of them, the bounds are
naturals, a week has finitely many contents, spans are pairs of naturals with start before end). TLC evaluates these
assumptions in the runs.

`SolvePipelineProofs`:

- `SolveTypeOK`. `TypeOK` alone is not inductive: a worker past its claim must
  name a row (`JobHasARow`).
- `SolveSingleFlight`, `SolveSupersededIsCarriedOn`, `SolveProposalSucceeded`,
  `SolveTerminalIsFinal`. The argument goes through one lemma, `EveryRowsStep`:
  every step of the system does one of four things to the table (keeps it, moves one row
  along a legal edge, adds a pending row while none is in flight, or replaces a
  row in flight by a new one that it names and that carries its candidate). The
  invariants are then proved of these four shapes and not of each action again.
- `SolveAdoptsCurrentInputs`, assuming `WeekIsTracked` (the week has a version row
  at the start, or no request enumerates tracked weeks - finding 2 shows the
  assumption is needed). The invariant is `LockInv` (an open edit holds the version row, so
  does a worker in its guard) and `SnapshotInv` (a load's version is at most the
  current one, and where they are equal what was loaded is the week as it is). Each
  change of `inputs` or of `live` raises `version`: `WeekStep`.
- `SolveTakenOverWritesNothing`.

`PlanAuthorityProofs`:

- `AuthorityTypeOK`.
- `AuthorityProposalHasAPlan`, `AuthorityAssentOutlivesTheWait`. The invariant
  `SlotInv` says that while `compared` holds the stored diff contains all that the document drops or
  moves from the plan; `TimeOnlySettles` says a later instant only removes
  changes from a difference.
- `AuthorityNothingMovesUnasked`, `AuthorityLivedWeekStands`. From
  `ChangesAreClassified`: of two documents that state the past alike, every block
  they place differently is in a class or in one of the named exceptions; and
  `TheComparison`: whatever replaces the plan was compared with it.

`PlanOfRecordProofs`:

- `SolveImplementsPlanOfRecord`, for one worker process (`OneWorker`) and a `NULL` that is no
  number. Every step of `Spec` is shown to be one of the abstract steps or to leave
  the record alone (`RecordSimulates`). The invariant is `RecordInv`: the row a
  worker runs is stamped with the version that worker read. `EveryRowRestamped` says
  which steps touch a stamp; `AdoptAnswers` is the step where the guard's comparison
  makes the stamp the present version.
- `SolveLastResortIsFirst`, from the same invariant: with one worker nothing appends
  a plan between the check and the append.
- `SolveAskIsAnswered`, from `AnswerInv`: while an edit that saw a row in flight holds the version row
  nothing is adopted, so the row it will join is still in flight or has failed for good. One
  worker is necessary: of two that load one row, the later load stamps it with a version the earlier one did
  not read, and TLC finds an ask unanswered.

`OutcomeRequestsProofs`, for any number of requests, keys and blocks, any due times and any
retention; that `NULL` is no row is the assumption `NoKeyIsNoRow`. The invariant is `RequestInv`:

- `RowLocks`, `HabitLock` and `KeyLocks`: two open transactions share no row, at most one has
  walked, no two hold one key. The other parts lean on these.
- `OutcomesChargeIsAWalkOfTheLog` from `WalkInv`: one that has walked carries the walk of the log it
  will commit, and since no other can have walked, no commit slips in between.
- `OutcomesFirstConfirmationStands` from `SettledInv`: a row not yet committed keeps the
  instant the committed one was settled at.
- `OutcomesAtMostOncePerWindow` and `OutcomesReplayAnswersWhatRan` from `WindowInv`: a stored key is an
  execution that ran, and every other has run out or is no later than it; where one owns the key all have
  run out. The steps are first reduced to four shapes (`KeyOfAStep`: a
  transaction ends, opens, takes a free key, goes on).

- `OutcomesTypeOK` and `OutcomesWalkIsTheLargestUncredited`, from the next module.

`HabitDebtProofs`, for every log: `TheWalkIsTheLargestUncredited`. Some order is a walk
(`EverySetIsWalked`), the recursive function along it exists (`ChargesExist`) and what it
charges is the most misses that a later part of the walk leaves uncredited (`ChargeStaysTheMost`,
one row at a time). Rows due at one instant form a class in the walk, misses first, so the later
part with the most begins at the first row of a class and is one of the later parts of the log
that the definition compares (`LeftByIsALaterPart`). Two walks of one log may differ inside a
class; they charge the same.

`ProjectionProofs`, for any keys, days, reaches, events, rows and bounds (`ProjectionSets`,
`ProjectionBounds`, `NullIsNoEvent`). The invariant has three parts beside the types:

- `PassInv`: a pass holds claims, and goes by a plan that gives each key one time, inside its horizon.
- `WritingInv`: while nothing drifts, each intended event is settled (one event holds the key
  and is right or will be patched, all others of the key will be deleted) or to be
  inserted where none is, and every event of the horizon that is not intended will be deleted. It
  is what makes a pass that ends without a failure end right, whatever order the writes are
  sent in: `ListingSettles` (the reconciliation makes it true), `InsertSettles`,
  `PatchSettles` and `DeleteSettles` (each answered write keeps it).
- `QueueInv`: what a pass goes by is the live plan, or another projection is queued, or
  something changed that queues none, as midnight does between a tick and its pass's read.

From these `ProjectionTypeOK`, `ProjectionQuietIsShownOrStated`, `ProjectionNoWriteOpensAGap`,
`ProjectionRightIsLeftAlone` and `ProjectionSucceededShowsWhatItRead`.

`WeekCapacityProofs`, for a week of any length (`SlotBound`, `WeekBounds`, `CapacityBounds`): every
operation of the interval algebra gives *the* canonical form of the slots it is for (`Form`).
`SetOfCovers` is the merge of sorted members: by the order, nothing later starts before the
last member, so lengthening that one is enough (`JoinedLast`). `WithoutCovers` is the walk
of the cuts: `LeftAfter` says how far the member has been dealt with. `TotalCountsSlots` makes
the minutes of a canonical sequence the number of its slots, which would be false of members that
overlap. `FormOfUnion`, `FormOfSubtract`, `FormOfIntersect`, `FormOfBefore`, `FormOfAfter` and
`FormOfGaps` follow, and from them `TheAlgebraIsThatOfTheMinutes`.

The same module proves the probe's arithmetic, in four steps.

- *The probe is sound* (`TheProbeIsSound`). Suppose a way to give out the free slots that `Holds` asks
  for. `HoldsIsShared` reads off it a share `G[a]` of each Area and, inside it, a share `D[due]` of each
  demand, no two of them meeting (`Shares`). Each figure the probe takes is then at most a number
  of slots: a floor's minutes the size of `G[a]`, and the competition before a deadline
  (the larger of claims and of the floor that cannot come later) slots of the other Areas' shares
  (`CompetitionFits`). The walk over sorted demands has the invariant `WalkFits`: what an Area has
  claimed is at most the slots of its demands walked, and no gap is left. A refusal is therefore
  impossible (`SharedIsNeverRefused`).
- *What the walk says* without its accumulator. It reports no gap exactly when each demand is met after
  the sum of the demands due sooner (`NoGapIsMet`); it gives one gap for each demand, and the first
  due is computed from no claims (`TheGaps`).
- *A week made harder* (`Harder`: the free slots a subset, the floors and demands no smaller)
  stays refused (`HarderStaysRefused`), and `NoSmaller` holds of its verdict (`HarderIsNoSmaller`). Waiting
  (`WaitingIsHarder`) and doing less (`LessDoneIsHarder`) make a week harder. Sums over sets are
  compared as the sizes of sets with one member a unit (`Units`).
- *One Area is read exactly* (`OneAreaIsExact`). The totals that the walk accepted are given out, the
  earliest deadline first (`EarliestFirst`), then each demand's slots among its tasks
  (`TheDuesAreHanded`), and every slot that is left goes to a content of the Area, which meets the
  floor.

`WeekSolveProofs`, for any declarations, edits, number of solves and moves, and any choice of the
objective (`SolveBounds` besides). The invariant `WeekInv` has the types (`WeekIsTyped`) and

- `RulesInv`: what an attempt holds keeps the rules (`HeldOK`). Every choice and every move takes
  chosen pieces out and places others, each admitted against what is held then. `Removal`: rules survive
  taking pieces out; for the floors because the minutes freed are at least what the floors are owed
  again. `Addition`: they survive placing an admitted piece. A relocation, swap, resize or re-split is
  one after the other (`RelocationKeepsTheRules` and so on). The sums in the rules are
  cardinalities of minutes laid side by side, so they are compared as sets are.
- `RepackInv`, the same for a re-split between its steps.
- `GaveUpInv`: a task is given up only with a logged refusal, or with no gap left ahead.

From these `SearchKeepsTheRules`, `SearchKeepsWhatIsHeld`, `ShortTasksAreNamed`. From
`WeekCapacityProofs` and the types: `FiguresAreTheirMinutes`, `ProbeIsSound`,
`OneAreaIsExactlyRead`, and, with what one step does to the assembly (`OnlyTimeMovesNow`,
`OnlyARecordIsOfOneBlock`, `OnlyAnEditIsOfOnePin`), `WaitingDoesNotHelp` and `NeitherHelps`. The
exceptions in these two are used in their proofs: `APinLapses` in `PlacesOutliveAnHour`,
`ReportsAhead` in `NothingReportedAhead`.

Inductions over data (the rows of a walk, the members of a set, the places of a sequence) are
written as least counterexamples: the library's induction theorems take an operator, which the
provers cannot instantiate, but the least element of a set of naturals they find
(`LeastOfNaturals`, from the library's well-foundedness of `<`).

Model-checked only: `QueueDrains`, `PlanReachesThePhone` and `EveryRequestEnds`, since liveness
under fairness is beyond the proof system.

## 11. What is not modelled

- Of the modelled components: pruning of old rows, the checkpoint that abandons a
  solve early when its version has moved (an earlier mismatch, same outcome), conflicts
  raised by an adoption, the concession an approval persists, events and metrics; batching and
  rate limits of the projection, and what an event's text says; confirmation of ranges over many habits.
- Of the solver: the objective's terms and weights (floats; any accepted choice is
  allowed), the derivation of anchors' buffers and the binding of template slots, reasons, metrics,
  the grid, Area targets, make-ups and the content queue.
- An approval takes whatever the slot holds at that instant: the request names the
  week and no proposal (`approvals/api.py`), so a proposal that replaced the one
  on the user's screen is approved in its place. What a user has read is not part of
  the system's state, so no property states it.
- Verdict events. Rows are ordered by `(occurred_at, id)` and each surface commits its
  own; the maintainer takes no version-row lock, so two equal consecutive rows are possible, which VE2
  of `docs/invariants.md` excludes. A probe that finds no gap closes an episode that the
  solver proved.
- The horizon maintainer: its request is a bump and a request in one transaction, which is the
  pipeline's `OpenEdit`; it bumps also while a first solve runs, which `horizon/maintainer.py` describes
  as not happening.
- The age of a stored charge. The walk stops at the request's instant and nothing walks again
  when rows come due later, while `plans/assembler.py:354` reads the stored count
  (`outcomes/service.py:22-23` says it cannot fall behind the log). The migration that first
  filled the column credits only `completed` make-ups and does not stop at an instant.
- Calendar sync and anchors, conflicts, learned weights, server-sent events: what they do to a
  week is the pipeline's bump and request; the rest is parsing, unique keys and transport.
- The learning job (floating-point statistics), authentication and OAuth, database
  dumps and restores, deployment, the command line client and the web frontend (views
  of the api).
