---------------------------- MODULE WeekCapacity ----------------------------
(***************************************************************************)
(* One week as its user edits it: blocks are pinned and released, outcomes *)
(* are recorded, and time passes.  Each edit is answered with the probe's  *)
(* verdict over the assembly of that instant.                              *)
(*                                                                         *)
(* Simplified:                                                             *)
(*  - the week's declarations and its first plan are chosen at the start;  *)
(*  - frame, anchors, absolute windows and off-plan periods are one set of *)
(*    taken intervals;                                                     *)
(*  - a task's recorded minutes are 0, which is all the code ever stores;   *)
(*    duration multipliers are in the estimates;                           *)
(*  - no proposal is pending: pin() takes the block from the pending       *)
(*    proposal first, so a pin of a block the live plan does not hold, or  *)
(*    of the length only a proposal gives it, is not among the edits;      *)
(*  - targets, labels and what a shortfall is honoring are left out.        *)
(***************************************************************************)
EXTENDS CapacityProbe

CONSTANTS
    Starts,      \* what a week declares, its live plan, and how many edits and solves it sees
    MovedTo      \* bound: the intervals a moved block is reported in

(* A week's plan holds the blocks that start in the week. *)
OfTheWeek == {i \in Interval : i.start < End}

(* An occurrence is one block. *)
ASSUME CapacityBounds ==
    /\ Starts \subseteq
         [week: Declarations, plan: [Blocks -> OfTheWeek \cup {NULL}], edits: Nat, solves: Nat]
    /\ \A s \in Starts, b \in Blocks : s.week.estimate[b[1]] = 0 => b[2] = 0
    /\ MovedTo \subseteq Interval

VARIABLES
    week,      \* what the week declares
    now,
    plan,      \* the live plan: the interval of each block it holds
    pins,      \* each pinned block's interval
    outcomes,  \* each block's recorded outcome
    edits      \* bound: the pins and outcomes still to make

vars == <<week, now, plan, pins, outcomes, edits>>

NoOutcome == [state |-> "presumed", minutes |-> 0, interval |-> NULL]
Outcomes ==
    {NoOutcome, [NoOutcome EXCEPT !.state = "completed"], [NoOutcome EXCEPT !.state = "skipped"]}
        \cup {[NoOutcome EXCEPT !.state = "partial", !.minutes = m] : m \in {1, 2}}
        \cup {[NoOutcome EXCEPT !.state = "moved", !.interval = i] : i \in MovedTo}

Init ==
    /\ \E s \in Starts : week = s.week /\ plan = s.plan /\ edits = s.edits
    /\ now = 0
    /\ pins = [b \in Blocks |-> NULL]
    /\ outcomes = [b \in Blocks |-> NoOutcome]

Assembly == [week |-> week, now |-> now, plan |-> plan, pins |-> pins, outcomes |-> outcomes]

-----------------------------------------------------------------------------
(* What the user does to the week. *)

StartsAnywhere(i) == TRUE   \* a mutation: the span is not asked for
StartsInsideTheWeek(i) == i.start < End

(* pin(): a block the plan has not begun, moved whole to a start still ahead. *)
Hold(b) ==
    /\ edits > 0
    /\ plan[b] # NULL
    /\ plan[b].start > now
    /\ \E from \in Slots :
        LET accepted == Span(from, from + Duration(plan[b]))
        IN  /\ from > now
            /\ StartsInsideTheWeek(accepted)
            /\ accepted.end <= LastEnd   \* bound
            /\ pins' = [pins EXCEPT ![b] = accepted]
    /\ edits' = edits - 1
    /\ UNCHANGED <<week, now, plan, outcomes>>

(* reject(): the block is pinned where the plan of record has it, begun or not. *)
Reject(b) ==
    /\ edits > 0
    /\ plan[b] # NULL
    /\ pins' = [pins EXCEPT ![b] = plan[b]]
    /\ edits' = edits - 1
    /\ UNCHANGED <<week, now, plan, outcomes>>

Release(b) ==
    /\ edits > 0
    /\ pins[b] # NULL
    /\ pins' = [pins EXCEPT ![b] = NULL]
    /\ edits' = edits - 1
    /\ UNCHANGED <<week, now, plan, outcomes>>

(* OutcomeService.record(): what happened in a block the plan holds. *)
Record(b) ==
    /\ edits > 0
    /\ plan[b] # NULL
    /\ \E outcome \in Outcomes : outcomes' = [outcomes EXCEPT ![b] = outcome]
    /\ edits' = edits - 1
    /\ UNCHANGED <<week, now, plan, pins>>

TimePasses ==
    /\ now < End
    /\ now' = now + 1
    /\ UNCHANGED <<week, plan, pins, outcomes, edits>>

Next ==
    \/ \E b \in Blocks : Hold(b) \/ Reject(b) \/ Release(b) \/ Record(b)
    \/ TimePasses

Spec == Init /\ [][Next]_vars

-----------------------------------------------------------------------------
(* Properties. *)

TypeOK ==
    /\ week \in {s.week : s \in Starts}
    /\ now \in 0..End
    /\ plan \in [Blocks -> OfTheWeek \cup {NULL}]
    /\ pins \in [Blocks -> OfTheWeek \cup {NULL}]
    /\ outcomes \in [Blocks -> Outcomes]
    /\ edits \in Nat

(* The probe proves a week impossible only when it is: no gap is reported on a week whose     *)
(* free slots can still be given out so that every floor and every deadline is met (probe.py, *)
(* "the one direction this arithmetic may not take").                                         *)
ProbeNeverRefusesAWeekThatHolds == Refuses(VerdictOf(Assembly)) => ~Holds(Assembly)

ReportsAhead ==
    \E b \in Blocks :
        outcomes[b].state \in {"partial", "moved"} /\ After(SetOf(Attributed(Assembly, b)), now) # <<>>

(* Where one Area alone wants anything, it has a content to give the time to, and no window   *)
(* is scoped, the totals are exact: what cannot be met is reported, whichever deadline it     *)
(* misses (the walk's accumulation).  Not so while an outcome reports work still to come:     *)
(* that time is counted done and free at once.                                                *)
Wants(a) == week.floor[a] > 0 \/ \E c \in Contents : AreaOf[c] = a /\ week.estimate[c] > 0
OneAreaIsReadExactly ==
    /\ \E a \in Areas : (\E c \in Contents : AreaOf[c] = a) /\ \A b \in Areas : Wants(b) => b = a
    /\ (\A a \in Areas : week.scoped[a] = {})
    /\ ~ReportsAhead
    => Refuses(VerdictOf(Assembly)) \/ Holds(Assembly)

(* The algebra is the algebra of the minutes covered, and writes each set of them one way     *)
(* (intervals.py): the committed blocks, the week's windows and what is free of both.         *)
IntervalsAreTheirMinutes ==
    LET w == Assembly
        free == Free(w)
        committed == Committed(w)
        discretionary == Discretionary(w)
        placed == UNION {SlotsOf(<<i>>) : i \in UNION {Maybe(PlacedAt(w, b)) : b \in Blocks}}
        open == (0..(End - 1)) \ UNION {SlotsOf(<<i>>) : i \in week.taken}
        ahead == {t \in open : t >= now}
    IN  /\ Covers(discretionary, open)
        /\ Covers(committed, placed)
        /\ Covers(free, ahead \ placed)
        /\ Covers(Union(free, committed), ahead \cup placed)
        /\ Covers(Intersect(discretionary, committed), open \cap placed)
        /\ Covers(Before(committed, now), {t \in placed : t < now})
        /\ Covers(Gaps(committed, Span(0, End), 1), (0..(End - 1)) \ placed)

(* Pinning a block where it is changes no gap, and recording that a block was skipped makes   *)
(* none smaller (reservations.py, "neither a pin nor a skip can improve the verdict"): not    *)
(* that of the floors together, of one Area's floor, or of the first deadline.  A later       *)
(* deadline's gap can shrink, because an earlier demand that misses more of its own minutes   *)
(* claims fewer of those the later one counts on.                                             *)
Largest(gaps) == IF gaps = {} THEN 0 ELSE Max({gap.minutes : gap \in gaps})
FirstDue(gaps) == {gap \in gaps : \A g \in gaps : g = gap \/ EarlierDue(gap, g)}
NoSmaller(before, after) ==
    /\ after.floors >= before.floors
    /\ \A gap \in FirstDue(before.deadlines) :
        Largest({g \in after.deadlines : g.deadline = gap.deadline /\ g.area = gap.area}) >= gap.minutes
    /\ \A gap \in before.areas : Largest({g \in after.areas : g.area = gap.area}) >= gap.minutes
    /\ Refuses(before) => Refuses(after)
Skips(b) == outcomes[b] # outcomes'[b] /\ outcomes'[b].state = "skipped"
PinsInPlace(b) == pins[b] # pins'[b] /\ pins'[b] = PlacedAt(Assembly, b)
NeitherAPinNorASkipHelps ==
    [][/\ (\E b \in Blocks : Skips(b)) => NoSmaller(VerdictOf(Assembly), VerdictOf(Assembly'))
       /\ (\E b \in Blocks : PinsInPlace(b)) => VerdictOf(Assembly') = VerdictOf(Assembly)]_vars

(* A week proved impossible stays so as time passes and nothing is done (probe.py, "not doing *)
(* the work improved the verdict" is closed), unless an outcome already reports work in time  *)
(* still to come, or a pin the plan does not show yet stops constraining at that instant.     *)
APinLapses == \E b \in Blocks : pins[b] # NULL /\ pins[b].start = now + 1 /\ pins[b] # plan[b]
WaitingNeverHelps ==
    [][now' # now /\ ~ReportsAhead /\ ~APinLapses /\ Refuses(VerdictOf(Assembly))
            => Refuses(VerdictOf(Assembly'))]_vars

=============================================================================
