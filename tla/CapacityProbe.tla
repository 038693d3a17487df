--------------------------- MODULE CapacityProbe ----------------------------
(***************************************************************************)
(* The capacity arithmetic over one assembly of a week: what its plan, its *)
(* pins and its outcomes net out of the Areas' floors and of the tasks'    *)
(* demands, what is free, and the gaps the feasibility probe reports.      *)
(* An assembly w is [week, now, plan, pins, outcomes].                     *)
(*                                                                         *)
(* Simplified: every task has a deadline, from the week's first instant to *)
(* its end.  The code makes no demand without one, and keeps a deadline    *)
(* outside the week: one past the end has the free time up to the end, as  *)
(* the end itself has, and nets also what a block does past the end; one   *)
(* before the start has no free time, as the start has none.               *)
(***************************************************************************)
EXTENDS IntervalSets, FiniteSetsExt

CONSTANTS
    Areas,       \* numbers: the order of identifiers
    Contents,    \* tasks and habit occurrences
    Blocks,      \* bindings: a content and the number of one piece of it
    AreaOf,      \* the Area of each content
    End,         \* the end of the week's span
    NULL

(* A content whose estimate is 0 is a habit occurrence: no deadline, no demand, a range of    *)
(* lengths from `least` to `most`.  `least` is the smallest piece of a splittable task.       *)
Declarations ==
    [taken: SUBSET Interval, scoped: [Areas -> SUBSET Interval],
     estimate: [Contents -> Nat], deadline: [Contents -> 0..End],
     least: [Contents -> Nat \ {0}], most: [Contents -> Nat],
     floor: [Areas -> Nat], cap: [Areas -> Nat], preferred: [Areas -> SUBSET Interval]]

ASSUME WeekBounds ==
    /\ Areas \subseteq Nat /\ IsFiniteSet(Areas)
    /\ IsFiniteSet(Contents) /\ AreaOf \in [Contents -> Areas]
    /\ Blocks \subseteq Contents \X Nat /\ IsFiniteSet(Blocks)
    /\ End \in 1..LastEnd
    /\ NULL \notin Interval \cup Contents

BlocksOf(c) == {b \in Blocks : b[1] = c}
BlocksIn(a) == {b \in Blocks : AreaOf[b[1]] = a}

Maybe(i) == IF i = NULL THEN {} ELSE {i}
Floored(x) == Larger(0, x)

-----------------------------------------------------------------------------
(* Netting: placements(), one per binding, and what each gives its content and its Area. *)

(* constraining(): a pin the week has reached is a record; the block reads as planned again. *)
Pinned(w, b) == w.pins[b] # NULL /\ w.pins[b].start > w.now
PlacedAt(w, b) == IF Pinned(w, b) THEN w.pins[b] ELSE w.plan[b]

Attributed(w, b) ==   \* attributed_span() of the final interval
    LET at == PlacedAt(w, b)
    IN  CASE at = NULL \/ w.outcomes[b].state = "skipped" -> {}
          [] at # NULL /\ w.outcomes[b].state = "moved" -> {w.outcomes[b].interval}
          [] at # NULL /\ w.outcomes[b].state = "partial" ->
                {Span(at.start, Smaller(at.start + w.outcomes[b].minutes, LastEnd))}   \* bound
          [] OTHER -> {at}
DoneOf(w, blocks) == SetOf(UNION {Attributed(w, b) : b \in blocks})

Committed(w) == SetOf(UNION {Maybe(PlacedAt(w, b)) : b \in Blocks})

(* _area_span(): behind `now` what the outcome gave, ahead of it what the placement holds. *)
AreaSpan(w, b) ==
    Members(Before(SetOf(Attributed(w, b)), w.now))
        \cup Members(After(SetOf(Maybe(PlacedAt(w, b))), w.now))
MinutesOfArea(w, a) == TotalMinutes(SetOf(UNION {AreaSpan(w, b) : b \in BlocksIn(a)}))

Reservations(w) ==
    {[area |-> a, minutes |-> Floored(w.week.floor[a] - MinutesOfArea(w, a))] : a \in Areas}

(* _probe_remaining_minutes(), with nothing recorded. *)
RemainingOfLived(w, c) ==   \* a mutation: the solver's figure, which nets no block still to come
    Floored(w.week.estimate[c]
                - TotalMinutes(Before(DoneOf(w, BlocksOf(c)), Smaller(w.now, w.week.deadline[c]))))
Remaining(w, c) ==
    Floored(w.week.estimate[c] - TotalMinutes(Before(DoneOf(w, BlocksOf(c)), w.week.deadline[c])))

(* deadline_demands(): the remaining minutes of the tasks of one Area due at one instant. *)
DueWith(w, c, d) == w.week.deadline[c] = w.week.deadline[d] /\ AreaOf[c] = AreaOf[d]
Demands(w) ==
    LET owed == {c \in Contents : w.week.estimate[c] > 0 /\ Remaining(w, c) > 0}
    IN  {[deadline |-> w.week.deadline[c], area |-> AreaOf[c],
          minutes |-> SumFunction([d \in {x \in owed : DueWith(w, c, x)} |-> Remaining(w, d)])]
            : c \in owed}

-----------------------------------------------------------------------------
(* What the probe reads: for_probe(). *)

Discretionary(w) == Subtract(<<Span(0, End)>>, SetOf(w.week.taken))

FreeWithSkips(w) ==   \* a mutation: a skipped hour goes back to capacity, and `now` does not clip
    Subtract(Discretionary(w),
             SetOf(UNION {Maybe(PlacedAt(w, b)) : b \in {x \in Blocks : w.outcomes[x].state # "skipped"}}))
Free(w) == Subtract(After(Discretionary(w), w.now), Committed(w))

ProbeInputs(w) == [free |-> Free(w), reservations |-> Reservations(w), demands |-> Demands(w),
                   scoped |-> w.week.scoped]

(* The probe: three checks over those inputs. *)
MinutesOf(wanted) == SumFunction([x \in wanted |-> x.minutes])
FreeFor(inputs, a) == Subtract(inputs.free, SetOf(inputs.scoped[a]))

FloorsGap(inputs) ==
    Floored(MinutesOf(inputs.reservations) - TotalMinutes(inputs.free))

(* _competing_minutes(): what the others take from the capacity this Area may claim. *)
CompetingMinutes(minutes, claimable, jointly) ==
    Floored(minutes - TotalMinutes(Subtract(jointly, claimable)))

(* _competition_before(): the larger of what an Area's earlier deadlines claimed and the part *)
(* of its floor that cannot come later; for the measured Area only what it claimed.           *)
EarlyFloor(inputs, r, deadline) == Floored(r.minutes - TotalMinutes(After(inputs.free, deadline)))
OthersOf(inputs, due) == {r \in inputs.reservations : r.area # due.area}
CompetitionSummed(inputs, due, claimed) ==   \* a mutation: the same minutes are counted twice
    claimed[due.area]
        + SumFunction([r \in OthersOf(inputs, due) |->
                           claimed[r.area] + EarlyFloor(inputs, r, due.deadline)])
CompetitionForgotten(inputs, due, claimed) ==   \* a mutation: the Area's earlier deadlines claim nothing
    SumFunction([r \in OthersOf(inputs, due) |->
                     Larger(claimed[r.area], EarlyFloor(inputs, r, due.deadline))])
CompetitionBefore(inputs, due, claimed) ==
    claimed[due.area]
        + SumFunction([r \in OthersOf(inputs, due) |->
                           Larger(claimed[r.area], EarlyFloor(inputs, r, due.deadline))])

(* _demands_against_their_deadlines(): the walk over the demands, earliest first. *)
EarlierDue(x, y) == x.deadline < y.deadline \/ (x.deadline = y.deadline /\ x.area < y.area)
Available(inputs, due, claimed) ==
    LET claimable == Before(FreeFor(inputs, due.area), due.deadline)
        competing == CompetingMinutes(CompetitionBefore(inputs, due, claimed), claimable,
                                      Before(inputs.free, due.deadline))
    IN  Floored(TotalMinutes(claimable) - competing)
Walked(inputs, walk, due) ==
    LET available == Available(inputs, due, walk.claimed)
        gap == Floored(due.minutes - available)
    IN  [claimed |-> [walk.claimed EXCEPT ![due.area] = @ + Smaller(available, due.minutes)],
         gaps |-> walk.gaps \cup {[deadline |-> due.deadline, area |-> due.area, minutes |-> gap]}]
LastDue(demands) == CHOOSE due \in demands : \A d \in demands \ {due} : EarlierDue(d, due)
DeadlineGaps(inputs) ==
    MapThenFoldSet(LAMBDA due, walk : Walked(inputs, walk, due),
                   [claimed |-> [a \in Areas |-> 0], gaps |-> {}],
                   LAMBDA due : due, LastDue, inputs.demands).gaps

(* _floors_against_their_own_areas(). *)
AreaGap(inputs, r) ==
    LET claimable == FreeFor(inputs, r.area)
        elsewhere == MinutesOf({due \in inputs.demands : due.area # r.area})
        competing == CompetingMinutes(elsewhere, claimable, inputs.free)
    IN  Floored(r.minutes - Floored(TotalMinutes(claimable) - competing))
AreaGaps(inputs) ==
    {[area |-> r.area, minutes |-> AreaGap(inputs, r)] : r \in inputs.reservations}

(* The shortfalls reported, each with its gap; one whose gap is 0 is not reported. *)
ProbeOf(inputs) ==
    [floors |-> FloorsGap(inputs), deadlines |-> DeadlineGaps(inputs), areas |-> AreaGaps(inputs)]
VerdictOf(w) == ProbeOf(ProbeInputs(w))
Refuses(verdict) ==
    \/ verdict.floors > 0
    \/ \E gap \in verdict.deadlines \cup verdict.areas : gap.minutes > 0

-----------------------------------------------------------------------------
(* The reference: a way to give out the free slots, one content each, that leaves every floor *)
(* met and every task done before its deadline.  Slots and contents, no totals.               *)
Work(w, c) ==
    [content |-> c, area |-> AreaOf[c], wants |-> w.week.estimate[c],
     done |-> {t \in SlotsOf(DoneOf(w, BlocksOf(c))) : t < w.week.deadline[c]},
     open |-> (SlotsOf(Free(w)) \ SlotsOf(SetOf(w.week.scoped[AreaOf[c]])))]
AreaSlots(w, a) == UNION {SlotsOf(SetOf(AreaSpan(w, b))) : b \in BlocksIn(a)}

Holds(w) ==
    LET free == SlotsOf(Free(w))
        works == {Work(w, c) : c \in Contents}
        floors == {[area |-> a, slots |-> AreaSlots(w, a)] : a \in Areas}
    IN  \E to \in [free -> Contents \cup {NULL}] :
            /\ \A x \in works :
                LET given == {t \in free : to[t] = x.content}
                IN  /\ given \subseteq x.open
                    /\ Cardinality(x.done \cup {t \in given : t < w.week.deadline[x.content]}) >= x.wants
            /\ \A f \in floors :
                Cardinality(f.slots \cup {t \in free : to[t] # NULL /\ AreaOf[to[t]] = f.area})
                    >= w.week.floor[f.area]

=============================================================================
