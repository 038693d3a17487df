----------------------------- MODULE WeekSolve ------------------------------
(***************************************************************************)
(* The edited week and its solves.  A solve takes one assembly, keeps what *)
(* the week holds, fills the gaps one piece at a time, improves what it    *)
(* chose by moves, and its plan becomes the live plan.                     *)
(*                                                                         *)
(* Simplified:                                                             *)
(*  - an edit waits for the solve to end: one that lands under a running   *)
(*    solve supersedes it (SolvePipeline), and the plan is adopted or      *)
(*    approved (PlanAuthority);                                            *)
(*  - the objective is a choice: any of the offers it may score, any move  *)
(*    accepted or not;                                                     *)
(*  - what derivation places is taken time; templates declare no slots;    *)
(*    no occurrence is owed from before, none draws from the backlog, no   *)
(*    Area has a target; every bound is on the grid.                       *)
(***************************************************************************)
EXTENDS WeekCapacity

CONSTANTS
    DayLength,   \* the days of the week, for the daily caps
    MaxMoves     \* bound: moves a search accepts

ASSUME SolveBounds == DayLength \in 1..End /\ MaxMoves \in Nat

VARIABLES
    solve,       \* the attempt: its phase, what it holds, whom it gave up on, whom it refused,
                 \* the moves accepted, and the task a re-split is packing again
    solvesLeft   \* bound: the solves still to run

solveVars == <<week, now, plan, pins, outcomes, edits, solve, solvesLeft>>

IdleSolve ==
    [phase |-> "idle", held |-> {}, exhausted |-> {}, refused |-> {}, moves |-> 0, packing |-> NULL]

WeekInit ==
    /\ Init
    /\ solve = IdleSolve
    /\ \E s \in Starts : <<week, plan, edits>> = <<s.week, s.plan, s.edits>> /\ solvesLeft = s.solves

-----------------------------------------------------------------------------
(* What the week holds, and the figures a solve reads: the solver's, net of what has begun or *)
(* is pinned.  A task's nets only what is already lived, an Area's floor also pinned time to  *)
(* come.                                                                                      *)

SlotsIn(i) == i.start..(i.end - 1)
SlotsHeld(held) == UNION {SlotsIn(h.at) : h \in held}
OfContent(held, c) == {h \in held : h.block[1] = c}
OfArea(held, a) == {h \in held : AreaOf[h.block[1]] = a}

Begun(w, b) == w.plan[b] # NULL /\ w.plan[b].start <= w.now
AlreadyNetted(w, b) == Begun(w, b) \/ Pinned(w, b)

(* inherited(): the block at its pin where it has one, else where the plan began it. *)
Inherited(w) ==
    {[block |-> b, at |-> PlacedAt(w, b), chosen |-> FALSE] : b \in {x \in Blocks : AlreadyNetted(w, x)}}

Owes(w, c) ==   \* _solver_remaining_minutes()
    LET done == SlotsOf(DoneOf(w, {b \in BlocksOf(c) : AlreadyNetted(w, b)}))
    IN  Floored(w.week.estimate[c] - Cardinality({t \in done : t < w.now}))

WorkedSlots(w, b) == SlotsOf(SetOf(Attributed(w, b))) \cap SlotsIn(PlacedAt(w, b))
FloorLeft(w, a) ==   \* AreaBudget.floor_minutes
    Floored(w.week.floor[a]
                - Cardinality(UNION {WorkedSlots(w, b) : b \in {x \in BlocksIn(a) : AlreadyNetted(w, x)}}))

Unnetted(w, held) == {h \in held : ~AlreadyNetted(w, h.block)}
PlacedMinutes(w, held, c) ==   \* the pieces' minutes, laid side by side
    Cardinality(UNION {{h} \X SlotsIn(h.at) : h \in OfContent(Unnetted(w, held), c)})
Left(w, held, c) == Owes(w, c) - PlacedMinutes(w, held, c)

-----------------------------------------------------------------------------
(* The hard rules a placement p is judged by, against what is held. *)

Claimable(w) == (0..(End - 1)) \ UNION {SlotsIn(i) : i \in w.week.taken}

FreeOfTheWeek(w, p) ==   \* H1, H2, H3, H12, H13
    /\ SlotsIn(p.at) \subseteq Claimable(w)
    /\ \A i \in w.week.scoped[AreaOf[p.block[1]]] : ClippedTo(p.at, i) = {}

FreeOfBlocks(w, held, p) ==   \* H4
    /\ \A h \in held : ClippedTo(p.at, h.at) = {}
    /\ \A b \in Blocks \ {p.block} : Begun(w, b) => ClippedTo(p.at, w.plan[b]) = {}

Day(t) == t \div DayLength
WithinCap(w, held, p) ==   \* H8
    \A d \in {Day(t) : t \in SlotsIn(p.at)} :
        Cardinality({t \in SlotsHeld(OfArea(held \cup {p}, AreaOf[p.block[1]])) : Day(t) = d})
            <= w.week.cap[AreaOf[p.block[1]]]

(* H9: the floors the week arrived with room for, against the time left for them. *)
Reserved(w, held) ==
    LET arriving == Claimable(w) \ SlotsHeld({h \in held : AlreadyNetted(w, h.block)})
    IN  {a \in Areas : FloorLeft(w, a) <= Cardinality(arriving)}
FloorOwed(w, held, a) ==
    Floored(FloorLeft(w, a) - Cardinality(SlotsHeld(OfArea(Unnetted(w, held), a))))
FloorsOwed(w, held) ==   \* the Areas' minutes, laid side by side
    Cardinality(UNION {{a} \X (1..FloorOwed(w, held, a)) : a \in Reserved(w, held)})
Shortfall(w, held) ==
    FloorsOwed(w, held) - Cardinality(Claimable(w) \ SlotsHeld(held))
KeepsItsOwnFloor(w, held, p) ==   \* a mutation: no other Area's floor is asked for
    FloorOwed(w, held \cup {p}, AreaOf[p.block[1]]) <= Cardinality(Claimable(w) \ SlotsHeld(held \cup {p}))
KeepsFloors(w, held, p) ==
    Shortfall(w, held \cup {p}) <= Floored(Shortfall(w, held))

StaysWhereHeld(w, p) ==   \* H10, H11
    /\ Begun(w, p.block) => p.at = w.plan[p.block]
    /\ ~Begun(w, p.block) /\ Pinned(w, p.block) => p.at = w.pins[p.block]

Legal(w, held, p) ==
    /\ FreeOfTheWeek(w, p)
    /\ FreeOfBlocks(w, held, p)
    /\ AlreadyNetted(w, p.block) \/ (WithinCap(w, held, p) /\ KeepsFloors(w, held, p))
    /\ StaysWhereHeld(w, p)

-----------------------------------------------------------------------------
(* Candidates and the offers of one: a length at a start of a gap. *)

IsHabit(w, c) == w.week.estimate[c] = 0
Splittable(w, c) == ~IsHabit(w, c) /\ \E b, d \in BlocksOf(c) : b # d

Candidates(w, held) ==
    {c \in Contents : IF IsHabit(w, c) THEN OfContent(held, c) = {} ELSE Left(w, held, c) > 0}

(* order_key(): the largest unmet floor of its Area, then the earliest deadline. *)
UnmetFloor(w, held, a) ==
    LET netted == SlotsHeld(held \ Unnetted(w, held))
    IN  Floored(FloorLeft(w, a) - Cardinality(SlotsHeld(OfArea(held, a)) \ netted))
DueBy(w, c) == IF IsHabit(w, c) THEN End + 1 ELSE w.week.deadline[c]
OfferedBefore(w, held, c, d) ==
    LET unmet(x) == UnmetFloor(w, held, AreaOf[x])
    IN  \/ unmet(c) > unmet(d)
        \/ unmet(c) = unmet(d) /\ DueBy(w, c) < DueBy(w, d)
        \/ unmet(c) = unmet(d) /\ DueBy(w, c) = DueBy(w, d) /\ AreaOf[c] < AreaOf[d]
FirstOffered(w, held, contents) ==
    {c \in contents : \A d \in contents : ~OfferedBefore(w, held, d, c)}

(* The chunk number: the lowest no piece of the task has taken. *)
Numbers(held, c) == {h.block[2] : h \in OfContent(held, c)}
LowestFree(numbers) ==
    CHOOSE n \in 0..Cardinality(numbers) : n \notin numbers /\ 0..(n - 1) \subseteq numbers
NextBlock(w, held, c) ==
    IF Splittable(w, c) THEN <<c, LowestFree(Numbers(held, c))>> ELSE <<c, 0>>

GapsAhead(w, held) ==
    LET open == {t \in Claimable(w) : t >= w.now} \ SlotsHeld(held)
    IN  {i \in Interval : SlotsIn(i) \subseteq open /\ i.start - 1 \notin open /\ i.end \notin open}

StartsIn(w, c, gap) ==
    {gap.start} \cup {i.start : i \in {x \in w.week.preferred[AreaOf[c]] : x.start \in SlotsIn(gap)}}

(* A task packs to the room, leaving a tail that can still be placed; a habit takes a length  *)
(* of its range.                                                                              *)
SmallestPiece(w, held, c) == IF Splittable(w, c) THEN w.week.least[c] ELSE Left(w, held, c)
Usable(w, held, c, length) ==
    LET tail == Left(w, held, c) - length
        smallest == SmallestPiece(w, held, c)
        shorter == length - (smallest - tail)
    IN  IF tail <= 0 \/ tail >= smallest \/ shorter < smallest THEN length ELSE shorter
LengthsThatFit(w, held, c, room) ==   \* a mutation: what a gap cannot hold is not offered
    IF IsHabit(w, c) THEN {n \in w.week.least[c]..w.week.most[c] : n <= room}
    ELSE {n \in {Usable(w, held, c, Smaller(Left(w, held, c), room))} : n >= SmallestPiece(w, held, c)}
Lengths(w, held, c, room) ==
    IF IsHabit(w, c) THEN {n \in w.week.least[c]..w.week.most[c] : n <= room}
    ELSE {Usable(w, held, c, Smaller(Left(w, held, c), room))}

OffersIn(w, held, c, gap) ==
    UNION {{[block |-> NextBlock(w, held, c), at |-> Span(from, from + n), chosen |-> TRUE]
               : n \in Lengths(w, held, c, gap.end - from)} : from \in StartsIn(w, c, gap)}
Offers(w, held, c) == UNION {OffersIn(w, held, c, gap) : gap \in GapsAhead(w, held)}

WholeEnough(w, held, c, p) ==   \* H6, H7
    IsHabit(w, c) \/ Duration(p.at) >= SmallestPiece(w, held, c)
Accepted(w, held, c, offers) ==
    {p \in offers : /\ p.block \in Blocks   \* bound
                    /\ WholeEnough(w, held, c, p)
                    /\ Legal(w, held, p)}

(* Within one start the first length accepted is the longest. *)
Longest(offers) ==
    {p \in offers : \A q \in offers : q.at.start = p.at.start => q.at.end <= p.at.end}

-----------------------------------------------------------------------------
(* The solve. *)

Solving(phase) == solve.phase = phase
ChosenOrHeld == solve.held   \* a mutation: a move may take what the week holds
Chosen == {h \in solve.held : h.chosen}

StartSolve ==
    /\ Solving("idle")
    /\ solvesLeft > 0
    /\ solvesLeft' = solvesLeft - 1
    /\ solve' = [IdleSolve EXCEPT !.phase = "fill", !.held = Inherited(Assembly)]
    /\ UNCHANGED vars

(* fill_gaps(): one round; a candidate nothing takes is given up, its refusals logged.  The    *)
(* document an offer is scored by holds one block per binding.  A start is left at its longest *)
(* accepted length, and the budget of scored windows may end the scan before a refusal.        *)
NextInOrder ==
    FirstOffered(Assembly, solve.held, Candidates(Assembly, solve.held) \ solve.exhausted)
Scorable(held, p) == \A h \in held : h.block # p.block
Checked(offers, accepted) ==
    {p \in offers : \A q \in accepted : q.at.start = p.at.start => q.at.end <= p.at.end}

Fill ==
    /\ Solving("fill")
    /\ \E c \in NextInOrder :
        LET offers == Offers(Assembly, solve.held, c)
            accepted == Accepted(Assembly, solve.held, c, offers)
            refused == IF Checked(offers, accepted) \subseteq accepted THEN {} ELSE {c}
        IN  \/ \E p \in Longest(accepted), logged \in SUBSET refused :
                /\ Scorable(solve.held, p)
                /\ solve' = [solve EXCEPT !.held = @ \cup {p}, !.refused = @ \cup logged]
            \/ /\ accepted = {}
               /\ solve' = [solve EXCEPT !.exhausted = @ \cup {c}, !.refused = @ \cup refused]
    /\ UNCHANGED <<vars, solvesLeft>>

(* PlanError: H10 admits an atomic task again where the live plan begins it at this instant,  *)
(* though a pin holds it elsewhere.  The solve fails and the week is as it was.               *)
Raise ==
    /\ Solving("fill")
    /\ \E c \in NextInOrder :
        \E p \in Longest(Accepted(Assembly, solve.held, c, Offers(Assembly, solve.held, c))) :
            ~Scorable(solve.held, p)
    /\ solve' = IdleSolve
    /\ UNCHANGED <<vars, solvesLeft>>

Filled ==
    /\ Solving("fill")
    /\ Candidates(Assembly, solve.held) \subseteq solve.exhausted
    /\ solve' = [solve EXCEPT !.phase = "improve"]
    /\ UNCHANGED <<vars, solvesLeft>>

(* The moves: what a chosen block leaves behind is rebuilt, and the block offered into it. *)
Moved(h, from) == [h EXCEPT !.at = Span(from, from + Duration(h.at))]
Improved(held) ==
    /\ solve.moves < MaxMoves
    /\ solve' = [solve EXCEPT !.held = held, !.moves = @ + 1]
    /\ UNCHANGED <<vars, solvesLeft>>

Relocate ==
    /\ Solving("improve")
    /\ \E h \in Chosen :
        LET rest == solve.held \ {h}
        IN  \E gap \in GapsAhead(Assembly, rest) : \E from \in StartsIn(Assembly, h.block[1], gap) :
                /\ from # h.at.start
                /\ from + Duration(h.at) <= gap.end
                /\ Legal(Assembly, rest, Moved(h, from))
                /\ Improved(rest \cup {Moved(h, from)})

Swap ==
    /\ Solving("improve")
    /\ \E h, k \in Chosen :
        LET rest == solve.held \ {h, k}
            one == Moved(h, k.at.start)
            other == Moved(k, h.at.start)
        IN  /\ h # k
            /\ Duration(h.at) = Duration(k.at)
            /\ Legal(Assembly, rest, one)
            /\ Legal(Assembly, rest \cup {one}, other)
            /\ Improved(rest \cup {one, other})

Resize ==
    /\ Solving("improve")
    /\ \E h \in Chosen :
        LET c == h.block[1]
            rest == solve.held \ {h}
            around == {gap \in GapsAhead(Assembly, rest) : h.at.start \in SlotsIn(gap)}
            offers == UNION {OffersIn(Assembly, rest, c, gap) : gap \in around}
        IN  /\ IsHabit(Assembly, c)
            /\ \E p \in Accepted(Assembly, rest, c, offers) :
                /\ p.at # h.at
                /\ Improved(rest \cup {p})

(* _repacked(): a task's chosen pieces dropped, then one more piece at a window the rules     *)
(* accept, until nothing is left or fits; where nothing fits at all it is no move.            *)
Pieces(w, held, c) ==
    IF Left(w, held, c) > 0 THEN Accepted(w, held, c, Offers(w, held, c)) ELSE {}

Resplit ==
    /\ Solving("improve")
    /\ solve.moves < MaxMoves
    /\ \E c \in {h.block[1] : h \in Chosen} :
        LET rest == solve.held \ OfContent(Chosen, c)
        IN  /\ ~IsHabit(Assembly, c)
            /\ \E p \in Pieces(Assembly, rest, c) :
                solve' = [solve EXCEPT !.phase = "repack", !.packing = c,
                                       !.held = rest \cup {p}, !.moves = @ + 1]
    /\ UNCHANGED <<vars, solvesLeft>>

Repack ==
    /\ Solving("repack")
    /\ \E p \in Pieces(Assembly, solve.held, solve.packing) :
        solve' = [solve EXCEPT !.held = @ \cup {p}]
    /\ UNCHANGED <<vars, solvesLeft>>

Repacked ==
    /\ Solving("repack")
    /\ Pieces(Assembly, solve.held, solve.packing) = {}
    /\ solve' = [solve EXCEPT !.phase = "improve", !.packing = NULL]
    /\ UNCHANGED <<vars, solvesLeft>>

(* The plan of the attempt is what the week lives from then on. *)
Finish ==
    /\ Solving("improve")
    /\ plan' = [b \in Blocks |->
                   IF \E h \in solve.held : h.block = b
                   THEN (CHOOSE h \in solve.held : h.block = b).at ELSE NULL]
    /\ solve' = IdleSolve
    /\ UNCHANGED <<week, now, pins, outcomes, edits, solvesLeft>>

SolveStep ==
    \/ StartSolve \/ Fill \/ Raise \/ Filled
    \/ Relocate \/ Swap \/ Resize \/ Resplit \/ Repack \/ Repacked
    \/ Finish
WeekStep == Solving("idle") /\ Next /\ UNCHANGED <<solve, solvesLeft>>
WeekNext == SolveStep \/ WeekStep

WeekSpec == WeekInit /\ [][WeekNext]_solveVars

(* verdict_of(): the probe's gaps, and one packing failure for each task the log refused that *)
(* is left short and that no deadline gap already names.                                      *)
NamedByTheProbe(w) ==
    {c \in Contents : /\ w.week.estimate[c] > 0 /\ Remaining(w, c) > 0
                      /\ \E gap \in DeadlineGaps(ProbeInputs(w)) :
                            /\ gap.minutes > 0
                            /\ gap.deadline = w.week.deadline[c] /\ gap.area = AreaOf[c]}
PackingFailures(w, s) ==
    {c \in s.refused \ NamedByTheProbe(w) : ~IsHabit(w, c) /\ Left(w, s.held, c) > 0}

-----------------------------------------------------------------------------
(* Properties. *)

(* Whatever is chosen, and however it is moved after: nothing chosen overlaps what is held or *)
(* what has begun, no day takes more of an Area than its cap where a choice lies in it, no    *)
(* task is placed beyond what it owes, no occurrence and no piece twice, and the floors the   *)
(* week arrived with room for are no further out of reach than they were (allocation.py).     *)
ChosenAreFree(w, held) ==
    \A h \in {x \in held : x.chosen} : FreeOfTheWeek(w, h) /\ FreeOfBlocks(w, held \ {h}, h)
CapsHold(w, held) == \A h \in {x \in held : x.chosen} : WithinCap(w, held, h)
PlacedOnceAndAsOwed(w, held) ==
    /\ \A h, k \in held : h.block = k.block => h = k
    /\ \A h \in {x \in held : x.chosen} :
        IsHabit(w, h.block[1]) \/ Left(w, held, h.block[1]) >= 0
FloorsInReach(w, held) == Shortfall(w, held) <= Floored(Shortfall(w, Inherited(w)))

ChoicesKeepTheRules ==
    ~Solving("idle") =>
        /\ ChosenAreFree(Assembly, solve.held)
        /\ CapsHold(Assembly, solve.held)
        /\ PlacedOnceAndAsOwed(Assembly, solve.held)
        /\ FloorsInReach(Assembly, solve.held)

(* What the week holds when a solve starts is in the plan it ends with, where it is held: a   *)
(* re-split may not drop a pinned or begun piece, which no rule would refuse (moves.py,       *)
(* "the pin would be gone from the proposal with no rule having spoken").                     *)
HeldStaysHeld ==
    ~Solving("idle") =>
        \A x \in Inherited(Assembly) : \E h \in solve.held : h.block = x.block /\ h.at = x.at

(* A task with a deadline the construction leaves short is named by the verdict, by the probe *)
(* or as a packing failure (verdicts.py, "the packing failures the attempt found"), unless    *)
(* the week has no minute left: then it was offered nowhere and nothing was refused.          *)
VerdictNamesWhatIsLeft ==
    Solving("improve") /\ solve.moves = 0 =>
        \A c \in Candidates(Assembly, solve.held) :
            \/ IsHabit(Assembly, c)
            \/ c \in NamedByTheProbe(Assembly) \cup PackingFailures(Assembly, solve)
            \/ GapsAhead(Assembly, solve.held) = {}

=============================================================================
