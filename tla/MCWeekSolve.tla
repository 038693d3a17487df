---------------------------- MODULE MCWeekSolve -----------------------------
(* Two Areas: two tasks, or a task and a habit, of the first; a task or a habit of the second. *)
EXTENDS WeekSolve

MCAreas == {1, 2}
MCContents == {"essay", "reading", "run"}
MCAreaOf == [c \in MCContents |-> IF c = "run" THEN 2 ELSE 1]
MCBlocks == {<<"essay", 0>>, <<"essay", 1>>, <<"essay", 2>>, <<"reading", 0>>, <<"run", 0>>}

Each(essay, reading, run) ==
    [c \in MCContents |-> CASE c = "essay" -> essay [] c = "run" -> run [] OTHER -> reading]
Two(first, second) == [a \in MCAreas |-> IF a = 1 THEN first ELSE second]

(* A task is <<estimate, deadline>>; an estimate of 0 is a habit of one or two slots. *)
Week(taken, scoped, essay, reading, run, floor1, floor2) ==
    [taken |-> taken, scoped |-> Two(scoped, {}),
     estimate |-> Each(essay[1], reading[1], run[1]), deadline |-> Each(essay[2], reading[2], run[2]),
     least |-> Each(1, 1, 1), most |-> Each(1, 1, 2),
     floor |-> Two(floor1, floor2), cap |-> Two(2, 2), preferred |-> Two({}, {})]

MCMovedTo == {Span(0, 1), Span(1, 3), Span(3, 4)}

(* Weeks whose verdict is read: plans of at most two blocks that do not overlap, the essay's  *)
(* of either length, and two edits.                                                           *)
Nothing == [b \in MCBlocks |-> NULL]
Holding(essay, reading, run) ==
    [Nothing EXCEPT ![<<"essay", 0>>] = essay, ![<<"reading", 0>>] = reading, ![<<"run", 0>>] = run]
Short(longest) == {NULL} \cup {i \in Interval : i.end <= 4 /\ Duration(i) <= longest}
MCPlans ==
    {Holding(essay, reading, run) : essay \in Short(2), reading \in {NULL, Span(2, 3)}, run \in Short(1)}
ApartAndFew(p) ==
    /\ Cardinality({b \in MCBlocks : p[b] # NULL}) <= 2
    /\ \A b, d \in MCBlocks : b # d /\ p[b] # NULL /\ p[d] # NULL => ClippedTo(p[b], p[d]) = {}
WeeksRead == {
    Week({}, {}, <<2, 2>>, <<0, 0>>, <<2, 4>>, 3, 0),
    Week({Span(1, 2)}, {Span(2, 3)}, <<1, 2>>, <<0, 0>>, <<1, 3>>, 1, 2),
    Week({}, {Span(0, 1)}, <<1, 3>>, <<0, 0>>, <<2, 2>>, 2, 2),
    Week({Span(0, 1)}, {}, <<1, 2>>, <<2, 3>>, <<0, 0>>, 2, 0)}

(* A week whose atomic task can be pinned away and reached where the plan still has it. *)
PinnedAway == [Week({}, {}, <<1, 4>>, <<1, 4>>, <<0, 0>>, 0, 0) EXCEPT !.cap = Two(1, 1)]

(* Weeks that are solved, from a plan of an essay in two pieces with an edit, or from none and *)
(* again: floors that fit alone and not together, a preferred slot, a habit that may take the  *)
(* last slots, a cap of one slot a day, a task of three pieces.                      *)
WeeksSolved == {
    [Week({}, {}, <<2, 4>>, <<1, 3>>, <<0, 0>>, 2, 3) EXCEPT !.preferred = Two({}, {Span(2, 3)})],
    [Week({Span(0, 1)}, {Span(3, 4)}, <<2, 3>>, <<1, 4>>, <<0, 0>>, 0, 2) EXCEPT !.least = Each(2, 1, 1)],
    [Week({}, {}, <<2, 4>>, <<2, 4>>, <<0, 0>>, 2, 1) EXCEPT !.cap = Two(1, 2)],
    Week({}, {}, <<3, 4>>, <<0, 0>>, <<0, 0>>, 0, 0)}
InTwoPieces ==
    [Holding(Span(1, 2), NULL, Span(3, 4)) EXCEPT ![<<"essay", 1>>] = Span(2, 3)]

MCStarts ==
    {[week |-> w, plan |-> p, edits |-> 2, solves |-> 0] : w \in WeeksRead, p \in {x \in MCPlans : ApartAndFew(x)}}
        \cup {[week |-> w, plan |-> InTwoPieces, edits |-> 1, solves |-> 1] : w \in WeeksSolved}
        \cup {[week |-> w, plan |-> Nothing, edits |-> 0, solves |-> 2] : w \in WeeksSolved}
        \cup {[week |-> PinnedAway, plan |-> Holding(NULL, Span(1, 2), NULL), edits |-> 1, solves |-> 1]}
=============================================================================
