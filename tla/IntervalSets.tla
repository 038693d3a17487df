---------------------------- MODULE IntervalSets ----------------------------
(***************************************************************************)
(* The interval algebra every capacity figure is computed with: half-open  *)
(* intervals of whole slots, and sets of them kept as the one sequence of  *)
(* disjoint, non-adjacent members, in order, that covers their slots.      *)
(***************************************************************************)
EXTENDS Integers, FiniteSets, SequencesExt

CONSTANT LastEnd   \* bound: the end of the last slot

ASSUME SlotBound == LastEnd \in Nat \ {0}

Slots == 0..(LastEnd - 1)
Span(from, to) == [start |-> from, end |-> to]
Interval == {i \in [start: Slots, end: 1..LastEnd] : i.start < i.end}

Larger(x, y) == IF x < y THEN y ELSE x
Smaller(x, y) == IF x < y THEN x ELSE y
Duration(i) == i.end - i.start

(* sorted() and _merge(): an interval that overlaps or touches the member before it lengthens *)
(* it; they are taken by start, then end.                                                      *)
LastOf(intervals) ==
    CHOOSE i \in intervals : \A j \in intervals :
        j.start < i.start \/ (j.start = i.start /\ j.end <= i.end)
Lengthened(merged, i) ==
    [merged EXCEPT ![Len(merged)].end = Larger(@, i.end)]
JoinedApart(merged, i) ==   \* a mutation: two members that only touch stay apart
    IF merged = <<>> \/ i.start >= Last(merged).end THEN Append(merged, i) ELSE Lengthened(merged, i)
Joined(merged, i) ==
    IF merged = <<>> \/ i.start > Last(merged).end THEN Append(merged, i) ELSE Lengthened(merged, i)
SetOf(intervals) ==
    LET merged[some \in SUBSET intervals] ==
            IF some = {} THEN <<>> ELSE Joined(merged[some \ {LastOf(some)}], LastOf(some))
    IN  merged[intervals]
Members(set) == ToSet(set)

(* _without(): what the sorted, disjoint cuts leave of one member. *)
Cut(member, left, cut) ==
    IF cut.end <= left.from \/ cut.start >= member.end THEN left
    ELSE [from |-> cut.end,
          parts |-> left.parts \cup {i \in {Span(left.from, cut.start)} : i.start < i.end}]
Without(member, cuts) ==
    LET left[k \in 0..Len(cuts)] ==
            IF k = 0 THEN [from |-> member.start, parts |-> {}] ELSE Cut(member, left[k - 1], cuts[k])
        uncut == left[Len(cuts)]
    IN  uncut.parts \cup {i \in {Span(uncut.from, member.end)} : i.start < i.end}

Union(a, b) == SetOf(Members(a) \cup Members(b))
Subtract(a, b) == SetOf(UNION {Without(m, b) : m \in Members(a)})

(* clipped_to(): at most one interval, so a set that may be empty. *)
ClippedTo(i, bound) ==
    {c \in {Span(Larger(i.start, bound.start), Smaller(i.end, bound.end))} : c.start < c.end}
Intersect(a, b) == SetOf(UNION {ClippedTo(m, o) : m \in Members(a), o \in Members(b)})

Before(a, moment) ==
    SetOf({Span(m.start, Smaller(m.end, moment)) : m \in {x \in Members(a) : x.start < moment}})
After(a, moment) ==
    SetOf({Span(Larger(m.start, moment), m.end) : m \in {x \in Members(a) : x.end > moment}})

TotalMinutes(a) ==
    LET total[k \in 0..Len(a)] == IF k = 0 THEN 0 ELSE total[k - 1] + Duration(a[k])
    IN  total[Len(a)]

Gaps(a, within, shortest) ==
    SetOf({m \in Members(Subtract(<<within>>, a)) : Duration(m) >= shortest})

-----------------------------------------------------------------------------
(* What the algebra is for: the slots a set covers, one way to write each set of them. *)

SlotsOf(a) == {t \in Slots : \E m \in Members(a) : m.start <= t /\ t < m.end}

IsCanonical(a) == \A k \in 1..(Len(a) - 1) : a[k].end < a[k + 1].start

Covers(a, slots) == IsCanonical(a) /\ SlotsOf(a) = slots /\ TotalMinutes(a) = Cardinality(slots)

=============================================================================
