--------------------------- MODULE WeekSolveProofs --------------------------
(***************************************************************************)
(* Proofs about the edited week and its solves, for any declarations, any  *)
(* edits and any number of solves.  Every choice of the construction and   *)
(* every move takes pieces out of a week that keeps the rules and places   *)
(* others: the rules survive the first (Removal) and the second (Addition).*)
(***************************************************************************)
EXTENDS WeekSolve, WeekCapacityProofs

Piece == [block: Blocks, at: OfTheWeek, chosen: BOOLEAN]

SolveTypeOK ==
    solve \in [phase: {"idle", "fill", "improve", "repack"}, held: SUBSET Piece,
               exhausted: SUBSET Contents, refused: SUBSET Contents,
               moves: Nat, packing: Contents \cup {NULL}]

(* An assembly of the week. *)
AssemblyOK(w) ==
    /\ w.week \in Declarations
    /\ \A b \in Blocks : w.week.estimate[b[1]] = 0 => b[2] = 0
    /\ w.now \in 0..End
    /\ w.plan \in [Blocks -> OfTheWeek \cup {NULL}]
    /\ w.pins \in [Blocks -> OfTheWeek \cup {NULL}]

(* What an attempt holds: all that is inherited, what it chose, and the rules kept. *)
HeldOK(w, held) ==
    /\ held \in SUBSET Piece /\ IsFiniteSet(held)
    /\ Inherited(w) \subseteq held
    /\ \A h \in held : ~h.chosen => h \in Inherited(w)
    /\ ChosenAreFree(w, held)
    /\ CapsHold(w, held)
    /\ PlacedOnceAndAsOwed(w, held)
    /\ FloorsInReach(w, held)

-----------------------------------------------------------------------------
(* Slots and finite sets of them. *)

LEMMA IntervalFacts ==
    ASSUME NEW i \in Interval
    PROVE  /\ i.start \in Nat /\ i.end \in Nat /\ i.start < i.end /\ i.end <= LastEnd
           /\ i = Span(i.start, i.end)
           /\ Duration(i) \in Nat \ {0}
           /\ SlotsIn(i) \in SUBSET Nat
           /\ i.start \in SlotsIn(i)
           /\ IsFiniteSet(SlotsIn(i))
           /\ Cardinality(SlotsIn(i)) = Duration(i)
<1>1. /\ i.start \in Nat /\ i.end \in Nat /\ i.start < i.end /\ i.end <= LastEnd
      /\ i = Span(i.start, i.end)
  BY SlotBound DEF Interval, Slots, Span
<1> DEFINE from == i.start  last == i.end - 1
<1>2. IsFiniteSet(from..last) /\ Cardinality(from..last) = IF from > last THEN 0 ELSE last - from + 1
  <2>1. from \in Int /\ last \in Int
    BY <1>1
  <2> HIDE DEF from, last
  <2> QED BY <2>1, FS_Interval
<1>3. /\ ~(i.start > i.end - 1)
      /\ i.end - 1 - i.start + 1 = i.end - i.start
      /\ i.end - i.start \in Nat \ {0}
      /\ i.start \in i.start..(i.end - 1)
      /\ i.start..(i.end - 1) \in SUBSET Nat
  BY <1>1
<1>4. Cardinality(i.start..(i.end - 1)) = i.end - i.start
  BY <1>2, <1>3
<1> QED BY <1>1, <1>2, <1>3, <1>4 DEF SlotsIn, Duration

LEMMA ApartHaveNoCommonSlot ==
    ASSUME NEW i \in Interval, NEW k \in Interval
    PROVE  /\ ClippedTo(i, k) = {} <=> SlotsIn(i) \cap SlotsIn(k) = {}
           /\ ClippedTo(i, k) = {} <=> ClippedTo(k, i) = {}
<1> DEFINE from == Larger(i.start, k.start)  to == Smaller(i.end, k.end)
           back == Larger(k.start, i.start)  upto == Smaller(k.end, i.end)
<1>1. /\ i.start \in Nat /\ i.end \in Nat /\ i.start < i.end
      /\ k.start \in Nat /\ k.end \in Nat /\ k.start < k.end
  BY IntervalFacts
<1>2. from = back /\ to = upto /\ from \in Nat /\ to \in Nat
  BY <1>1 DEF Larger, Smaller
<1>3. ClippedTo(i, k) = {} <=> ~(from < to)
  <2>1. ClippedTo(i, k) = {c \in {Span(from, to)} : c.start < c.end}
    BY DEF ClippedTo
  <2>2. Span(from, to).start = from /\ Span(from, to).end = to
    BY DEF Span
  <2> QED BY <2>1, <2>2
<1>4. ClippedTo(k, i) = {} <=> ~(back < upto)
  <2>1. ClippedTo(k, i) = {c \in {Span(back, upto)} : c.start < c.end}
    BY DEF ClippedTo
  <2>2. Span(back, upto).start = back /\ Span(back, upto).end = upto
    BY DEF Span
  <2> QED BY <2>1, <2>2
<1>5. SlotsIn(i) \cap SlotsIn(k) = {} <=> ~(from < to)
  <2>1. ASSUME from < to PROVE from \in SlotsIn(i) \cap SlotsIn(k)
    BY <1>1, <2>1 DEF Larger, Smaller, SlotsIn
  <2>2. ASSUME NEW t \in SlotsIn(i) \cap SlotsIn(k) PROVE from < to
    BY <1>1 DEF Larger, Smaller, SlotsIn
  <2> QED BY <2>1, <2>2
<1> QED BY <1>2, <1>3, <1>4, <1>5

LEMMA SlotsHeldAreFinite ==
    ASSUME NEW held \in SUBSET Piece
    PROVE  SlotsHeld(held) \in SUBSET Slots /\ IsFiniteSet(SlotsHeld(held))
<1>1. SlotsHeld(held) \in SUBSET Slots
  BY IntervalFacts, SlotBound DEF SlotsHeld, Piece, OfTheWeek, SlotsIn, Slots
<1>2. IsFiniteSet(Slots)
  BY FS_Interval, SlotBound DEF Slots
<1> QED BY <1>1, <1>2, FS_Subset

-----------------------------------------------------------------------------
(* The figures are integers, whatever the interval algebra answers. *)

LEMMA OwesType ==
    ASSUME NEW w, AssemblyOK(w), NEW c \in Contents
    PROVE  Owes(w, c) \in Nat
<1> DEFINE done == SlotsOf(DoneOf(w, {b \in BlocksOf(c) : AlreadyNetted(w, b)}))
           lived == {t \in done : t < w.now}
<1>1. lived \in SUBSET Slots
  BY DEF SlotsOf
<1>2. Cardinality(lived) \in Nat
  BY <1>1, SetsOfSlots
<1>3. w.week.estimate[c] \in Nat
  BY DEF AssemblyOK, Declarations
<1>4. w.week.estimate[c] - Cardinality(lived) \in Int
  BY <1>2, <1>3
<1> QED BY <1>4, FlooredFacts DEF Owes

LEMMA FloorLeftType ==
    ASSUME NEW w, AssemblyOK(w), NEW a \in Areas
    PROVE  FloorLeft(w, a) \in Nat
<1> DEFINE worked == UNION {WorkedSlots(w, b) : b \in {x \in BlocksIn(a) : AlreadyNetted(w, x)}}
<1>1. worked \in SUBSET Slots
  BY DEF WorkedSlots, SlotsOf
<1>2. Cardinality(worked) \in Nat
  BY <1>1, SetsOfSlots
<1>3. w.week.floor[a] \in Nat
  BY DEF AssemblyOK, Declarations
<1>4. w.week.floor[a] - Cardinality(worked) \in Int
  BY <1>2, <1>3
<1> QED BY <1>4, FlooredFacts DEF FloorLeft

LEMMA PieceFacts ==
    ASSUME NEW held \in SUBSET Piece, NEW h \in held
    PROVE  /\ h.block \in Blocks /\ h.block[1] \in Contents /\ h.at \in Interval
           /\ AreaOf[h.block[1]] \in Areas
BY WeekBounds DEF Piece, OfTheWeek

LEMMA PlacedMinutesType ==
    ASSUME NEW w, NEW held \in SUBSET Piece, IsFiniteSet(held), NEW c
    PROVE  /\ IsFiniteSet(UNION {{h} \X SlotsIn(h.at) : h \in OfContent(Unnetted(w, held), c)})
           /\ PlacedMinutes(w, held, c) \in Nat
<1> DEFINE laid == UNION {{h} \X SlotsIn(h.at) : h \in OfContent(Unnetted(w, held), c)}
<1>1. \A h \in held : SlotsIn(h.at) \in SUBSET Slots
  BY PieceFacts, SlotBound DEF Interval, SlotsIn, Slots
<1>2. laid \in SUBSET (held \X Slots)
  BY <1>1 DEF OfContent, Unnetted
<1>3. IsFiniteSet(held \X Slots)
  BY SetsOfSlots, FS_Product
<1>4. IsFiniteSet(laid)
  BY <1>2, <1>3, FS_Subset
<1> QED BY <1>4, FS_CardinalityType DEF PlacedMinutes

LEMMA LeftType ==
    ASSUME NEW w, AssemblyOK(w), NEW held \in SUBSET Piece, IsFiniteSet(held), NEW c \in Contents
    PROVE  Left(w, held, c) \in Int
<1>1. Owes(w, c) \in Nat
  BY OwesType
<1>2. PlacedMinutes(w, held, c) \in Nat
  BY PlacedMinutesType
<1> QED BY <1>1, <1>2 DEF Left

LEMMA ClaimableSlots ==
    ASSUME NEW w
    PROVE  Claimable(w) \in SUBSET Slots /\ \A t \in Claimable(w) : t \in Nat /\ t < End
BY SlotBound, WeekBounds DEF Claimable, Slots

LEMMA FloorOwedType ==
    ASSUME NEW w, AssemblyOK(w), NEW held \in SUBSET Piece, NEW a \in Areas
    PROVE  FloorOwed(w, held, a) \in Nat
<1> DEFINE placed == SlotsHeld(OfArea(Unnetted(w, held), a))
<1>1. OfArea(Unnetted(w, held), a) \in SUBSET Piece
  BY DEF OfArea, Unnetted
<1>2. placed \in SUBSET Slots
  BY <1>1, SlotsHeldAreFinite
<1>3. Cardinality(placed) \in Nat
  BY <1>2, SetsOfSlots
<1>4. FloorLeft(w, a) - Cardinality(placed) \in Int
  BY <1>3, FloorLeftType
<1> QED BY <1>4, FlooredFacts DEF FloorOwed

LEMMA FloorsOwedType ==
    ASSUME NEW w, AssemblyOK(w), NEW held \in SUBSET Piece
    PROVE  /\ IsFiniteSet(UNION {{a} \X (1..FloorOwed(w, held, a)) : a \in Reserved(w, held)})
           /\ FloorsOwed(w, held) \in Nat
<1> DEFINE R == Reserved(w, held)
           side == [a \in R |-> {a} \X (1..FloorOwed(w, held, a))]
           sides == {side[a] : a \in R}
<1>1. R \in SUBSET Areas /\ IsFiniteSet(R)
  BY WeekBounds, FS_Subset DEF Reserved
<1>2. IsFiniteSet(sides)
  <2>1. side = [a \in R |-> side[a]]
    OBVIOUS
  <2> HIDE DEF side, R
  <2> QED BY <1>1, <2>1, ImageIsFinite
<1>3. ASSUME NEW a \in R PROVE IsFiniteSet(side[a])
  <2>1. FloorOwed(w, held, a) \in Nat
    BY <1>1, FloorOwedType
  <2>2. IsFiniteSet(1..FloorOwed(w, held, a))
    BY <2>1, FS_Interval
  <2>3. IsFiniteSet({a})
    BY FS_Singleton
  <2> QED BY <2>2, <2>3, FS_Product
<1>4. IsFiniteSet(UNION sides)
  <2>1. \A s \in sides : IsFiniteSet(s)
    BY <1>3
  <2> HIDE DEF sides
  <2> QED BY <1>2, <2>1, FS_UNION
<1>5. UNION sides = UNION {{a} \X (1..FloorOwed(w, held, a)) : a \in R}
  OBVIOUS
<1>6. Cardinality(UNION sides) \in Nat
  BY <1>4, FS_CardinalityType
<1> QED BY <1>4, <1>5, <1>6 DEF FloorsOwed

LEMMA FreeTimeType ==
    ASSUME NEW w, NEW held
    PROVE  /\ Claimable(w) \ SlotsHeld(held) \in SUBSET Slots
           /\ IsFiniteSet(Claimable(w) \ SlotsHeld(held))
           /\ Cardinality(Claimable(w) \ SlotsHeld(held)) \in Nat
<1>1. Claimable(w) \ SlotsHeld(held) \in SUBSET Slots
  BY ClaimableSlots
<1> QED BY <1>1, SetsOfSlots

LEMMA ShortfallType ==
    ASSUME NEW w, AssemblyOK(w), NEW held \in SUBSET Piece
    PROVE  Shortfall(w, held) \in Int
<1>1. FloorsOwed(w, held) \in Nat
  BY FloorsOwedType
<1>2. Cardinality(Claimable(w) \ SlotsHeld(held)) \in Nat
  BY FreeTimeType
<1> QED BY <1>1, <1>2 DEF Shortfall

-----------------------------------------------------------------------------
(* What a solve inherits keeps the rules: it chose none of it. *)

LEMMA InheritedFacts ==
    ASSUME NEW w, AssemblyOK(w)
    PROVE  /\ Inherited(w) \in SUBSET Piece
           /\ IsFiniteSet(Inherited(w))
           /\ \A h \in Inherited(w) : ~h.chosen /\ AlreadyNetted(w, h.block)
           /\ \A b \in Blocks : AlreadyNetted(w, b) => \E h \in Inherited(w) : h.block = b
           /\ \A h, k \in Inherited(w) : h.block = k.block => h = k
<1> DEFINE N == {x \in Blocks : AlreadyNetted(w, x)}
           held == [b \in N |-> [block |-> b, at |-> PlacedAt(w, b), chosen |-> FALSE]]
<1>1. Inherited(w) = {held[b] : b \in N}
  BY DEF Inherited
<1>2. IsFiniteSet({held[b] : b \in N})
  <2>1. IsFiniteSet(N)
    <3>1. N \in SUBSET Blocks /\ IsFiniteSet(Blocks)
      BY WeekBounds
    <3> HIDE DEF N
    <3> QED BY <3>1, FS_Subset
  <2>2. held = [b \in N |-> held[b]]
    OBVIOUS
  <2> HIDE DEF held, N
  <2> QED BY <2>1, <2>2, ImageIsFinite
<1>3. ASSUME NEW b \in N PROVE PlacedAt(w, b) \in OfTheWeek
  BY WeekBounds DEF AssemblyOK, AlreadyNetted, Begun, PlacedAt, Pinned
<1>4. \A b \in N : held[b] \in Piece /\ ~held[b].chosen /\ held[b].block = b
  BY <1>3 DEF Piece
<1>5. \A b \in N : b \in Blocks /\ AlreadyNetted(w, b)
  OBVIOUS
<1>6. \A b \in Blocks : AlreadyNetted(w, b) => b \in N
  OBVIOUS
<1> HIDE DEF held, N
<1> QED BY <1>1, <1>2, <1>4, <1>5, <1>6

LEMMA InheritedKeepsTheRules ==
    ASSUME NEW w, AssemblyOK(w)
    PROVE  HeldOK(w, Inherited(w))
<1> DEFINE held == Inherited(w)
<1>1. held \in SUBSET Piece /\ IsFiniteSet(held) /\ (\A h \in held : ~h.chosen)
      /\ (\A h, k \in held : h.block = k.block => h = k)
  BY InheritedFacts
<1>2. ChosenAreFree(w, held) /\ CapsHold(w, held) /\ PlacedOnceAndAsOwed(w, held)
  BY <1>1 DEF ChosenAreFree, CapsHold, PlacedOnceAndAsOwed
<1>3. FloorsInReach(w, held)
  <2>1. Shortfall(w, held) \in Int
    BY <1>1, ShortfallType
  <2> QED BY <2>1, FlooredFacts DEF FloorsInReach
<1> QED BY <1>1, <1>2, <1>3 DEF HeldOK

(* What is chosen is neither begun nor pinned: that is held already, and no block twice. *)
LEMMA ChosenAreNew ==
    ASSUME NEW w, AssemblyOK(w), NEW held, HeldOK(w, held)
    PROVE  /\ \A h \in held : h.chosen => ~AlreadyNetted(w, h.block)
           /\ \A p \in Piece : Scorable(held, p) => ~AlreadyNetted(w, p.block)
<1>1. ASSUME NEW b \in Blocks, AlreadyNetted(w, b)
      PROVE  \E k \in held : k.block = b /\ ~k.chosen
  BY <1>1, InheritedFacts DEF HeldOK
<1>2. ASSUME NEW h \in held, h.chosen, AlreadyNetted(w, h.block) PROVE FALSE
  <2>1. h.block \in Blocks
    BY DEF HeldOK, Piece
  <2>2. PICK k \in held : k.block = h.block /\ ~k.chosen
    BY <1>1, <1>2, <2>1
  <2>3. k = h
    BY <2>2 DEF HeldOK, PlacedOnceAndAsOwed
  <2> QED BY <1>2, <2>2, <2>3
<1>3. ASSUME NEW p \in Piece, Scorable(held, p), AlreadyNetted(w, p.block) PROVE FALSE
  <2>1. p.block \in Blocks
    BY DEF Piece
  <2> QED BY <1>1, <1>3, <2>1 DEF Scorable
<1> QED BY <1>2, <1>3

-----------------------------------------------------------------------------
(* A piece placed takes its minutes off what its content is left with, and nothing else. *)

LEMMA PlacedMinutesGrow ==
    ASSUME NEW w, NEW held \in SUBSET Piece, IsFiniteSet(held),
           NEW p \in Piece, p \notin held, ~AlreadyNetted(w, p.block), NEW c
    PROVE  PlacedMinutes(w, held \cup {p}, c) =
             PlacedMinutes(w, held, c) + (IF p.block[1] = c THEN Duration(p.at) ELSE 0)
<1> DEFINE Of(S) == OfContent(Unnetted(w, S), c)
           Laid(S) == UNION {{h} \X SlotsIn(h.at) : h \in Of(S)}
           more == {p} \X SlotsIn(p.at)
<1>1. IsFiniteSet(Laid(held)) /\ Cardinality(Laid(held)) \in Nat
  BY PlacedMinutesType, FS_CardinalityType
<1>2. IsFiniteSet(more) /\ Cardinality(more) = Duration(p.at)
  <2>1. p.at \in Interval
    BY DEF Piece, OfTheWeek
  <2>2. IsFiniteSet(SlotsIn(p.at)) /\ Cardinality(SlotsIn(p.at)) = Duration(p.at) /\ Duration(p.at) \in Nat
    BY <2>1, IntervalFacts
  <2>3. IsFiniteSet({p}) /\ Cardinality({p}) = 1
    BY FS_Singleton
  <2>4. IsFiniteSet(more) /\ Cardinality(more) = Cardinality({p}) * Cardinality(SlotsIn(p.at))
    BY <2>2, <2>3, FS_Product
  <2>5. \A n \in Nat : 1 * n = n
    OBVIOUS
  <2> QED BY <2>2, <2>3, <2>4, <2>5
<1>3. CASE p.block[1] = c
  <2>1. Of(held \cup {p}) = Of(held) \cup {p}
    BY <1>3 DEF OfContent, Unnetted
  <2>2. Laid(held \cup {p}) = Laid(held) \cup more
    BY <2>1
  <2>3. Laid(held) \cap more = {}
    BY DEF OfContent, Unnetted
  <2> HIDE DEF Laid, more
  <2>4. Cardinality(Laid(held) \cup more) =
          Cardinality(Laid(held)) + Cardinality(more) - Cardinality(Laid(held) \cap more)
    BY <1>1, <1>2, FS_Union
  <2>5. Duration(p.at) \in Nat
    BY IntervalFacts DEF Piece, OfTheWeek
  <2>6. Cardinality({}) = 0
    BY FS_EmptySet
  <2>7. Cardinality(Laid(held) \cap more) = 0
    BY <2>3, <2>6
  <2>8. Cardinality(Laid(held \cup {p})) = Cardinality(Laid(held) \cup more)
    BY <2>2
  <2>9. Cardinality(Laid(held \cup {p})) = Cardinality(Laid(held)) + Duration(p.at)
    BY <1>1, <1>2, <2>4, <2>5, <2>7, <2>8
  <2> QED BY <1>3, <2>9 DEF Laid, PlacedMinutes
<1>4. CASE p.block[1] # c
  <2>1. Of(held \cup {p}) = Of(held)
    BY <1>4 DEF OfContent, Unnetted
  <2>2. PlacedMinutes(w, held \cup {p}, c) = PlacedMinutes(w, held, c)
    BY <2>1 DEF PlacedMinutes
  <2>3. PlacedMinutes(w, held, c) \in Nat
    BY PlacedMinutesType
  <2> QED BY <1>4, <2>2, <2>3
<1> QED BY <1>3, <1>4

LEMMA LeftShrinks ==
    ASSUME NEW w, AssemblyOK(w), NEW held \in SUBSET Piece, IsFiniteSet(held),
           NEW p \in Piece, p \notin held, ~AlreadyNetted(w, p.block), NEW c \in Contents
    PROVE  Left(w, held \cup {p}, c) =
             Left(w, held, c) - (IF p.block[1] = c THEN Duration(p.at) ELSE 0)
<1>1. Owes(w, c) \in Nat /\ PlacedMinutes(w, held, c) \in Nat
  BY OwesType, PlacedMinutesType
<1>2. Duration(p.at) \in Nat
  BY IntervalFacts DEF Piece, OfTheWeek
<1>3. PlacedMinutes(w, held \cup {p}, c) =
        PlacedMinutes(w, held, c) + (IF p.block[1] = c THEN Duration(p.at) ELSE 0)
  BY PlacedMinutesGrow
<1> QED BY <1>1, <1>2, <1>3 DEF Left

-----------------------------------------------------------------------------
(* Pieces taken out of a week that keeps the rules leave one that keeps them: they free the   *)
(* time they owe again.                                                                       *)

LEMMA PlacedMinutesOfFewer ==
    ASSUME NEW w, NEW held \in SUBSET Piece, IsFiniteSet(held), NEW keep \in SUBSET held, NEW c
    PROVE  PlacedMinutes(w, keep, c) <= PlacedMinutes(w, held, c)
<1> DEFINE Laid(S) == UNION {{h} \X SlotsIn(h.at) : h \in OfContent(Unnetted(w, S), c)}
<1>1. IsFiniteSet(Laid(held))
  BY PlacedMinutesType
<1>2. Laid(keep) \in SUBSET Laid(held)
  BY DEF OfContent, Unnetted
<1> HIDE DEF Laid
<1>3. Cardinality(Laid(keep)) <= Cardinality(Laid(held))
  BY <1>1, <1>2, FS_Subset
<1> QED BY <1>3 DEF Laid, PlacedMinutes

LEMMA TakenOutAreApart ==
    ASSUME NEW w, NEW held \in SUBSET Piece, ChosenAreFree(w, held),
           NEW D \in SUBSET held, \A h \in D : h.chosen
    PROVE  /\ SlotsHeld(D) \subseteq Claimable(w)
           /\ SlotsHeld(D) \cap SlotsHeld(held \ D) = {}
           /\ SlotsHeld(held) = SlotsHeld(held \ D) \cup SlotsHeld(D)
<1>1. SlotsHeld(D) \subseteq Claimable(w)
  BY DEF ChosenAreFree, FreeOfTheWeek, SlotsHeld
<1>2. ASSUME NEW h \in D, NEW k \in held \ D PROVE SlotsIn(h.at) \cap SlotsIn(k.at) = {}
  <2>1. ClippedTo(h.at, k.at) = {}
    BY DEF ChosenAreFree, FreeOfBlocks
  <2>2. h.at \in Interval /\ k.at \in Interval
    BY PieceFacts
  <2> QED BY <2>1, <2>2, ApartHaveNoCommonSlot
<1>3. SlotsHeld(D) \cap SlotsHeld(held \ D) = {}
  BY <1>2 DEF SlotsHeld
<1>4. SlotsHeld(held) = SlotsHeld(held \ D) \cup SlotsHeld(D)
  BY DEF SlotsHeld
<1> QED BY <1>1, <1>3, <1>4

(* What one Area may owe more is no more than the time freed. *)
LEMMA FloorOwedAfterRemoval ==
    ASSUME NEW w, AssemblyOK(w), NEW held \in SUBSET Piece, NEW D \in SUBSET held, NEW a \in Areas
    PROVE  FloorOwed(w, held \ D, a) <= FloorOwed(w, held, a) + Cardinality(SlotsHeld(D))
<1> DEFINE Of(S) == SlotsHeld(OfArea(Unnetted(w, S), a))
           U == Of(held \ D)
           V == Of(held)
           S == SlotsHeld(D)
           F == FloorLeft(w, a)
<1>1. U \in SUBSET Slots /\ V \in SUBSET Slots /\ S \in SUBSET Slots
  BY SlotsHeldAreFinite DEF OfArea, Unnetted
<1>2. V \subseteq U \cup S
  BY DEF SlotsHeld, OfArea, Unnetted
<1>3. F \in Nat
  BY FloorLeftType
<1>4. FloorOwed(w, held \ D, a) = Floored(F - Cardinality(U)) /\ FloorOwed(w, held, a) = Floored(F - Cardinality(V))
  BY DEF FloorOwed
<1> HIDE DEF U, V, S, F
<1>5. /\ IsFiniteSet(U) /\ IsFiniteSet(S) /\ Cardinality(U) \in Nat
      /\ Cardinality(V) \in Nat /\ Cardinality(S) \in Nat
  BY <1>1, SetsOfSlots
<1>6. Cardinality(V) <= Cardinality(U) + Cardinality(S)
  <2>1. /\ IsFiniteSet(U \cup S)
        /\ Cardinality(U \cup S) = Cardinality(U) + Cardinality(S) - Cardinality(U \cap S)
    BY <1>5, FS_Union
  <2>2. Cardinality(U \cap S) \in Nat
    <3>1. U \cap S \in SUBSET Slots
      BY <1>1
    <3> QED BY <3>1, SetsOfSlots
  <2>3. Cardinality(V) <= Cardinality(U \cup S)
    BY <1>2, <2>1, FS_Subset
  <2>4. Cardinality(U \cup S) \in Nat
    BY <2>1, FS_CardinalityType
  <2> QED BY <1>5, <2>1, <2>2, <2>3, <2>4
<1>7. Floored(F - Cardinality(U)) <= Floored(F - Cardinality(V)) + Cardinality(S)
  BY <1>3, <1>5, <1>6 DEF Floored, Larger
<1> QED BY <1>4, <1>7 DEF S

LEMMA FloorsOwedAfterRemoval ==
    ASSUME NEW w, AssemblyOK(w), NEW held \in SUBSET Piece, NEW D \in SUBSET held, NEW a \in Areas,
           \A h \in D : AreaOf[h.block[1]] = a /\ ~AlreadyNetted(w, h.block)
    PROVE  FloorsOwed(w, held \ D) <= FloorsOwed(w, held) + Cardinality(SlotsHeld(D))
<1> DEFINE keep == held \ D
           R == Reserved(w, held)
           Side(S) == UNION {{x} \X (1..FloorOwed(w, S, x)) : x \in R}
           m == FloorOwed(w, keep, a)
           n == FloorOwed(w, held, a)
           s == Cardinality(SlotsHeld(D))
           more == {a} \X ((n + 1)..m)
<1>1. Reserved(w, keep) = R
  <2>1. {h \in keep : AlreadyNetted(w, h.block)} = {h \in held : AlreadyNetted(w, h.block)}
    OBVIOUS
  <2> QED BY <2>1 DEF Reserved
<1>2. FloorsOwed(w, keep) = Cardinality(Side(keep)) /\ FloorsOwed(w, held) = Cardinality(Side(held))
  BY <1>1 DEF FloorsOwed
<1>3. ASSUME NEW x \in R, x # a PROVE FloorOwed(w, keep, x) = FloorOwed(w, held, x)
  <2>1. OfArea(Unnetted(w, keep), x) = OfArea(Unnetted(w, held), x)
    BY <1>3 DEF OfArea, Unnetted
  <2> QED BY <2>1 DEF FloorOwed
<1>4. m \in Nat /\ n \in Nat /\ s \in Nat /\ m <= n + s
  <2>1. SlotsHeld(D) \in SUBSET Slots
    BY SlotsHeldAreFinite
  <2> QED BY <2>1, FloorOwedType, FloorOwedAfterRemoval, SetsOfSlots
<1>5. Side(keep) \subseteq Side(held) \cup more
  <2> SUFFICES ASSUME NEW e \in Side(keep) PROVE e \in Side(held) \cup more
    OBVIOUS
  <2>1. PICK x \in R : e \in {x} \X (1..FloorOwed(w, keep, x))
    OBVIOUS
  <2> DEFINE k == e[2]
  <2>2. k \in 1..FloorOwed(w, keep, x) /\ e = <<x, k>>
    BY <2>1
  <2> HIDE DEF k
  <2> SUFFICES <<x, k>> \in Side(held) \cup more
    BY <2>2
  <2>3. CASE x # a
    BY <1>3, <2>2, <2>3
  <2>4. CASE x = a /\ k <= n
    <3>1. k \in 1..n
      BY <1>4, <2>2, <2>4
    <3> QED BY <2>4, <3>1
  <2>5. CASE x = a /\ ~(k <= n)
    <3>1. k \in (n + 1)..m
      BY <1>4, <2>2, <2>5
    <3> QED BY <2>5, <3>1
  <2> QED BY <2>3, <2>4, <2>5
<1>6. IsFiniteSet(Side(held)) /\ Cardinality(Side(held)) \in Nat
  BY FloorsOwedType, FS_CardinalityType
<1>7. IsFiniteSet(more) /\ Cardinality(more) \in Nat /\ Cardinality(more) <= s
  <2> DEFINE range == (n + 1)..m
  <2>1. IsFiniteSet(range) /\ Cardinality(range) = IF n + 1 > m THEN 0 ELSE m - (n + 1) + 1
    <3> DEFINE low == n + 1
    <3>1. low \in Int /\ m \in Int
      BY <1>4
    <3> HIDE DEF low, m
    <3>2. IsFiniteSet(low..m) /\ Cardinality(low..m) = IF low > m THEN 0 ELSE m - low + 1
      BY <3>1, FS_Interval
    <3> QED BY <3>2 DEF low
  <2> HIDE DEF m, n, s, range
  <2>2. Cardinality(range) \in Nat /\ Cardinality(range) <= s
    BY <1>4, <2>1
  <2>3. IsFiniteSet({a}) /\ Cardinality({a}) = 1
    BY FS_Singleton
  <2>4. IsFiniteSet({a} \X range) /\ Cardinality({a} \X range) = Cardinality({a}) * Cardinality(range)
    BY <2>1, <2>3, FS_Product
  <2>5. \A i \in Nat : 1 * i = i
    OBVIOUS
  <2> QED BY <2>2, <2>3, <2>4, <2>5 DEF range
<1> HIDE DEF Side, more, m, n, s
<1>8. /\ IsFiniteSet(Side(held) \cup more)
      /\ Cardinality(Side(held) \cup more) =
           Cardinality(Side(held)) + Cardinality(more) - Cardinality(Side(held) \cap more)
  BY <1>6, <1>7, FS_Union
<1>9. Cardinality(Side(held) \cap more) \in Nat
  BY <1>6, FS_Intersection, FS_CardinalityType
<1>10. Cardinality(Side(keep)) <= Cardinality(Side(held) \cup more) /\ Cardinality(Side(keep)) \in Nat
  BY <1>5, <1>8, FS_Subset, FS_CardinalityType
<1>11. Cardinality(Side(keep)) <= Cardinality(Side(held)) + s
  BY <1>4, <1>6, <1>7, <1>8, <1>9, <1>10
<1> QED BY <1>2, <1>11 DEF s

LEMMA ShortfallAfterRemoval ==
    ASSUME NEW w, AssemblyOK(w), NEW held \in SUBSET Piece, ChosenAreFree(w, held),
           NEW D \in SUBSET held, NEW a \in Areas,
           \A h \in D : h.chosen /\ AreaOf[h.block[1]] = a /\ ~AlreadyNetted(w, h.block)
    PROVE  Shortfall(w, held \ D) <= Shortfall(w, held)
<1> DEFINE keep == held \ D
           S == SlotsHeld(D)
           free == Claimable(w) \ SlotsHeld(held)
           freed == Claimable(w) \ SlotsHeld(keep)
<1>1. FloorsOwed(w, keep) <= FloorsOwed(w, held) + Cardinality(S)
  BY FloorsOwedAfterRemoval
<1>2. freed = free \cup S /\ free \cap S = {}
  <2>1. /\ S \subseteq Claimable(w)
        /\ S \cap SlotsHeld(keep) = {}
        /\ SlotsHeld(held) = SlotsHeld(keep) \cup S
    BY TakenOutAreApart
  <2> HIDE DEF S, keep
  <2> QED BY <2>1
<1>3. S \in SUBSET Slots /\ free \in SUBSET Slots
  BY SlotsHeldAreFinite, ClaimableSlots
<1>4. /\ Shortfall(w, keep) = FloorsOwed(w, keep) - Cardinality(freed)
      /\ Shortfall(w, held) = FloorsOwed(w, held) - Cardinality(free)
  BY DEF Shortfall
<1> HIDE DEF S, free, freed
<1>5. IsFiniteSet(S) /\ IsFiniteSet(free) /\ Cardinality(S) \in Nat /\ Cardinality(free) \in Nat
  BY <1>3, SetsOfSlots
<1>6. Cardinality(free \cup S) = Cardinality(free) + Cardinality(S) - Cardinality(free \cap S)
  BY <1>5, FS_Union
<1>7. Cardinality(free \cap S) = 0
  BY <1>2, FS_EmptySet
<1>8. Cardinality(freed) = Cardinality(free \cup S)
  BY <1>2
<1>9. FloorsOwed(w, keep) \in Nat /\ FloorsOwed(w, held) \in Nat
  BY FloorsOwedType
<1>10. FloorsOwed(w, keep) - Cardinality(freed) <= FloorsOwed(w, held) - Cardinality(free)
  BY <1>1, <1>5, <1>6, <1>7, <1>8, <1>9
<1> QED BY <1>4, <1>10

LEMMA CapsAfterRemoval ==
    ASSUME NEW w, AssemblyOK(w), NEW held \in SUBSET Piece, CapsHold(w, held), NEW keep \in SUBSET held
    PROVE  CapsHold(w, keep)
<1> SUFFICES ASSUME NEW h \in keep, h.chosen, NEW d \in {Day(t) : t \in SlotsIn(h.at)}
             PROVE  Cardinality({t \in SlotsHeld(OfArea(keep \cup {h}, AreaOf[h.block[1]])) : Day(t) = d})
                      <= w.week.cap[AreaOf[h.block[1]]]
  BY DEF CapsHold, WithinCap
<1> DEFINE a == AreaOf[h.block[1]]
           On(S) == {t \in SlotsHeld(OfArea(S \cup {h}, a)) : Day(t) = d}
<1>1. Cardinality(On(held)) <= w.week.cap[a]
  BY DEF CapsHold, WithinCap
<1>2. On(keep) \subseteq On(held) /\ On(held) \in SUBSET Slots
  <2>1. OfArea(held \cup {h}, a) \in SUBSET Piece
    BY DEF OfArea
  <2>2. SlotsHeld(OfArea(held \cup {h}, a)) \in SUBSET Slots
    BY <2>1, SlotsHeldAreFinite
  <2> QED BY <2>2 DEF SlotsHeld, OfArea
<1>3. a \in Areas
  BY PieceFacts
<1>4. w.week.cap[a] \in Nat
  BY <1>3 DEF AssemblyOK, Declarations
<1> HIDE DEF On
<1>5. IsFiniteSet(On(held)) /\ Cardinality(On(held)) \in Nat /\ On(keep) \in SUBSET Slots
  BY <1>2, SetsOfSlots
<1>6. Cardinality(On(keep)) <= Cardinality(On(held)) /\ Cardinality(On(keep)) \in Nat
  BY <1>2, <1>5, FS_Subset, SetsOfSlots
<1>7. Cardinality(On(keep)) <= w.week.cap[a]
  BY <1>1, <1>4, <1>5, <1>6
<1> QED BY <1>7 DEF On

LEMMA Removal ==
    ASSUME NEW w, AssemblyOK(w), NEW held, HeldOK(w, held),
           NEW c \in Contents, NEW D \in SUBSET held, \A h \in D : h.chosen /\ h.block[1] = c
    PROVE  HeldOK(w, held \ D)
<1> DEFINE keep == held \ D
<1>1. /\ held \in SUBSET Piece /\ IsFiniteSet(held) /\ ChosenAreFree(w, held) /\ CapsHold(w, held)
      /\ PlacedOnceAndAsOwed(w, held) /\ FloorsInReach(w, held)
  BY DEF HeldOK
<1>2. keep \in SUBSET Piece /\ IsFiniteSet(keep)
  BY <1>1, FS_Subset
<1>3. Inherited(w) \subseteq keep /\ \A h \in keep : ~h.chosen => h \in Inherited(w)
  BY InheritedFacts DEF HeldOK
<1>4. ChosenAreFree(w, keep)
  BY <1>1 DEF ChosenAreFree, FreeOfBlocks
<1>5. CapsHold(w, keep)
  BY <1>1, CapsAfterRemoval
<1>6. PlacedOnceAndAsOwed(w, keep)
  <2>1. ASSUME NEW h \in keep, h.chosen, ~IsHabit(w, h.block[1]) PROVE Left(w, keep, h.block[1]) >= 0
    <3> DEFINE x == h.block[1]
    <3>1. x \in Contents
      BY <1>1, PieceFacts
    <3>2. Left(w, held, x) >= 0
      BY <1>1, <2>1 DEF PlacedOnceAndAsOwed
    <3>3. PlacedMinutes(w, keep, x) <= PlacedMinutes(w, held, x)
      BY <1>1, PlacedMinutesOfFewer
    <3>4. Owes(w, x) \in Nat /\ PlacedMinutes(w, keep, x) \in Nat /\ PlacedMinutes(w, held, x) \in Nat
      BY <1>1, <1>2, <3>1, OwesType, PlacedMinutesType
    <3> QED BY <3>2, <3>3, <3>4 DEF Left
  <2>2. \A h, k \in keep : h.block = k.block => h = k
    BY <1>1 DEF PlacedOnceAndAsOwed
  <2> QED BY <2>1, <2>2 DEF PlacedOnceAndAsOwed
<1>7. FloorsInReach(w, keep)
  <2>1. AreaOf[c] \in Areas
    BY WeekBounds
  <2>2. \A h \in D : ~AlreadyNetted(w, h.block)
    BY ChosenAreNew
  <2>3. Shortfall(w, keep) <= Shortfall(w, held)
    BY <1>1, <2>1, <2>2, ShortfallAfterRemoval
  <2>4. /\ Shortfall(w, keep) \in Int /\ Shortfall(w, held) \in Int
        /\ Shortfall(w, Inherited(w)) \in Int
    BY <1>1, <1>2, ShortfallType, InheritedFacts
  <2>5. Floored(Shortfall(w, Inherited(w))) \in Nat
    BY <2>4, FlooredFacts
  <2> QED BY <1>1, <2>3, <2>4, <2>5 DEF FloorsInReach
<1> QED BY <1>2, <1>3, <1>4, <1>5, <1>6, <1>7 DEF HeldOK

-----------------------------------------------------------------------------
(* A piece the rules admit, of a content that is owed as much, keeps them. *)

LEMMA FreeAfterAddition ==
    ASSUME NEW w, NEW held \in SUBSET Piece, ChosenAreFree(w, held),
           NEW p \in Piece, Scorable(held, p), FreeOfTheWeek(w, p), FreeOfBlocks(w, held, p)
    PROVE  ChosenAreFree(w, held \cup {p})
<1> DEFINE more == held \cup {p}
<1>1. FreeOfBlocks(w, more \ {p}, p)
  BY DEF FreeOfBlocks
<1>2. ASSUME NEW h \in held, h.chosen
      PROVE  FreeOfTheWeek(w, h) /\ FreeOfBlocks(w, more \ {h}, h)
  <2>1. FreeOfTheWeek(w, h) /\ FreeOfBlocks(w, held \ {h}, h)
    BY <1>2 DEF ChosenAreFree
  <2>2. ClippedTo(p.at, h.at) = {}
    BY DEF FreeOfBlocks
  <2>3. p.at \in Interval /\ h.at \in Interval
    BY PieceFacts DEF Piece, OfTheWeek
  <2>4. ClippedTo(h.at, p.at) = {}
    BY <2>2, <2>3, ApartHaveNoCommonSlot
  <2> QED BY <2>1, <2>4 DEF FreeOfBlocks
<1> QED BY <1>1, <1>2 DEF ChosenAreFree

(* A day the piece does not touch holds what it held; on a day it does, its own cap is asked. *)
LEMMA CapsAfterAddition ==
    ASSUME NEW w, NEW held \in SUBSET Piece, CapsHold(w, held),
           NEW p \in Piece, WithinCap(w, held, p)
    PROVE  CapsHold(w, held \cup {p})
<1> DEFINE more == held \cup {p}
<1> SUFFICES ASSUME NEW h \in more, h.chosen, NEW d \in {Day(t) : t \in SlotsIn(h.at)}
             PROVE  Cardinality({t \in SlotsHeld(OfArea(more \cup {h}, AreaOf[h.block[1]])) : Day(t) = d})
                      <= w.week.cap[AreaOf[h.block[1]]]
  BY DEF CapsHold, WithinCap
<1> DEFINE a == AreaOf[h.block[1]]
           On(S) == {t \in SlotsHeld(OfArea(S, a)) : Day(t) = d}
<1>1. more \cup {h} = more
  OBVIOUS
<1>2. CASE AreaOf[p.block[1]] = a /\ d \in {Day(t) : t \in SlotsIn(p.at)}
  BY <1>1, <1>2 DEF WithinCap
<1>3. CASE ~(AreaOf[p.block[1]] = a /\ d \in {Day(t) : t \in SlotsIn(p.at)})
  <2>1. h \in held
    BY <1>3
  <2>2. Cardinality(On(held \cup {h})) <= w.week.cap[a]
    BY <2>1 DEF CapsHold, WithinCap
  <2>3. On(more) = On(held \cup {h})
    <3>1. held \cup {h} = held
      BY <2>1
    <3>2. On(more) = On(held)
      BY <1>3 DEF SlotsHeld, OfArea
    <3> QED BY <3>1, <3>2
  <2> QED BY <1>1, <2>2, <2>3
<1> QED BY <1>2, <1>3

LEMMA Addition ==
    ASSUME NEW w, AssemblyOK(w), NEW held, HeldOK(w, held),
           NEW p \in Piece, p.chosen, Scorable(held, p), Legal(w, held, p),
           IsHabit(w, p.block[1]) \/ Duration(p.at) <= Left(w, held, p.block[1])
    PROVE  HeldOK(w, held \cup {p})
<1> DEFINE more == held \cup {p}
<1>1. /\ held \in SUBSET Piece /\ IsFiniteSet(held) /\ ChosenAreFree(w, held) /\ CapsHold(w, held)
      /\ PlacedOnceAndAsOwed(w, held) /\ FloorsInReach(w, held)
  BY DEF HeldOK
<1>2. more \in SUBSET Piece /\ IsFiniteSet(more)
  BY <1>1, FS_AddElement
<1>3. p \notin held /\ ~AlreadyNetted(w, p.block)
  BY ChosenAreNew DEF Scorable
<1>4. FreeOfTheWeek(w, p) /\ FreeOfBlocks(w, held, p) /\ WithinCap(w, held, p) /\ KeepsFloors(w, held, p)
  BY <1>3 DEF Legal
<1>5. ChosenAreFree(w, more)
  BY <1>1, <1>4, FreeAfterAddition
<1>6. CapsHold(w, more)
  BY <1>1, <1>4, CapsAfterAddition
<1>7. PlacedOnceAndAsOwed(w, more)
  <2>1. \A h, k \in more : h.block = k.block => h = k
    BY <1>1 DEF PlacedOnceAndAsOwed, Scorable
  <2>2. ASSUME NEW h \in more, h.chosen, ~IsHabit(w, h.block[1]) PROVE Left(w, more, h.block[1]) >= 0
    <3> DEFINE x == h.block[1]
    <3>1. x \in Contents
      BY <1>2, PieceFacts
    <3>2. Left(w, more, x) = Left(w, held, x) - (IF p.block[1] = x THEN Duration(p.at) ELSE 0)
      BY <1>1, <1>3, <3>1, LeftShrinks
    <3>3. Left(w, held, x) \in Int /\ Duration(p.at) \in Nat
      BY <1>1, <3>1, LeftType, IntervalFacts DEF Piece, OfTheWeek
    <3>4. CASE p.block[1] = x
      BY <2>2, <3>2, <3>3, <3>4
    <3>5. CASE p.block[1] # x
      <4>1. Left(w, held, x) >= 0
        BY <1>1, <2>2, <3>5 DEF PlacedOnceAndAsOwed
      <4> QED BY <3>2, <3>3, <3>5, <4>1
    <3> QED BY <3>4, <3>5
  <2> QED BY <2>1, <2>2 DEF PlacedOnceAndAsOwed
<1>8. FloorsInReach(w, more)
  <2>1. /\ Shortfall(w, more) \in Int /\ Shortfall(w, held) \in Int
        /\ Shortfall(w, Inherited(w)) \in Int
    BY <1>1, <1>2, ShortfallType, InheritedFacts
  <2>2. Shortfall(w, more) <= Floored(Shortfall(w, held))
    BY <1>4 DEF KeepsFloors
  <2>3. Shortfall(w, held) <= Floored(Shortfall(w, Inherited(w)))
    BY <1>1 DEF FloorsInReach
  <2> QED BY <2>1, <2>2, <2>3 DEF FloorsInReach, Floored, Larger
<1>9. Inherited(w) \subseteq more /\ \A h \in more : ~h.chosen => h \in Inherited(w)
  BY DEF HeldOK
<1> QED BY <1>2, <1>5, <1>6, <1>7, <1>8, <1>9 DEF HeldOK

-----------------------------------------------------------------------------
(* What is offered is a piece of the content asked for, ahead in a gap and within its bounds. *)

LEMMA GapFacts ==
    ASSUME NEW w, NEW held, NEW gap \in GapsAhead(w, held), NEW from \in SlotsIn(gap)
    PROVE  /\ gap \in Interval /\ from \in Nat /\ from < End /\ from < gap.end
           /\ gap.end \in Nat /\ gap.end <= LastEnd
<1>1. gap \in Interval /\ SlotsIn(gap) \subseteq Claimable(w)
  BY DEF GapsAhead
<1>2. from \in Nat /\ from < End
  BY <1>1, ClaimableSlots
<1>3. gap.end \in Nat /\ gap.end <= LastEnd
  BY <1>1, IntervalFacts
<1> QED BY <1>1, <1>2, <1>3, IntervalFacts DEF SlotsIn

LEMMA SpanInGap ==
    ASSUME NEW w, NEW held, NEW gap \in GapsAhead(w, held), NEW from \in SlotsIn(gap),
           NEW n \in Nat, n > 0, from + n <= gap.end
    PROVE  Span(from, from + n) \in OfTheWeek /\ Duration(Span(from, from + n)) = n
<1>1. /\ from \in Nat /\ from < End /\ from < gap.end
      /\ gap.end \in Nat /\ gap.end <= LastEnd
  BY GapFacts
<1>2. LastEnd \in Nat /\ End \in Nat
  BY SlotBound, WeekBounds
<1>3. from + n \in 1..LastEnd /\ from \in Slots /\ from < from + n
  BY <1>1, <1>2 DEF Slots
<1>4. from + n - from = n
  BY <1>1
<1> QED BY <1>1, <1>3, <1>4 DEF OfTheWeek, Interval, Span, Duration

LEMMA StartsInGap ==
    ASSUME NEW w, NEW held, NEW c, NEW gap \in GapsAhead(w, held)
    PROVE  StartsIn(w, c, gap) \subseteq SlotsIn(gap)
<1>1. gap \in Interval
  BY DEF GapsAhead
<1> QED BY <1>1, IntervalFacts DEF StartsIn

LEMMA UsableFacts ==
    ASSUME NEW left \in Nat, left > 0, NEW smallest \in Nat, smallest > 0,
           NEW length \in Nat, length > 0, length <= left
    PROVE  LET tail == left - length
               shorter == length - (smallest - tail)
               n == IF tail <= 0 \/ tail >= smallest \/ shorter < smallest THEN length ELSE shorter
           IN  n \in Nat /\ n > 0 /\ n <= length
OBVIOUS

LEMMA LengthFacts ==
    ASSUME NEW w, AssemblyOK(w), NEW held \in SUBSET Piece, IsFiniteSet(held), NEW c \in Contents,
           IsHabit(w, c) \/ Left(w, held, c) > 0,
           NEW room \in Nat, room > 0, NEW n \in Lengths(w, held, c, room)
    PROVE  /\ n \in Nat /\ n > 0 /\ n <= room
           /\ IsHabit(w, c) \/ n <= Left(w, held, c)
<1> DEFINE left == Left(w, held, c)
           smallest == SmallestPiece(w, held, c)
           length == Smaller(left, room)
<1>1. left \in Int
  BY LeftType
<1>2. w.week.least[c] \in Nat \ {0} /\ w.week.most[c] \in Nat
  BY DEF AssemblyOK, Declarations
<1>3. CASE IsHabit(w, c)
  BY <1>2, <1>3 DEF Lengths
<1>4. CASE ~IsHabit(w, c)
  <2>1. left \in Nat /\ left > 0
    BY <1>1, <1>4
  <2>2. smallest \in Nat /\ smallest > 0
    BY <1>2, <2>1 DEF SmallestPiece
  <2>3. length \in Nat /\ length > 0 /\ length <= left /\ length <= room
    BY <2>1 DEF Smaller
  <2>4. n = Usable(w, held, c, length)
    BY <1>4 DEF Lengths
  <2> HIDE DEF left, smallest, length
  <2>5. n \in Nat /\ n > 0 /\ n <= length
    BY <2>1, <2>2, <2>3, <2>4, UsableFacts DEF Usable, left, smallest
  <2> QED BY <2>1, <2>3, <2>5 DEF left
<1> QED BY <1>3, <1>4

LEMMA OfferFacts ==
    ASSUME NEW w, AssemblyOK(w), NEW held \in SUBSET Piece, IsFiniteSet(held), NEW c \in Contents,
           IsHabit(w, c) \/ Left(w, held, c) > 0,
           NEW gap \in GapsAhead(w, held), NEW p \in OffersIn(w, held, c, gap)
    PROVE  /\ p.chosen /\ p.block = NextBlock(w, held, c) /\ p.block[1] = c
           /\ p.block \in Blocks => p \in Piece
           /\ IsHabit(w, c) \/ Duration(p.at) <= Left(w, held, c)
<1>1. PICK from \in StartsIn(w, c, gap) : \E n \in Lengths(w, held, c, gap.end - from) :
        p = [block |-> NextBlock(w, held, c), at |-> Span(from, from + n), chosen |-> TRUE]
  BY DEF OffersIn
<1>2. PICK n \in Lengths(w, held, c, gap.end - from) :
        p = [block |-> NextBlock(w, held, c), at |-> Span(from, from + n), chosen |-> TRUE]
  BY <1>1
<1>3. from \in SlotsIn(gap)
  BY StartsInGap
<1>4. from \in Nat /\ gap.end \in Nat /\ from < gap.end
  BY <1>3, GapFacts
<1> DEFINE room == gap.end - from
<1>5. room \in Nat /\ room > 0
  BY <1>4
<1>6. n \in Lengths(w, held, c, room)
  OBVIOUS
<1> HIDE DEF room
<1>7. n \in Nat /\ n > 0 /\ n <= room /\ (IsHabit(w, c) \/ n <= Left(w, held, c))
  BY <1>5, <1>6, LengthFacts
<1>8. from + n <= gap.end
  BY <1>4, <1>7 DEF room
<1>9. Span(from, from + n) \in OfTheWeek /\ Duration(Span(from, from + n)) = n
  BY <1>3, <1>7, <1>8, SpanInGap
<1>10. NextBlock(w, held, c)[1] = c
  BY DEF NextBlock
<1> QED BY <1>2, <1>7, <1>9, <1>10 DEF Piece

LEMMA AcceptedFacts ==
    ASSUME NEW w, AssemblyOK(w), NEW held \in SUBSET Piece, IsFiniteSet(held), NEW c \in Contents,
           IsHabit(w, c) \/ Left(w, held, c) > 0,
           NEW p \in Accepted(w, held, c, Offers(w, held, c))
    PROVE  /\ p \in Piece /\ p.chosen /\ p.block = NextBlock(w, held, c) /\ p.block[1] = c
           /\ Legal(w, held, p) /\ WholeEnough(w, held, c, p)
           /\ IsHabit(w, c) \/ Duration(p.at) <= Left(w, held, c)
           /\ GapsAhead(w, held) # {}
<1>1. /\ p \in Offers(w, held, c) /\ p.block \in Blocks
      /\ Legal(w, held, p) /\ WholeEnough(w, held, c, p)
  BY DEF Accepted
<1>2. PICK gap \in GapsAhead(w, held) : p \in OffersIn(w, held, c, gap)
  BY <1>1 DEF Offers
<1> QED BY <1>1, <1>2, OfferFacts

(* A task is offered in every gap. *)
LEMMA TasksAreOffered ==
    ASSUME NEW w, NEW held, NEW c, ~IsHabit(w, c), Offers(w, held, c) = {}
    PROVE  GapsAhead(w, held) = {}
<1> SUFFICES ASSUME NEW gap \in GapsAhead(w, held) PROVE Offers(w, held, c) # {}
  OBVIOUS
<1> DEFINE n == Usable(w, held, c, Smaller(Left(w, held, c), gap.end - gap.start))
<1>1. n \in Lengths(w, held, c, gap.end - gap.start)
  BY DEF Lengths
<1>2. gap.start \in StartsIn(w, c, gap)
  BY DEF StartsIn
<1> DEFINE piece(from, k) == [block |-> NextBlock(w, held, c), at |-> Span(from, from + k), chosen |-> TRUE]
           at(from) == {piece(from, k) : k \in Lengths(w, held, c, gap.end - from)}
<1>3. piece(gap.start, n) \in at(gap.start)
  BY <1>1
<1>4. OffersIn(w, held, c, gap) = UNION {at(from) : from \in StartsIn(w, c, gap)}
  BY DEF OffersIn
<1>5. at(gap.start) \in {at(from) : from \in StartsIn(w, c, gap)}
  BY <1>2
<1>6. OffersIn(w, held, c, gap) # {}
  <2> HIDE DEF at, piece, n
  <2> QED BY <1>3, <1>4, <1>5
<1> QED BY <1>6 DEF Offers

-----------------------------------------------------------------------------
(* The block a piece is offered as. *)

LEMMA LowestFreeIsFree ==
    ASSUME NEW S \in SUBSET Nat, IsFiniteSet(S)
    PROVE  LowestFree(S) \in Nat /\ LowestFree(S) \notin S
<1> DEFINE size == Cardinality(S)
           untaken == {n \in 0..size : n \notin S}
<1>1. size \in Nat
  BY FS_CardinalityType
<1>2. untaken # {}
  <2> SUFFICES ASSUME 0..size \subseteq S PROVE FALSE
    OBVIOUS
  <2>1. IsFiniteSet(0..size) /\ Cardinality(0..size) = IF 0 > size THEN 0 ELSE size - 0 + 1
    <3> HIDE DEF size
    <3> QED BY <1>1, FS_Interval
  <2>2. Cardinality(0..size) <= size
    BY FS_Subset
  <2> QED BY <1>1, <2>1, <2>2
<1>3. untaken \in SUBSET Nat
  BY <1>1
<1>4. PICK n \in untaken : \A m \in untaken : n <= m
  <2> HIDE DEF untaken
  <2> QED BY <1>2, <1>3, LeastOfNaturals
<1>5. n \in 0..size /\ n \notin S /\ 0..(n - 1) \subseteq S
  BY <1>1, <1>4
<1>6. LowestFree(S) \in 0..size /\ LowestFree(S) \notin S
  BY <1>5 DEF LowestFree
<1> QED BY <1>1, <1>6

LEMMA SplittablePiecesAreNew ==
    ASSUME NEW w, NEW held \in SUBSET Piece, IsFiniteSet(held), NEW c, Splittable(w, c),
           NEW p, p.block = NextBlock(w, held, c)
    PROVE  Scorable(held, p)
<1> DEFINE of == OfContent(held, c)
           number == [h \in of |-> h.block[2]]
<1>1. IsFiniteSet(of)
  BY FS_Subset DEF OfContent
<1>2. Numbers(held, c) = {number[h] : h \in of}
  BY DEF Numbers
<1>3. number = [h \in of |-> number[h]]
  OBVIOUS
<1>4. IsFiniteSet(Numbers(held, c))
  <2> HIDE DEF of, number
  <2> QED BY <1>1, <1>2, <1>3, ImageIsFinite
<1>5. Numbers(held, c) \in SUBSET Nat
  BY WeekBounds DEF Numbers, OfContent, Piece
<1>6. LowestFree(Numbers(held, c)) \notin Numbers(held, c)
  BY <1>4, <1>5, LowestFreeIsFree
<1>7. p.block = <<c, LowestFree(Numbers(held, c))>>
  BY DEF NextBlock
<1> SUFFICES ASSUME NEW h \in held, h.block = p.block PROVE FALSE
  BY DEF Scorable
<1>8. h.block[1] = c /\ h.block[2] = LowestFree(Numbers(held, c))
  BY <1>7
<1> QED BY <1>6, <1>8 DEF Numbers, OfContent

(* A chosen piece taken out may come back: its block is free, and its minutes are owed. *)
LEMMA RoomForItself ==
    ASSUME NEW w, AssemblyOK(w), NEW held, HeldOK(w, held), NEW h \in held, h.chosen
    PROVE  /\ HeldOK(w, held \ {h})
           /\ \A p \in Piece : p.block = h.block => Scorable(held \ {h}, p)
           /\ IsHabit(w, h.block[1]) \/ Duration(h.at) <= Left(w, held \ {h}, h.block[1])
<1> DEFINE rest == held \ {h}  c == h.block[1]
<1>1. /\ held \in SUBSET Piece /\ IsFiniteSet(held) /\ PlacedOnceAndAsOwed(w, held)
      /\ h \in Piece /\ c \in Contents /\ h.at \in Interval
  BY PieceFacts DEF HeldOK
<1>2. HeldOK(w, rest)
  <2>1. {h} \in SUBSET held /\ \A k \in {h} : k.chosen /\ k.block[1] = c
    OBVIOUS
  <2> HIDE DEF c
  <2> QED BY <1>1, <2>1, Removal
<1>3. ASSUME NEW p \in Piece, p.block = h.block PROVE Scorable(rest, p)
  BY <1>1, <1>3 DEF Scorable, PlacedOnceAndAsOwed
<1>4. ASSUME ~IsHabit(w, c) PROVE Duration(h.at) <= Left(w, rest, c)
  <2>1. ~AlreadyNetted(w, h.block)
    BY ChosenAreNew
  <2>2. rest \in SUBSET Piece /\ IsFiniteSet(rest) /\ h \notin rest /\ rest \cup {h} = held
    BY <1>2 DEF HeldOK
  <2>3. Left(w, held, c) = Left(w, rest, c) - Duration(h.at)
    BY <1>1, <2>1, <2>2, LeftShrinks
  <2>4. Left(w, held, c) >= 0
    BY <1>1, <1>4 DEF PlacedOnceAndAsOwed
  <2>5. Left(w, rest, c) \in Int /\ Duration(h.at) \in Nat
    BY <1>1, <2>2, LeftType, IntervalFacts
  <2> QED BY <2>3, <2>4, <2>5
<1> QED BY <1>2, <1>3, <1>4

-----------------------------------------------------------------------------
(* The steps of a search. *)

LEMMA RelocationKeepsTheRules ==
    ASSUME NEW w, AssemblyOK(w), NEW held, HeldOK(w, held), NEW h \in held, h.chosen,
           NEW gap \in GapsAhead(w, held \ {h}), NEW from \in StartsIn(w, h.block[1], gap),
           from + Duration(h.at) <= gap.end, Legal(w, held \ {h}, Moved(h, from))
    PROVE  HeldOK(w, (held \ {h}) \cup {Moved(h, from)})
<1> DEFINE rest == held \ {h}  p == Moved(h, from)
<1>1. h \in Piece /\ h.at \in Interval
  BY PieceFacts DEF HeldOK
<1>2. Duration(h.at) \in Nat /\ Duration(h.at) > 0
  BY <1>1, IntervalFacts
<1>3. from \in SlotsIn(gap)
  BY StartsInGap
<1>4. Span(from, from + Duration(h.at)) \in OfTheWeek /\ Duration(Span(from, from + Duration(h.at))) = Duration(h.at)
  BY <1>2, <1>3, SpanInGap
<1>5. p \in Piece /\ p.chosen /\ p.block = h.block /\ Duration(p.at) = Duration(h.at)
  BY <1>1, <1>4 DEF Moved, Piece
<1>6. HeldOK(w, rest) /\ Scorable(rest, p) /\ (IsHabit(w, p.block[1]) \/ Duration(p.at) <= Left(w, rest, p.block[1]))
  BY <1>5, RoomForItself
<1>7. Legal(w, rest, p)
  OBVIOUS
<1> HIDE DEF rest, p
<1>8. HeldOK(w, rest \cup {p})
  BY <1>5, <1>6, <1>7, Addition
<1> QED BY <1>8 DEF rest, p

LEMMA SwapKeepsTheRules ==
    ASSUME NEW w, AssemblyOK(w), NEW held, HeldOK(w, held),
           NEW h \in held, h.chosen, NEW k \in held, k.chosen, h # k,
           Duration(h.at) = Duration(k.at),
           Legal(w, held \ {h, k}, Moved(h, k.at.start)),
           Legal(w, (held \ {h, k}) \cup {Moved(h, k.at.start)}, Moved(k, h.at.start))
    PROVE  HeldOK(w, (held \ {h, k}) \cup {Moved(h, k.at.start), Moved(k, h.at.start)})
<1> DEFINE rest == held \ {h, k}
           one == Moved(h, k.at.start)
           other == Moved(k, h.at.start)
<1>1. /\ held \in SUBSET Piece /\ IsFiniteSet(held) /\ PlacedOnceAndAsOwed(w, held)
      /\ h \in Piece /\ k \in Piece /\ h.at \in Interval /\ k.at \in Interval
      /\ h.block[1] \in Contents /\ k.block[1] \in Contents
  BY PieceFacts DEF HeldOK
<1>2. Moved(h, k.at.start) = [h EXCEPT !.at = k.at] /\ Moved(k, h.at.start) = [k EXCEPT !.at = h.at]
  <2>1. /\ k.at.start \in Nat /\ k.at.end \in Nat /\ k.at = Span(k.at.start, k.at.end)
        /\ h.at.start \in Nat /\ h.at.end \in Nat /\ h.at = Span(h.at.start, h.at.end)
    BY <1>1, IntervalFacts
  <2>2. /\ k.at.start + (k.at.end - k.at.start) = k.at.end
        /\ h.at.start + (h.at.end - h.at.start) = h.at.end
    BY <2>1
  <2> QED BY <2>1, <2>2 DEF Moved, Duration
<1>3. /\ one \in Piece /\ one.chosen /\ one.block = h.block /\ one.at = k.at
      /\ other \in Piece /\ other.chosen /\ other.block = k.block /\ other.at = h.at
  BY <1>1, <1>2 DEF Piece
<1>4. /\ HeldOK(w, held \ {h}) /\ k \in held \ {h}
      /\ IsHabit(w, h.block[1]) \/ Duration(h.at) <= Left(w, held \ {h}, h.block[1])
  BY RoomForItself
<1>5. (held \ {h}) \ {k} = rest
  OBVIOUS
<1>6. HeldOK(w, (held \ {h}) \ {k})
  BY <1>4, RoomForItself
<1>7. HeldOK(w, rest)
  BY <1>5, <1>6
<1>8. rest \in SUBSET Piece /\ IsFiniteSet(rest) /\ h \notin rest /\ k \notin rest
  BY <1>7 DEF HeldOK
<1>9. ~AlreadyNetted(w, h.block) /\ ~AlreadyNetted(w, k.block) /\ h.block # k.block
  BY <1>1, ChosenAreNew DEF PlacedOnceAndAsOwed
<1>10. Scorable(rest, one) /\ Scorable(rest \cup {one}, other)
  BY <1>1, <1>3, <1>9 DEF Scorable, PlacedOnceAndAsOwed
<1>11. Duration(h.at) \in Nat /\ Duration(k.at) \in Nat
  BY <1>1, IntervalFacts
<1>12. one \notin rest
  BY <1>10 DEF Scorable
<1> HIDE DEF one, other, rest
<1>13. HeldOK(w, rest \cup {one})
  <2>1. IsHabit(w, h.block[1]) \/ Duration(h.at) <= Left(w, rest, h.block[1])
    <3>1. ASSUME ~IsHabit(w, h.block[1]) PROVE Duration(h.at) <= Left(w, rest, h.block[1])
      <4>1. PlacedMinutes(w, rest, h.block[1]) <= PlacedMinutes(w, held \ {h}, h.block[1])
        BY <1>4, PlacedMinutesOfFewer DEF HeldOK, rest
      <4>2. /\ PlacedMinutes(w, rest, h.block[1]) \in Nat /\ PlacedMinutes(w, held \ {h}, h.block[1]) \in Nat
            /\ Owes(w, h.block[1]) \in Nat
        BY <1>1, <1>4, <1>8, PlacedMinutesType, OwesType DEF HeldOK
      <4>3. Duration(h.at) <= Left(w, held \ {h}, h.block[1])
        BY <1>4, <3>1
      <4> QED BY <1>11, <4>1, <4>2, <4>3 DEF Left
    <3> QED BY <3>1
  <2>2. Legal(w, rest, one)
    BY DEF rest, one
  <2>3. IsHabit(w, one.block[1]) \/ Duration(one.at) <= Left(w, rest, one.block[1])
    BY <1>3, <2>1
  <2> QED BY <1>3, <1>7, <1>10, <2>2, <2>3, Addition
<1>14. HeldOK(w, (rest \cup {one}) \cup {other})
  <2> DEFINE c == k.block[1]
  <2>1. IsHabit(w, c) \/ Duration(k.at) <= Left(w, rest \cup {one}, c)
    <3>1. ASSUME ~IsHabit(w, c) PROVE Duration(k.at) <= Left(w, rest \cup {one}, c)
      <4>1. Left(w, rest \cup {one}, c) = Left(w, rest, c) - (IF one.block[1] = c THEN Duration(one.at) ELSE 0)
        BY <1>1, <1>3, <1>8, <1>9, <1>12, LeftShrinks
      <4>2. Left(w, rest \cup {h}, c) = Left(w, rest, c) - (IF h.block[1] = c THEN Duration(h.at) ELSE 0)
        BY <1>1, <1>8, <1>9, LeftShrinks
      <4>3. Left(w, rest \cup {one}, c) = Left(w, rest \cup {h}, c)
        BY <1>3, <4>1, <4>2
      <4>4. rest \cup {h} = held \ {k}
        BY <1>9 DEF rest
      <4>5. Duration(k.at) <= Left(w, held \ {k}, c)
        BY <3>1, RoomForItself
      <4> QED BY <4>3, <4>4, <4>5
    <3> QED BY <3>1
  <2>2. Legal(w, rest \cup {one}, other)
    BY DEF rest, one, other
  <2>3. IsHabit(w, other.block[1]) \/ Duration(other.at) <= Left(w, rest \cup {one}, other.block[1])
    BY <1>3, <2>1
  <2> HIDE DEF c
  <2> QED BY <1>3, <1>10, <1>13, <2>2, <2>3, Addition
<1>15. (rest \cup {one}) \cup {other} = rest \cup {one, other}
  OBVIOUS
<1> QED BY <1>14, <1>15 DEF rest, one, other

LEMMA HabitsAreOneBlock ==
    ASSUME NEW w, AssemblyOK(w), NEW b \in Blocks, IsHabit(w, b[1])
    PROVE  b = <<b[1], 0>>
BY WeekBounds DEF AssemblyOK, IsHabit

LEMMA ResizeKeepsTheRules ==
    ASSUME NEW w, AssemblyOK(w), NEW held, HeldOK(w, held), NEW h \in held, h.chosen,
           IsHabit(w, h.block[1]),
           NEW around \in SUBSET GapsAhead(w, held \ {h}),
           NEW p \in Accepted(w, held \ {h}, h.block[1],
                              UNION {OffersIn(w, held \ {h}, h.block[1], gap) : gap \in around})
    PROVE  HeldOK(w, (held \ {h}) \cup {p})
<1> DEFINE rest == held \ {h}  c == h.block[1]
<1>1. h.block \in Blocks /\ c \in Contents
  BY PieceFacts DEF HeldOK
<1>2. HeldOK(w, rest) /\ \A q \in Piece : q.block = h.block => Scorable(rest, q)
  BY RoomForItself
<1>3. p \in Accepted(w, rest, c, Offers(w, rest, c))
  BY DEF Accepted, Offers
<1>4. IsHabit(w, c) /\ rest \in SUBSET Piece /\ IsFiniteSet(rest)
  BY <1>2 DEF HeldOK
<1> HIDE DEF rest, c
<1>5. p \in Piece /\ p.chosen /\ p.block = NextBlock(w, rest, c) /\ p.block[1] = c /\ Legal(w, rest, p)
  BY <1>1, <1>3, <1>4, AcceptedFacts
<1>6. p.block = <<c, 0>>
  BY <1>4, <1>5 DEF NextBlock, Splittable
<1>7. p.block = h.block
  BY <1>1, <1>4, <1>6, HabitsAreOneBlock DEF c
<1>8. Scorable(rest, p)
  BY <1>2, <1>5, <1>7
<1>9. HeldOK(w, rest \cup {p})
  BY <1>2, <1>4, <1>5, <1>8, Addition
<1> QED BY <1>9 DEF rest

(* Of a task of one block, the piece packed is the whole of what is left. *)
LEMMA PackedKeepsTheRules ==
    ASSUME NEW w, AssemblyOK(w), NEW held, HeldOK(w, held), NEW c \in Contents, ~IsHabit(w, c),
           NEW p \in Pieces(w, held, c),
           Splittable(w, c) \/ \A h \in held : h.block[1] # c
    PROVE  /\ HeldOK(w, held \cup {p})
           /\ Splittable(w, c) \/ Left(w, held \cup {p}, c) <= 0
<1>1. held \in SUBSET Piece /\ IsFiniteSet(held)
  BY DEF HeldOK
<1>2. Left(w, held, c) > 0 /\ p \in Accepted(w, held, c, Offers(w, held, c))
  BY DEF Pieces
<1>3. /\ p \in Piece /\ p.chosen /\ p.block = NextBlock(w, held, c) /\ p.block[1] = c
      /\ Legal(w, held, p) /\ WholeEnough(w, held, c, p) /\ Duration(p.at) <= Left(w, held, c)
  BY <1>1, <1>2, AcceptedFacts
<1>4. Scorable(held, p)
  <2>1. CASE Splittable(w, c)
    BY <1>1, <1>3, <2>1, SplittablePiecesAreNew
  <2>2. CASE ~Splittable(w, c)
    BY <1>3, <2>2 DEF Scorable
  <2> QED BY <2>1, <2>2
<1>5. HeldOK(w, held \cup {p})
  BY <1>3, <1>4, Addition
<1>6. ASSUME ~Splittable(w, c) PROVE Left(w, held \cup {p}, c) <= 0
  <2>1. p \notin held /\ ~AlreadyNetted(w, p.block)
    BY <1>3, <1>4, ChosenAreNew DEF Scorable
  <2>2. Left(w, held \cup {p}, c) = Left(w, held, c) - Duration(p.at)
    BY <1>1, <1>3, <2>1, LeftShrinks
  <2>3. Duration(p.at) >= Left(w, held, c)
    BY <1>3, <1>6 DEF WholeEnough, SmallestPiece
  <2>4. Left(w, held, c) \in Int /\ Duration(p.at) \in Nat
    BY <1>1, <1>3, LeftType, IntervalFacts DEF Piece, OfTheWeek
  <2> QED BY <2>2, <2>3, <2>4
<1> QED BY <1>5, <1>6

LEMMA ResplitKeepsTheRules ==
    ASSUME NEW w, AssemblyOK(w), NEW held, HeldOK(w, held), NEW h \in held, h.chosen,
           ~IsHabit(w, h.block[1]),
           NEW rest, rest = held \ OfContent({x \in held : x.chosen}, h.block[1]),
           NEW p \in Pieces(w, rest, h.block[1])
    PROVE  /\ HeldOK(w, rest \cup {p})
           /\ Splittable(w, h.block[1]) \/ Left(w, rest \cup {p}, h.block[1]) <= 0
<1> DEFINE c == h.block[1]
           D == OfContent({x \in held : x.chosen}, c)
<1>1. h.block \in Blocks /\ c \in Contents /\ held \in SUBSET Piece
  BY PieceFacts DEF HeldOK
<1>2. D \in SUBSET held /\ (\A x \in D : x.chosen /\ x.block[1] = c) /\ h \in D
  BY DEF OfContent
<1>3. HeldOK(w, held \ D)
  <2> HIDE DEF c, D
  <2> QED BY <1>1, <1>2, Removal
<1>4. ASSUME ~Splittable(w, c), NEW k \in rest, k.block[1] = c PROVE FALSE
  <2>1. k \in held /\ k.block \in Blocks
    BY <1>1, PieceFacts
  <2>2. k.block = h.block
    BY <1>1, <1>4, <2>1 DEF Splittable, BlocksOf
  <2>3. k = h
    BY <2>1, <2>2 DEF HeldOK, PlacedOnceAndAsOwed
  <2> QED BY <1>2, <2>3
<1>5. rest = held \ D
  OBVIOUS
<1> HIDE DEF c, D
<1>6. ~IsHabit(w, c) /\ p \in Pieces(w, rest, c)
  BY DEF c
<1>7. Splittable(w, c) \/ \A k \in rest : k.block[1] # c
  BY <1>4
<1>8. /\ HeldOK(w, rest \cup {p})
      /\ Splittable(w, c) \/ Left(w, rest \cup {p}, c) <= 0
  BY <1>1, <1>3, <1>5, <1>6, <1>7, PackedKeepsTheRules
<1> QED BY <1>8 DEF c

-----------------------------------------------------------------------------
(* The inductive invariant: the rules kept while a solve runs; the task a re-split is packing *)
(* again; and of each content given up before any move, why.                                  *)

RulesInv == ~Solving("idle") => HeldOK(Assembly, solve.held)

RepackInv ==
    Solving("repack") =>
        /\ solve.packing \in Contents /\ ~IsHabit(Assembly, solve.packing)
        /\ solve.moves > 0
        /\ Splittable(Assembly, solve.packing) \/ Left(Assembly, solve.held, solve.packing) <= 0

GaveUpInv ==
    /\ Solving("fill") => solve.moves = 0
    /\ Solving("fill") \/ (Solving("improve") /\ solve.moves = 0) =>
        \A c \in solve.exhausted :
            IsHabit(Assembly, c) \/ c \in solve.refused \/ GapsAhead(Assembly, solve.held) = {}
    /\ Solving("improve") /\ solve.moves = 0 =>
        Candidates(Assembly, solve.held) \subseteq solve.exhausted

WeekInv == TypeOK /\ SolveTypeOK /\ RulesInv /\ RepackInv /\ GaveUpInv

LEMMA AssemblyIsOK ==
    ASSUME TypeOK
    PROVE  AssemblyOK(Assembly)
<1>1. PICK s \in Starts : week = s.week
  BY DEF TypeOK
<1>2. s.week \in Declarations /\ \A b \in Blocks : s.week.estimate[b[1]] = 0 => b[2] = 0
  BY CapacityBounds
<1> QED BY <1>1, <1>2 DEF AssemblyOK, Assembly, TypeOK

LEMMA WeekInvInit ==
    ASSUME WeekInit
    PROVE  WeekInv
<1>1. PICK s \in Starts : week = s.week /\ plan = s.plan /\ edits = s.edits
  BY DEF WeekInit
<1>2. s.plan \in [Blocks -> OfTheWeek \cup {NULL}] /\ s.edits \in Nat
  BY CapacityBounds
<1>3. /\ now = 0 /\ pins = [b \in Blocks |-> NULL] /\ outcomes = [b \in Blocks |-> NoOutcome]
      /\ solve = IdleSolve
  BY DEF WeekInit, Init
<1>4. TypeOK
  <2>1. now \in 0..End
    BY <1>3, WeekBounds, SlotBound
  <2> QED BY <1>1, <1>2, <1>3, <2>1 DEF TypeOK, Outcomes
<1>5. SolveTypeOK
  BY <1>3 DEF SolveTypeOK, IdleSolve
<1> QED BY <1>3, <1>4, <1>5 DEF WeekInv, RulesInv, RepackInv, GaveUpInv, Solving, IdleSolve

(* What the user does to the week keeps its types; no solve is running. *)
LEMMA WeekStepKeepsTypes ==
    ASSUME TypeOK, Next
    PROVE  TypeOK'
<1>1. ASSUME NEW b \in Blocks, Hold(b) PROVE TypeOK'
  <2>1. PICK from \in Slots :
          /\ StartsInsideTheWeek(Span(from, from + Duration(plan[b])))
          /\ Span(from, from + Duration(plan[b])).end <= LastEnd
          /\ pins' = [pins EXCEPT ![b] = Span(from, from + Duration(plan[b]))]
    BY <1>1 DEF Hold
  <2>2. plan[b] \in Interval
    BY <1>1 DEF Hold, TypeOK, OfTheWeek
  <2>3. Duration(plan[b]) \in Nat \ {0}
    BY <2>2, IntervalFacts
  <2> DEFINE n == Duration(plan[b])
  <2>4. Span(from, from + n) \in OfTheWeek
    <3> HIDE DEF n
    <3>1. from \in Nat /\ n \in Nat \ {0} /\ LastEnd \in Nat
      BY <2>3, SlotBound DEF n, Slots
    <3>2. from < End /\ from + n <= LastEnd
      BY <2>1 DEF n, StartsInsideTheWeek, Span
    <3>3. from + n \in 1..LastEnd /\ from < from + n
      BY <3>1, <3>2
    <3> QED BY <3>2, <3>3 DEF OfTheWeek, Interval, Span
  <2>5. pins' \in [Blocks -> OfTheWeek \cup {NULL}]
    <3> HIDE DEF n
    <3> QED BY <2>1, <2>4 DEF TypeOK, n
  <2>6. edits' \in Nat /\ UNCHANGED <<week, now, plan, outcomes>>
    BY <1>1 DEF Hold, TypeOK
  <2> QED BY <2>5, <2>6 DEF TypeOK
<1>2. ASSUME NEW b \in Blocks, Reject(b) PROVE TypeOK'
  BY <1>2 DEF Reject, TypeOK
<1>3. ASSUME NEW b \in Blocks, Release(b) PROVE TypeOK'
  BY <1>3 DEF Release, TypeOK
<1>4. ASSUME NEW b \in Blocks, Record(b) PROVE TypeOK'
  <2>1. PICK outcome \in Outcomes : outcomes' = [outcomes EXCEPT ![b] = outcome]
    BY <1>4 DEF Record
  <2>2. edits' \in Nat /\ UNCHANGED <<week, now, plan, pins>>
    BY <1>4 DEF Record, TypeOK
  <2> QED BY <2>1, <2>2 DEF TypeOK
<1>5. ASSUME TimePasses PROVE TypeOK'
  BY <1>5, WeekBounds, SlotBound DEF TimePasses, TypeOK
<1> QED BY <1>1, <1>2, <1>3, <1>4, <1>5 DEF Next

LEMMA WeekInvNext ==
    ASSUME WeekInv, [WeekNext]_solveVars
    PROVE  WeekInv'
<1> USE DEF WeekInv
<1> DEFINE w == Assembly  held == solve.held
<1>1. AssemblyOK(w)
  BY AssemblyIsOK
<1>2. ASSUME UNCHANGED vars PROVE TypeOK' /\ w' = w
  BY <1>2 DEF TypeOK, vars, Assembly
<1>3. CASE UNCHANGED solveVars
  BY <1>3 DEF solveVars, TypeOK, SolveTypeOK, RulesInv, RepackInv, GaveUpInv, Solving, Assembly
<1>4. CASE WeekStep
  <2>1. TypeOK'
    BY <1>4, WeekStepKeepsTypes DEF WeekStep
  <2> QED BY <1>4, <2>1 DEF WeekStep, SolveTypeOK, RulesInv, RepackInv, GaveUpInv, Solving
<1>5. CASE StartSolve
  <2>1. TypeOK' /\ w' = w
    BY <1>2, <1>5 DEF StartSolve
  <2>2. solve' = [phase |-> "fill", held |-> Inherited(w), exhausted |-> {}, refused |-> {},
                  moves |-> 0, packing |-> NULL]
    BY <1>5 DEF StartSolve, IdleSolve
  <2>3. HeldOK(w, Inherited(w)) /\ Inherited(w) \in SUBSET Piece
    BY <1>1, InheritedKeepsTheRules, InheritedFacts
  <2> HIDE DEF w
  <2>4. SolveTypeOK'
    BY <2>2, <2>3 DEF SolveTypeOK
  <2>5. RulesInv' /\ RepackInv' /\ GaveUpInv'
    BY <2>1, <2>2, <2>3 DEF RulesInv, RepackInv, GaveUpInv, Solving, w
  <2> QED BY <2>1, <2>4, <2>5
<1>6. CASE Fill
  <2>1. /\ Solving("fill") /\ TypeOK' /\ w' = w /\ HeldOK(w, held)
        /\ held \in SUBSET Piece /\ IsFiniteSet(held)
    BY <1>2, <1>6 DEF Fill, RulesInv, HeldOK, Solving
  <2>2. PICK c \in NextInOrder :
          LET offers == Offers(w, held, c)
              accepted == Accepted(w, held, c, offers)
              refused == IF Checked(offers, accepted) \subseteq accepted THEN {} ELSE {c}
          IN  \/ \E p \in Longest(accepted), logged \in SUBSET refused :
                  /\ Scorable(held, p)
                  /\ solve' = [solve EXCEPT !.held = @ \cup {p}, !.refused = @ \cup logged]
              \/ /\ accepted = {}
                 /\ solve' = [solve EXCEPT !.exhausted = @ \cup {c}, !.refused = @ \cup refused]
    BY <1>6 DEF Fill
  <2> DEFINE offers == Offers(w, held, c)
             accepted == Accepted(w, held, c, offers)
             refused == IF Checked(offers, accepted) \subseteq accepted THEN {} ELSE {c}
  <2>3. c \in Contents /\ (IsHabit(w, c) \/ Left(w, held, c) > 0)
    BY DEF NextInOrder, FirstOffered, Candidates
  <2>4. refused \in SUBSET Contents
    BY <2>3
  <2>5. ASSUME NEW p \in accepted, Scorable(held, p), NEW logged \in SUBSET refused,
               solve' = [solve EXCEPT !.held = @ \cup {p}, !.refused = @ \cup logged]
        PROVE  WeekInv'
    <3>1. /\ p \in Piece /\ p.chosen /\ p.block[1] = c /\ Legal(w, held, p)
          /\ IsHabit(w, c) \/ Duration(p.at) <= Left(w, held, c)
          /\ GapsAhead(w, held) # {}
      BY <1>1, <2>1, <2>3, AcceptedFacts
    <3>2. HeldOK(w, held \cup {p})
      BY <1>1, <2>1, <2>5, <3>1, Addition
    <3> HIDE DEF refused, accepted, offers, w
    <3>3. SolveTypeOK'
      BY <2>1, <2>4, <2>5, <3>1 DEF SolveTypeOK
    <3>4. /\ solve'.phase = "fill" /\ solve'.held = held \cup {p} /\ solve'.moves = solve.moves
          /\ solve'.exhausted = solve.exhausted /\ solve.refused \subseteq solve'.refused
      BY <2>1, <2>5 DEF SolveTypeOK, Solving
    <3>5. RulesInv' /\ RepackInv'
      BY <2>1, <3>2, <3>4 DEF RulesInv, RepackInv, Solving, w
    <3>6. GaveUpInv'
      BY <2>1, <3>1, <3>4 DEF GaveUpInv, Solving, w
    <3> QED BY <2>1, <3>3, <3>5, <3>6
  <2>6. ASSUME accepted = {},
               solve' = [solve EXCEPT !.exhausted = @ \cup {c}, !.refused = @ \cup refused]
        PROVE  WeekInv'
    <3>1. IsHabit(w, c) \/ c \in refused \/ GapsAhead(w, held) = {}
      <4>1. Checked(offers, accepted) = offers
        BY <2>6 DEF Checked
      <4>2. IsHabit(w, c) \/ offers # {} \/ GapsAhead(w, held) = {}
        BY TasksAreOffered
      <4> HIDE DEF offers, accepted, w
      <4> QED BY <2>6, <4>1, <4>2
    <3> HIDE DEF refused, accepted, offers, w
    <3>2. SolveTypeOK'
      BY <2>3, <2>4, <2>6 DEF SolveTypeOK
    <3>3. /\ solve'.phase = "fill" /\ solve'.held = held /\ solve'.moves = solve.moves
          /\ solve'.exhausted = solve.exhausted \cup {c} /\ solve'.refused = solve.refused \cup refused
      BY <2>1, <2>6 DEF SolveTypeOK, Solving
    <3>4. RulesInv' /\ RepackInv'
      BY <2>1, <3>3 DEF RulesInv, RepackInv, Solving, w
    <3>5. GaveUpInv'
      BY <2>1, <3>1, <3>3 DEF GaveUpInv, Solving, w
    <3> QED BY <2>1, <3>2, <3>4, <3>5
  <2> QED BY <2>2, <2>5, <2>6 DEF Longest
<1>7. ASSUME solve' = IdleSolve, TypeOK' PROVE WeekInv'
  BY <1>7 DEF IdleSolve, SolveTypeOK, RulesInv, RepackInv, GaveUpInv, Solving
<1>8. CASE Raise
  BY <1>2, <1>7, <1>8 DEF Raise
<1>9. CASE Filled
  <2>1. /\ Solving("fill") /\ TypeOK' /\ w' = w /\ HeldOK(w, held)
        /\ Candidates(w, held) \subseteq solve.exhausted
        /\ solve' = [solve EXCEPT !.phase = "improve"]
    BY <1>2, <1>9 DEF Filled, RulesInv, Solving
  <2> HIDE DEF w
  <2>2. SolveTypeOK'
    BY <2>1 DEF SolveTypeOK
  <2>3. /\ solve'.phase = "improve" /\ solve'.held = held /\ solve'.moves = solve.moves
        /\ solve'.exhausted = solve.exhausted /\ solve'.refused = solve.refused
    BY <2>1 DEF SolveTypeOK
  <2>4. RulesInv' /\ RepackInv' /\ GaveUpInv'
    BY <2>1, <2>3 DEF RulesInv, RepackInv, GaveUpInv, Solving, w
  <2> QED BY <2>1, <2>2, <2>4
<1>10. ASSUME Solving("improve"), UNCHANGED vars, NEW next, HeldOK(w, next),
              solve' = [solve EXCEPT !.held = next, !.moves = @ + 1]
       PROVE  WeekInv'
  <2>1. TypeOK' /\ w' = w /\ next \in SUBSET Piece
    BY <1>2, <1>10 DEF HeldOK
  <2> HIDE DEF w
  <2> DEFINE moves == solve.moves + 1
  <2>2. moves \in Nat /\ moves # 0
    BY DEF SolveTypeOK
  <2>3. solve' = [solve EXCEPT !.held = next, !.moves = moves]
    BY <1>10
  <2> HIDE DEF moves
  <2>4. SolveTypeOK' /\ solve'.phase = "improve" /\ solve'.held = next /\ solve'.moves = moves
    BY <1>10, <2>1, <2>2, <2>3 DEF SolveTypeOK, Solving
  <2>5. RulesInv' /\ RepackInv' /\ GaveUpInv'
    BY <1>10, <2>1, <2>2, <2>4 DEF RulesInv, RepackInv, GaveUpInv, Solving, w
  <2> QED BY <2>1, <2>4, <2>5
<1>11. ASSUME Solving("improve") PROVE HeldOK(w, held)
  BY <1>11 DEF RulesInv, Solving
<1>12. CASE Relocate
  <2>1. PICK h \in Chosen : \E gap \in GapsAhead(w, held \ {h}) : \E from \in StartsIn(w, h.block[1], gap) :
          /\ from + Duration(h.at) <= gap.end
          /\ Legal(w, held \ {h}, Moved(h, from))
          /\ Improved((held \ {h}) \cup {Moved(h, from)})
    BY <1>12 DEF Relocate
  <2>2. PICK gap \in GapsAhead(w, held \ {h}) : \E from \in StartsIn(w, h.block[1], gap) :
          /\ from + Duration(h.at) <= gap.end
          /\ Legal(w, held \ {h}, Moved(h, from))
          /\ Improved((held \ {h}) \cup {Moved(h, from)})
    BY <2>1
  <2>3. PICK from \in StartsIn(w, h.block[1], gap) :
          /\ from + Duration(h.at) <= gap.end
          /\ Legal(w, held \ {h}, Moved(h, from))
          /\ Improved((held \ {h}) \cup {Moved(h, from)})
    BY <2>2
  <2>4. h \in held /\ h.chosen /\ HeldOK(w, held) /\ Solving("improve")
    BY <1>11, <1>12 DEF Chosen, Relocate
  <2>5. HeldOK(w, (held \ {h}) \cup {Moved(h, from)})
    BY <1>1, <2>3, <2>4, RelocationKeepsTheRules
  <2> QED BY <1>10, <2>3, <2>4, <2>5 DEF Improved
<1>13. CASE Swap
  <2>1. PICK h \in Chosen, k \in Chosen :
          /\ h # k
          /\ Duration(h.at) = Duration(k.at)
          /\ Legal(w, held \ {h, k}, Moved(h, k.at.start))
          /\ Legal(w, (held \ {h, k}) \cup {Moved(h, k.at.start)}, Moved(k, h.at.start))
          /\ Improved((held \ {h, k}) \cup {Moved(h, k.at.start), Moved(k, h.at.start)})
    BY <1>13 DEF Swap
  <2>2. h \in held /\ h.chosen /\ k \in held /\ k.chosen /\ HeldOK(w, held) /\ Solving("improve")
    BY <1>11, <1>13 DEF Chosen, Swap
  <2>3. HeldOK(w, (held \ {h, k}) \cup {Moved(h, k.at.start), Moved(k, h.at.start)})
    BY <1>1, <2>1, <2>2, SwapKeepsTheRules
  <2> QED BY <1>10, <2>1, <2>2, <2>3 DEF Improved
<1>14. CASE Resize
  <2>1. PICK h \in Chosen :
          LET around == {gap \in GapsAhead(w, held \ {h}) : h.at.start \in SlotsIn(gap)}
              offers == UNION {OffersIn(w, held \ {h}, h.block[1], gap) : gap \in around}
          IN  /\ IsHabit(w, h.block[1])
              /\ \E p \in Accepted(w, held \ {h}, h.block[1], offers) : Improved((held \ {h}) \cup {p})
    BY <1>14 DEF Resize
  <2> DEFINE around == {gap \in GapsAhead(w, held \ {h}) : h.at.start \in SlotsIn(gap)}
  <2>2. around \in SUBSET GapsAhead(w, held \ {h})
    OBVIOUS
  <2>3. IsHabit(w, h.block[1]) /\
          \E p \in Accepted(w, held \ {h}, h.block[1],
                            UNION {OffersIn(w, held \ {h}, h.block[1], gap) : gap \in around}) :
              Improved((held \ {h}) \cup {p})
    BY <2>1
  <2> HIDE DEF around
  <2>4. PICK p \in Accepted(w, held \ {h}, h.block[1],
                            UNION {OffersIn(w, held \ {h}, h.block[1], gap) : gap \in around}) :
          Improved((held \ {h}) \cup {p})
    BY <2>3
  <2>5. h \in held /\ h.chosen /\ HeldOK(w, held) /\ Solving("improve")
    BY <1>11, <1>14 DEF Chosen, Resize
  <2>6. HeldOK(w, (held \ {h}) \cup {p})
    BY <1>1, <2>2, <2>3, <2>5, ResizeKeepsTheRules
  <2> QED BY <1>10, <2>4, <2>5, <2>6 DEF Improved
<1>15. CASE Resplit
  <2>1. PICK h \in Chosen :
          LET rest == held \ OfContent(Chosen, h.block[1])
          IN  /\ ~IsHabit(w, h.block[1])
              /\ \E p \in Pieces(w, rest, h.block[1]) :
                  solve' = [solve EXCEPT !.phase = "repack", !.packing = h.block[1],
                                         !.held = rest \cup {p}, !.moves = @ + 1]
    BY <1>15 DEF Resplit
  <2> DEFINE c == h.block[1]
             rest == held \ OfContent(Chosen, c)
  <2>2. PICK p \in Pieces(w, rest, c) :
          solve' = [solve EXCEPT !.phase = "repack", !.packing = c, !.held = rest \cup {p}, !.moves = @ + 1]
    BY <2>1
  <2>3. h \in held /\ h.chosen /\ HeldOK(w, held) /\ ~IsHabit(w, c) /\ TypeOK' /\ w' = w
    BY <1>2, <1>11, <1>15, <2>1 DEF Chosen, Resplit
  <2>4. c \in Contents
    BY <2>3, PieceFacts DEF HeldOK
  <2>5. /\ HeldOK(w, rest \cup {p})
        /\ Splittable(w, c) \/ Left(w, rest \cup {p}, c) <= 0
    BY <1>1, <2>2, <2>3, ResplitKeepsTheRules DEF Chosen
  <2>6. rest \cup {p} \in SUBSET Piece
    BY <2>5 DEF HeldOK
  <2> DEFINE moves == solve.moves + 1
             next == rest \cup {p}
  <2>7. moves \in Nat /\ moves > 0
    BY DEF SolveTypeOK
  <2>8. solve' = [solve EXCEPT !.phase = "repack", !.packing = c, !.held = next, !.moves = moves]
    BY <2>2
  <2> HIDE DEF w, c, rest, moves, next
  <2>9. /\ SolveTypeOK'
        /\ solve'.phase = "repack" /\ solve'.packing = c /\ solve'.held = next /\ solve'.moves = moves
    BY <2>4, <2>6, <2>7, <2>8 DEF SolveTypeOK, next
  <2>10. RulesInv' /\ RepackInv' /\ GaveUpInv'
    BY <2>3, <2>4, <2>5, <2>7, <2>9 DEF RulesInv, RepackInv, GaveUpInv, Solving, w, next
  <2> QED BY <2>3, <2>9, <2>10
<1>16. CASE Repack
  <2> DEFINE c == solve.packing
  <2>1. PICK p \in Pieces(w, held, c) : solve' = [solve EXCEPT !.held = @ \cup {p}]
    BY <1>16 DEF Repack
  <2>2. /\ Solving("repack") /\ HeldOK(w, held) /\ TypeOK' /\ w' = w
        /\ c \in Contents /\ ~IsHabit(w, c) /\ solve.moves > 0
        /\ Splittable(w, c) \/ Left(w, held, c) <= 0
    BY <1>2, <1>16 DEF Repack, RulesInv, RepackInv, Solving
  <2>3. Splittable(w, c)
    <3>1. Left(w, held, c) > 0
      BY <2>1 DEF Pieces
    <3>2. Left(w, held, c) \in Int
      BY <1>1, <2>2, LeftType DEF HeldOK
    <3> QED BY <2>2, <3>1, <3>2
  <2>4. HeldOK(w, held \cup {p})
    BY <1>1, <2>1, <2>2, <2>3, PackedKeepsTheRules
  <2>5. held \cup {p} \in SUBSET Piece
    BY <2>4 DEF HeldOK
  <2> HIDE DEF w
  <2>6. SolveTypeOK'
    BY <2>1, <2>5 DEF SolveTypeOK
  <2>7. /\ solve'.phase = "repack" /\ solve'.packing = c /\ solve'.held = held \cup {p}
        /\ solve'.moves = solve.moves
    BY <2>1, <2>2 DEF SolveTypeOK, Solving
  <2>8. RulesInv' /\ RepackInv' /\ GaveUpInv'
    BY <2>2, <2>3, <2>4, <2>7 DEF RulesInv, RepackInv, GaveUpInv, Solving, w
  <2> QED BY <2>2, <2>6, <2>8
<1>17. CASE Repacked
  <2>1. /\ Solving("repack") /\ HeldOK(w, held) /\ TypeOK' /\ w' = w /\ solve.moves > 0
        /\ solve' = [solve EXCEPT !.phase = "improve", !.packing = NULL]
    BY <1>2, <1>17 DEF Repacked, RulesInv, RepackInv, Solving
  <2> HIDE DEF w
  <2>2. SolveTypeOK'
    BY <2>1 DEF SolveTypeOK
  <2>3. solve'.phase = "improve" /\ solve'.held = held /\ solve'.moves = solve.moves /\ solve'.moves # 0
    BY <2>1 DEF SolveTypeOK
  <2>4. RulesInv' /\ RepackInv' /\ GaveUpInv'
    BY <2>1, <2>3 DEF RulesInv, RepackInv, GaveUpInv, Solving, w
  <2> QED BY <2>1, <2>2, <2>4
<1>18. CASE Finish
  <2>1. /\ plan' = [b \in Blocks |->
                      IF \E h \in held : h.block = b THEN (CHOOSE h \in held : h.block = b).at ELSE NULL]
        /\ solve' = IdleSolve /\ UNCHANGED <<week, now, pins, outcomes, edits>>
    BY <1>18 DEF Finish
  <2>2. \A h \in held : h.at \in OfTheWeek
    BY DEF SolveTypeOK, Piece
  <2>3. plan' \in [Blocks -> OfTheWeek \cup {NULL}]
    BY <2>1, <2>2
  <2>4. TypeOK'
    BY <2>1, <2>3 DEF TypeOK
  <2> QED BY <1>7, <2>1, <2>4
<1> QED
  BY <1>3, <1>4, <1>5, <1>6, <1>8, <1>9, <1>12, <1>13, <1>14, <1>15, <1>16, <1>17, <1>18
     DEF WeekNext, SolveStep

THEOREM WeekInvariant == WeekSpec => []WeekInv
<1>1. WeekInit => WeekInv
  BY WeekInvInit
<1>2. WeekInv /\ [WeekNext]_solveVars => WeekInv'
  BY WeekInvNext
<1> QED BY <1>1, <1>2, PTL DEF WeekSpec

-----------------------------------------------------------------------------
(* What the runs check, for any declarations, edits and number of solves. *)

(* The week and what is kept of it keep their types through edits, time and solves: a block   *)
(* pinned or planned starts in the week, so the next solve assembles a week it can read.      *)
THEOREM WeekIsTyped == WeekSpec => []TypeOK
<1>1. WeekInv => TypeOK
  BY DEF WeekInv
<1> QED BY <1>1, WeekInvariant, PTL

(* Every figure of the week is the slots it is for, written the one canonical way, at every    *)
(* step: its windows, its blocks, what is free and what the operations make of them            *)
(* (intervals.py).                                                                             *)
THEOREM FiguresAreTheirMinutes == WeekSpec => []IntervalsAreTheirMinutes
<1>1. TypeOK => IntervalsAreTheirMinutes
  BY TheAlgebraIsThatOfTheMinutes
<1> QED BY <1>1, WeekIsTyped, PTL

(* No gap is reported on a week that can still be held: whenever the probe names a floor or a  *)
(* deadline as short, there is no way to give out the free slots that meets every floor and    *)
(* finishes every task before its deadline (probe.py, "the one direction this arithmetic may   *)
(* not take"), for any declarations and at any point of any sequence of edits and solves.      *)
THEOREM ProbeIsSound == WeekSpec => []ProbeNeverRefusesAWeekThatHolds
<1>1. TypeOK => ProbeNeverRefusesAWeekThatHolds
  BY TheProbeIsSound
<1> QED BY <1>1, WeekIsTyped, PTL

(* Whatever is chosen and however it is moved after, the rules it was admitted by still hold  *)
(* of all that is held at every step of the search (allocation.py, moves.py).                 *)
THEOREM SearchKeepsTheRules == WeekSpec => []ChoicesKeepTheRules
<1>1. WeekInv => ChoicesKeepTheRules
  BY DEF WeekInv, RulesInv, HeldOK, ChoicesKeepTheRules
<1> QED BY <1>1, WeekInvariant, PTL

(* No move takes what the week holds: every pinned and every begun block is where it is held  *)
(* until the plan is written (moves.py).                                                      *)
THEOREM SearchKeepsWhatIsHeld == WeekSpec => []HeldStaysHeld
<1>1. WeekInv => HeldStaysHeld
  BY DEF WeekInv, RulesInv, HeldOK, HeldStaysHeld
<1> QED BY <1>1, WeekInvariant, PTL

(* What the construction leaves short is named, unless no minute was left to offer it         *)
(* (verdicts.py): a content is given up for no other reason.                                  *)
THEOREM ShortTasksAreNamed == WeekSpec => []VerdictNamesWhatIsLeft
<1>1. WeekInv => VerdictNamesWhatIsLeft
  BY DEF WeekInv, GaveUpInv, VerdictNamesWhatIsLeft, PackingFailures, Candidates
<1> QED BY <1>1, WeekInvariant, PTL

-----------------------------------------------------------------------------
(* What one step does to the verdict. *)

LEMMA OnlyTimeMovesNow ==
    ASSUME WeekNext, now' # now
    PROVE  now' = now + 1 /\ UNCHANGED <<week, plan, pins, outcomes>>
BY DEF WeekNext, SolveStep, WeekStep, Next, StartSolve, Fill, Raise, Filled, Relocate, Swap, Resize,
       Resplit, Repack, Repacked, Finish, Improved, Hold, Reject, Release, Record, TimePasses, vars

LEMMA OnlyARecordIsOfOneBlock ==
    ASSUME WeekNext, TypeOK, NEW b \in Blocks, outcomes'[b] # outcomes[b]
    PROVE  /\ UNCHANGED <<week, now, plan, pins>>
           /\ \A d \in Blocks \ {b} : outcomes'[d] = outcomes[d]
<1>1. outcomes' # outcomes
  OBVIOUS
<1>2. \E x \in Blocks : Record(x)
  BY <1>1 DEF WeekNext, SolveStep, WeekStep, Next, StartSolve, Fill, Raise, Filled, Relocate, Swap,
       Resize, Resplit, Repack, Repacked, Finish, Improved, Hold, Reject, Release, TimePasses, vars
<1>3. PICK x \in Blocks : Record(x)
  BY <1>2
<1>4. PICK outcome \in Outcomes : outcomes' = [outcomes EXCEPT ![x] = outcome]
  BY <1>3 DEF Record
<1>5. x = b /\ \A d \in Blocks \ {b} : outcomes'[d] = outcomes[d]
  BY <1>4 DEF TypeOK
<1> QED BY <1>3, <1>5 DEF Record

LEMMA OnlyAnEditIsOfOnePin ==
    ASSUME WeekNext, TypeOK, NEW b \in Blocks, pins'[b] # pins[b]
    PROVE  /\ UNCHANGED <<week, now, plan, outcomes>>
           /\ \A d \in Blocks \ {b} : pins'[d] = pins[d]
<1>1. pins' # pins
  OBVIOUS
<1>2. \E x \in Blocks : Hold(x) \/ Reject(x) \/ Release(x)
  BY <1>1 DEF WeekNext, SolveStep, WeekStep, Next, StartSolve, Fill, Raise, Filled, Relocate, Swap,
       Resize, Resplit, Repack, Repacked, Finish, Improved, Record, TimePasses, vars
<1>3. PICK x \in Blocks : Hold(x) \/ Reject(x) \/ Release(x)
  BY <1>2
<1>4. UNCHANGED <<week, now, plan, outcomes>>
  BY <1>3 DEF Hold, Reject, Release
<1>5. \E at : pins' = [pins EXCEPT ![x] = at]
  <2>1. CASE Hold(x)
    <3>1. PICK from \in Slots : pins' = [pins EXCEPT ![x] = Span(from, from + Duration(plan[x]))]
      BY <2>1 DEF Hold
    <3> QED BY <3>1
  <2>2. CASE Reject(x)
    BY <2>2 DEF Reject
  <2>3. CASE Release(x)
    BY <2>3 DEF Release
  <2> QED BY <1>3, <2>1, <2>2, <2>3
<1>6. PICK at : pins' = [pins EXCEPT ![x] = at]
  BY <1>5
<1>7. x = b /\ \A d \in Blocks \ {b} : pins'[d] = pins[d]
  BY <1>6 DEF TypeOK
<1> QED BY <1>4, <1>7

LEMMA NothingReportedAhead ==
    ASSUME TypeOK, ~ReportsAhead, NEW b \in Blocks, outcomes[b].state \in {"partial", "moved"},
           NEW t \in CoveredBy(Attributed(Assembly, b))
    PROVE  t < now
<1> DEFINE x == Attributed(Assembly, b)
<1>1. x \in SUBSET Interval /\ now \in Nat
  BY AttributedIntervals, WeekOfAnAssembly
<1>2. After(SetOf(x), now) = <<>>
  BY DEF ReportsAhead
<1>3. Form(SetOf(x), CoveredBy(x))
  BY <1>1, FormOfASet
<1>4. t \in CoveredBy(x) /\ CoveredBy(x) \in SUBSET Slots
  BY DEF CoveredBy
<1> HIDE DEF x
<1>5. Form(After(SetOf(x), now), {u \in CoveredBy(x) : u >= now})
  BY <1>1, <1>3, FormOfAfter
<1>6. {u \in CoveredBy(x) : u >= now} = {}
  BY <1>2, <1>5, NothingIsCanonical DEF Form
<1>7. t \in Nat
  BY <1>4, SlotBound DEF Slots
<1> QED BY <1>1, <1>4, <1>6, <1>7

(* Where one Area alone wants anything and has a content to give the time to, the probe's      *)
(* totals are exact: what it does not refuse can be given out, hour by hour, each deadline's   *)
(* work before it (probe.py, the walk's accumulation), and the floor from what is over.        *)
THEOREM OneAreaIsExactlyRead == WeekSpec => []OneAreaIsReadExactly
<1>1. ASSUME TypeOK, ~ReportsAhead, ~Refuses(VerdictOf(Assembly)),
             NEW a \in Areas, NEW c0 \in Contents, AreaOf[c0] = a, \A b \in Areas : Wants(b) => b = a,
             \A b \in Areas : week.scoped[b] = {}
      PROVE  Holds(Assembly)
  <2>1. Assembly.week = week /\ Assembly.now = now /\ Assembly.outcomes = outcomes
    BY DEF Assembly
  <2>2. NotAhead(Assembly)
    BY <1>1, <2>1, NothingReportedAhead DEF NotAhead
  <2>3. \A b \in Areas \ {a} : week.floor[b] = 0
    BY <1>1, WeekDeclares DEF Wants
  <2>4. \A c \in Contents : week.estimate[c] > 0 => AreaOf[c] = a
    BY <1>1, WeekDeclares DEF Wants
  <2>5. Alone(Assembly, a)
    BY <1>1, <2>1, <2>3, <2>4 DEF Alone
  <2>6. ReadAs(Assembly)
    BY <1>1, TheAssemblyIsRead
  <2> QED BY <1>1, <2>2, <2>5, <2>6, OneAreaIsExact
<1>2. TypeOK => OneAreaIsReadExactly
  BY <1>1 DEF OneAreaIsReadExactly
<1> QED BY <1>2, WeekIsTyped, PTL

LEMMA PlacesOutliveAnHour ==
    ASSUME TypeOK, now' = now + 1, UNCHANGED <<week, plan, pins, outcomes>>, ~APinLapses,
           NEW b \in Blocks
    PROVE  PlacedAt(Assembly', b) = PlacedAt(Assembly, b)
<1>1. now \in Nat /\ (pins[b] = NULL \/ pins[b].start \in Nat)
  BY IntervalFacts, WeekOfAnAssembly DEF TypeOK, OfTheWeek
<1>2. pins[b] # NULL /\ pins[b].start = now + 1 => pins[b] = plan[b]
  BY DEF APinLapses
<1> QED BY <1>1, <1>2 DEF PlacedAt, Pinned, Assembly

(* A week proved impossible stays so as time passes and nothing is done: an hour that goes by  *)
(* takes free time with it and gives no Area and no task a minute it did not already count     *)
(* (probe.py, "not doing the work improved the verdict").                                      *)
THEOREM WaitingDoesNotHelp == WeekSpec => WaitingNeverHelps
<1> DEFINE waits == now' # now /\ ~ReportsAhead /\ ~APinLapses /\ Refuses(VerdictOf(Assembly))
<1>1. ASSUME TypeOK, TypeOK', (TypeOK => ReadAs(Assembly))', WeekNext, waits
      PROVE  Refuses(VerdictOf(Assembly'))
  <2> DEFINE w == Assembly  v == Assembly'
  <2>1. now' = now + 1 /\ UNCHANGED <<week, plan, pins, outcomes>>
    BY <1>1, OnlyTimeMovesNow
  <2>2. ReadAs(w) /\ ReadAs(v)
    BY <1>1, TheAssemblyIsRead
  <2>3. v.week = w.week /\ v.outcomes = w.outcomes /\ v.now = w.now + 1
    BY <2>1 DEF Assembly
  <2>4. \A b \in Blocks : PlacedAt(v, b) = PlacedAt(w, b)
    BY <1>1, <2>1, PlacesOutliveAnHour
  <2>5. NotAhead(w)
    <3>1. w.outcomes = outcomes /\ w.now = now
      BY DEF Assembly
    <3> QED BY <1>1, <3>1, NothingReportedAhead DEF NotAhead
  <2>6. Refuses(ProbeOf(ProbeInputs(w)))
    BY <1>1 DEF VerdictOf
  <2> HIDE DEF w, v
  <2>7. Harder(ProbeInputs(w), SlotsOf(Free(w)), ProbeInputs(v), SlotsOf(Free(v)))
    BY <2>2, <2>3, <2>4, <2>5, WaitingIsHarder
  <2>8. Refuses(ProbeOf(ProbeInputs(v)))
    BY <2>6, <2>7, HarderStaysRefused
  <2> QED BY <2>8 DEF VerdictOf, v
<1>2. TypeOK /\ TypeOK' /\ (TypeOK => ReadAs(Assembly))' /\ [WeekNext]_solveVars
        => [waits => Refuses(VerdictOf(Assembly'))]_vars
  BY <1>1 DEF solveVars, vars
<1> QED BY <1>2, WeekIsTyped, TheAssemblyIsRead, PTL DEF WeekSpec, WaitingNeverHelps

(* Pinning a block where it is, and recording that one was skipped, improve nothing the user   *)
(* is shown (reservations.py, "neither a pin nor a skip can improve the verdict"): the first   *)
(* leaves the verdict as it was, the second makes neither the floors' gap, nor an Area's, nor  *)
(* the first deadline's smaller, and never takes a refusal back.                               *)
THEOREM NeitherHelps == WeekSpec => NeitherAPinNorASkipHelps
<1> DEFINE skipped == \E b \in Blocks : Skips(b)
           pinned == \E b \in Blocks : PinsInPlace(b)
           holds == /\ skipped => NoSmaller(VerdictOf(Assembly), VerdictOf(Assembly'))
                    /\ pinned => VerdictOf(Assembly') = VerdictOf(Assembly)
<1>1. ASSUME TypeOK, TypeOK', (TypeOK => ReadAs(Assembly))', WeekNext, skipped
      PROVE  NoSmaller(VerdictOf(Assembly), VerdictOf(Assembly'))
  <2> DEFINE w == Assembly  v == Assembly'
  <2>1. PICK b \in Blocks : Skips(b)
    BY <1>1
  <2>2. outcomes'[b] # outcomes[b] /\ outcomes'[b].state = "skipped"
    BY <2>1 DEF Skips
  <2>3. /\ UNCHANGED <<week, now, plan, pins>>
        /\ \A d \in Blocks \ {b} : outcomes'[d] = outcomes[d]
    BY <1>1, <2>2, OnlyARecordIsOfOneBlock
  <2>4. ReadAs(w) /\ ReadAs(v)
    BY <1>1, TheAssemblyIsRead
  <2>5. /\ v.week = w.week /\ v.now = w.now /\ v.plan = w.plan /\ v.pins = w.pins
        /\ w.outcomes = outcomes /\ v.outcomes = outcomes'
    BY <2>3 DEF Assembly
  <2> HIDE DEF w, v
  <2>6. \A d \in Blocks : PlacedAt(v, d) = PlacedAt(w, d)
    BY <2>5 DEF PlacedAt, Pinned
  <2>7. ASSUME NEW d \in Blocks PROVE Attributed(v, d) \in SUBSET Attributed(w, d)
    <3>1. CASE d = b
      <4>1. Attributed(v, d) = {}
        BY <2>2, <2>5, <3>1 DEF Attributed
      <4> QED BY <4>1
    <3>2. CASE d # b
      <4>1. v.outcomes[d] = w.outcomes[d]
        BY <2>3, <2>5, <3>2
      <4>2. Attributed(v, d) = Attributed(w, d)
        BY <2>6, <4>1 DEF Attributed
      <4> QED BY <4>2
    <3> QED BY <3>1, <3>2
  <2>8. Harder(ProbeInputs(w), SlotsOf(Free(w)), ProbeInputs(v), SlotsOf(Free(v)))
    BY <2>4, <2>5, <2>6, <2>7, LessDoneIsHarder
  <2>9. NoSmaller(ProbeOf(ProbeInputs(w)), ProbeOf(ProbeInputs(v)))
    BY <2>8, HarderIsNoSmaller
  <2> QED BY <2>9 DEF VerdictOf, w, v
<1>2. ASSUME TypeOK, WeekNext, pinned PROVE VerdictOf(Assembly') = VerdictOf(Assembly)
  <2> DEFINE w == Assembly  v == Assembly'
  <2>1. PICK b \in Blocks : PinsInPlace(b)
    BY <1>2
  <2>2. pins'[b] # pins[b] /\ pins'[b] = PlacedAt(w, b)
    BY <2>1 DEF PinsInPlace
  <2>3. /\ UNCHANGED <<week, now, plan, outcomes>>
        /\ \A d \in Blocks \ {b} : pins'[d] = pins[d]
    BY <1>2, <2>2, OnlyAnEditIsOfOnePin
  <2>4. /\ v.week = w.week /\ v.now = w.now /\ v.plan = w.plan /\ v.outcomes = w.outcomes
        /\ w.pins = pins /\ v.pins = pins'
    BY <2>3 DEF Assembly
  <2> HIDE DEF w, v
  <2>5. ASSUME NEW d \in Blocks PROVE PlacedAt(v, d) = PlacedAt(w, d)
    <3>1. CASE d = b
      BY <2>2, <2>4, <3>1 DEF PlacedAt, Pinned
    <3>2. CASE d # b
      BY <2>3, <2>4, <3>2 DEF PlacedAt, Pinned
    <3> QED BY <3>1, <3>2
  <2>6. VerdictOf(v) = VerdictOf(w)
    BY <2>4, <2>5, SamePlacesSameVerdict
  <2> QED BY <2>6 DEF w, v
<1>3. TypeOK /\ TypeOK' /\ (TypeOK => ReadAs(Assembly))' /\ [WeekNext]_solveVars => [holds]_vars
  BY <1>1, <1>2 DEF solveVars, vars
<1> QED BY <1>3, WeekIsTyped, TheAssemblyIsRead, PTL DEF WeekSpec, NeitherAPinNorASkipHelps

=============================================================================
