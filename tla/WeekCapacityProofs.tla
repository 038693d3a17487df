------------------------ MODULE WeekCapacityProofs --------------------------
(***************************************************************************)
(* Proofs about the interval algebra and the figures read with it, for any *)
(* week.  Each operation is shown to give the one canonical form of the    *)
(* slots it is for.  The probe over those figures refuses no week that     *)
(* holds, refuses a harder week whenever it refuses an easier one, and is  *)
(* exact where one Area alone wants time.  Inductions over the members of  *)
(* a set, and over the places of a sequence, are least counterexamples.    *)
(***************************************************************************)
EXTENDS WeekCapacity, FiniteSetTheorems, WellFoundedInduction, TLAPS

LEMMA LeastOfNaturals ==
    ASSUME NEW S \in SUBSET Nat, S # {}
    PROVE  \E n \in S : \A m \in S : n <= m
<1>1. PICK n \in S : \A m \in S : ~(<<m, n>> \in OpToRel(<, Nat))
  BY NatLessThanWellFounded, WFMin
<1>2. \A m \in S : ~(m < n)
  BY <1>1 DEF OpToRel
<1> QED BY <1>2

(* Without the library's induction theorem over finite sets. *)
LEMMA ImageIsFinite ==
    ASSUME NEW f, NEW S, IsFiniteSet(S), f = [x \in S |-> f[x]]
    PROVE  IsFiniteSet({f[x] : x \in S})
<1> DEFINE T == {f[x] : x \in S}
<1>1. f \in Surjection(S, T)
  BY DEF Surjection
<1> QED BY <1>1, FS_Surjection

LEMMA SlotsAreFinite == IsFiniteSet(Slots)
<1> DEFINE last == LastEnd - 1
<1>1. last \in Int
  BY SlotBound
<1> HIDE DEF last
<1>2. IsFiniteSet(0..last)
  BY <1>1, FS_Interval
<1> QED BY <1>2 DEF last, Slots

LEMMA SetsOfSlots ==
    ASSUME NEW S \in SUBSET Slots
    PROVE  IsFiniteSet(S) /\ Cardinality(S) \in Nat
BY SlotsAreFinite, FS_Subset, FS_CardinalityType

LEMMA IntervalBounds ==
    ASSUME NEW i \in Interval
    PROVE  /\ i.start \in Nat /\ i.end \in Nat /\ i.start < i.end /\ i.end <= LastEnd
           /\ i.start \in Slots /\ i.end \in 1..LastEnd /\ i = Span(i.start, i.end)
BY SlotBound DEF Interval, Slots, Span

LEMMA SpanIsAnInterval ==
    ASSUME NEW from \in Nat, NEW to \in Nat, from < to, to <= LastEnd
    PROVE  Span(from, to) \in Interval /\ Span(from, to).start = from /\ Span(from, to).end = to
BY SlotBound DEF Interval, Slots, Span

LEMMA SetsOfIntervals ==
    ASSUME NEW S \in SUBSET Interval
    PROVE  IsFiniteSet(S) /\ Cardinality(S) \in Nat
<1> DEFINE ends == 1..LastEnd
           pairs == Slots \X ends
           f == [p \in pairs |-> Span(p[1], p[2])]
<1>1. IsFiniteSet(ends)
  BY FS_Interval, SlotBound
<1>2. IsFiniteSet(pairs)
  <2> HIDE DEF ends
  <2> QED BY <1>1, SlotsAreFinite, FS_Product
<1>3. IsFiniteSet({f[p] : p \in pairs})
  <2>1. f = [p \in pairs |-> f[p]]
    OBVIOUS
  <2> HIDE DEF f, pairs
  <2> QED BY <1>2, <2>1, ImageIsFinite
<1>4. S \in SUBSET {f[p] : p \in pairs}
  <2> SUFFICES ASSUME NEW i \in S PROVE \E p \in pairs : i = f[p]
    OBVIOUS
  <2>1. <<i.start, i.end>> \in pairs /\ i = Span(i.start, i.end)
    BY IntervalBounds
  <2>2. i = f[<<i.start, i.end>>]
    BY <2>1
  <2> QED BY <2>1, <2>2
<1> QED BY <1>3, <1>4, FS_Subset, FS_CardinalityType

-----------------------------------------------------------------------------
(* Taking the intervals in order: the one taken last exists. *)

LEMMA LastOfIntervals ==
    ASSUME NEW S \in SUBSET Interval, S # {}
    PROVE  /\ LastOf(S) \in S
           /\ \A j \in S : j.start < LastOf(S).start
                             \/ (j.start = LastOf(S).start /\ j.end <= LastOf(S).end)
<1> DEFINE starts == {n \in Nat : \E i \in S : n = LastEnd - i.start}
<1>1. \A i \in S : i.start \in Nat /\ i.end \in Nat /\ i.start < i.end /\ i.end <= LastEnd
  BY IntervalBounds
<1>2. \A i \in S : LastEnd - i.start \in starts
  BY <1>1, SlotBound
<1>3. PICK n \in starts : \A m \in starts : n <= m
  <2>1. starts \in SUBSET Nat /\ starts # {}
    BY <1>2
  <2> QED BY <2>1, LeastOfNaturals
<1>4. PICK first \in S : n = LastEnd - first.start
  BY <1>3
<1>5. \A i \in S : i.start <= first.start
  BY <1>1, <1>2, <1>3, <1>4, SlotBound
<1> DEFINE late == {i \in S : i.start = first.start}
           ends == {k \in Nat : \E i \in late : k = LastEnd - i.end}
<1>6. \A i \in late : LastEnd - i.end \in ends
  BY <1>1, SlotBound
<1>7. PICK e \in ends : \A m \in ends : e <= m
  <2>1. ends \in SUBSET Nat /\ ends # {}
    BY <1>6
  <2> QED BY <2>1, LeastOfNaturals
<1>8. PICK last \in late : e = LastEnd - last.end
  BY <1>7
<1>9. \A i \in late : i.end <= last.end
  BY <1>1, <1>6, <1>7, <1>8, SlotBound
<1>10. \A j \in S : j.start < last.start \/ (j.start = last.start /\ j.end <= last.end)
  BY <1>1, <1>5, <1>8, <1>9
<1> QED BY <1>8, <1>10 DEF LastOf

(* The recursion over the subsets of a set of intervals exists. *)
UpTo(S, n) == {U \in SUBSET S : Cardinality(U) <= n}
MergesUpTo(S, f, n) ==
    f = [U \in UpTo(S, n) |-> IF U = {} THEN <<>> ELSE Joined(f[U \ {LastOf(U)}], LastOf(U))]

LEMMA WithoutTheLast ==
    ASSUME NEW U \in SUBSET Interval, U # {}
    PROVE  /\ U \ {LastOf(U)} \in SUBSET U /\ U = (U \ {LastOf(U)}) \cup {LastOf(U)}
           /\ Cardinality(U \ {LastOf(U)}) = Cardinality(U) - 1
           /\ Cardinality(U) \in Nat /\ Cardinality(U \ {LastOf(U)}) \in Nat
<1>1. LastOf(U) \in U
  BY LastOfIntervals
<1>2. IsFiniteSet(U) /\ Cardinality(U) \in Nat /\ Cardinality(U \ {LastOf(U)}) \in Nat
  BY SetsOfIntervals
<1> DEFINE last == LastOf(U)  rest == U \ {last}
<1> HIDE DEF last
<1>3. last \in U
  BY <1>1 DEF last
<1>4. Cardinality(rest) = Cardinality(U) - 1
  BY <1>2, <1>3, FS_RemoveElement
<1> QED BY <1>2, <1>3, <1>4 DEF last

LEMMA OneMergeMore ==
    ASSUME NEW S \in SUBSET Interval, NEW n \in Nat, NEW f, MergesUpTo(S, f, n)
    PROVE  \E h : MergesUpTo(S, h, n + 1)
<1> DEFINE m == n + 1
           h == [U \in UpTo(S, m) |->
                    IF U \in UpTo(S, n) THEN f[U] ELSE Joined(f[U \ {LastOf(U)}], LastOf(U))]
<1>1. m \in Nat /\ m = n + 1
  OBVIOUS
<1> HIDE DEF m
<1>2. ASSUME NEW U \in UpTo(S, m), U # {}
      PROVE  U \ {LastOf(U)} \in UpTo(S, n) /\ U \ {LastOf(U)} \in UpTo(S, m)
  BY <1>1, <1>2, WithoutTheLast DEF UpTo
<1>3. {} \in UpTo(S, n)
  BY FS_EmptySet DEF UpTo
<1>4. ASSUME NEW U \in UpTo(S, m)
      PROVE  h[U] = IF U = {} THEN <<>> ELSE Joined(h[U \ {LastOf(U)}], LastOf(U))
  <2>1. CASE U = {}
    <3>1. h[U] = f[U]
      BY <1>3, <2>1
    <3>2. f[U] = <<>>
      BY <1>3, <2>1 DEF MergesUpTo
    <3> QED BY <2>1, <3>1, <3>2
  <2>2. CASE U # {}
    <3> DEFINE rest == U \ {LastOf(U)}
    <3>1. rest \in UpTo(S, n) /\ rest \in UpTo(S, m)
      BY <1>2, <2>2
    <3> HIDE DEF rest
    <3>2. h[rest] = f[rest]
      BY <3>1
    <3>3. h[U] = Joined(f[rest], LastOf(U))
      <4>1. CASE U \in UpTo(S, n)
        <5>1. f[U] = Joined(f[rest], LastOf(U))
          BY <2>2, <4>1 DEF MergesUpTo, rest
        <5> QED BY <4>1, <5>1
      <4>2. CASE U \notin UpTo(S, n)
        BY <4>2 DEF rest
      <4> QED BY <4>1, <4>2
    <3> QED BY <2>2, <3>2, <3>3 DEF rest
  <2> QED BY <2>1, <2>2
<1>5. MergesUpTo(S, h, m)
  <2>1. h = [U \in UpTo(S, m) |-> h[U]]
    OBVIOUS
  <2> HIDE DEF h
  <2> QED BY <1>4, <2>1 DEF MergesUpTo
<1> QED BY <1>1, <1>5

LEMMA MergesExist ==
    ASSUME NEW S \in SUBSET Interval, NEW n \in Nat
    PROVE  \E f : MergesUpTo(S, f, n)
<1> DEFINE bad == {k \in Nat : ~\E f : MergesUpTo(S, f, k)}
<1> SUFFICES ASSUME bad # {} PROVE FALSE
  OBVIOUS
<1>1. PICK k \in bad : \A m \in bad : k <= m
  BY LeastOfNaturals
<1>2. CASE k = 0
  <2> DEFINE f == [U \in UpTo(S, 0) |-> <<>>]
  <2>1. \A U \in UpTo(S, 0) : U = {}
    BY SetsOfIntervals, FS_EmptySet DEF UpTo
  <2>2. MergesUpTo(S, f, 0)
    BY <2>1 DEF MergesUpTo
  <2> QED BY <1>1, <1>2, <2>2
<1>3. CASE k # 0
  <2>1. k - 1 \in Nat /\ k - 1 \notin bad /\ (k - 1) + 1 = k
    BY <1>1, <1>3
  <2> DEFINE j == k - 1
  <2> HIDE DEF j
  <2>2. PICK f : MergesUpTo(S, f, j)
    BY <2>1 DEF j
  <2>3. \E h : MergesUpTo(S, h, j + 1)
    BY <2>1, <2>2, OneMergeMore DEF j
  <2> QED BY <1>1, <2>1, <2>3 DEF j
<1> QED BY <1>2, <1>3

LEMMA MergesOfASet ==
    ASSUME NEW S \in SUBSET Interval
    PROVE  \E merged : /\ SetOf(S) = merged[S]
                       /\ merged[{}] = <<>>
                       /\ \A U \in SUBSET S : U # {} =>
                            merged[U] = Joined(merged[U \ {LastOf(U)}], LastOf(U))
<1> DEFINE G(g) == g = [U \in SUBSET S |->
                           IF U = {} THEN <<>> ELSE Joined(g[U \ {LastOf(U)}], LastOf(U))]
           merged == CHOOSE g : G(g)
<1>1. SetOf(S) = merged[S]
  BY DEF SetOf
<1>2. \E g : G(g)
  <2> DEFINE n == Cardinality(S)
  <2>1. n \in Nat /\ IsFiniteSet(S)
    BY SetsOfIntervals
  <2>2. UpTo(S, n) = SUBSET S
    <3>1. \A U \in SUBSET S : Cardinality(U) <= Cardinality(S)
      BY <2>1, FS_Subset
    <3> QED BY <3>1 DEF UpTo
  <2> HIDE DEF n
  <2>3. PICK f : MergesUpTo(S, f, n)
    BY <2>1, MergesExist
  <2>4. G(f)
    BY <2>2, <2>3 DEF MergesUpTo
  <2> QED BY <2>4
<1>3. G(merged)
  <2> HIDE DEF G
  <2> QED BY <1>2
<1> HIDE DEF merged
<1>4. merged[{}] = <<>>
  BY <1>3
<1>5. \A U \in SUBSET S : U # {} => merged[U] = Joined(merged[U \ {LastOf(U)}], LastOf(U))
  BY <1>3
<1> QED BY <1>1, <1>4, <1>5

-----------------------------------------------------------------------------
(* What a set is for: the slots its members cover. *)

CoveredBy(S) == {t \in Slots : \E m \in S : m.start <= t /\ t < m.end}

LEMMA SlotsOfPlaces ==
    ASSUME NEW a \in Seq(Interval)
    PROVE  /\ Len(a) \in Nat /\ \A k \in 1..Len(a) : a[k] \in Interval
           /\ Members(a) \in SUBSET Interval
           /\ \A m : m \in Members(a) <=> \E k \in 1..Len(a) : m = a[k]
           /\ SlotsOf(a) = CoveredBy(Members(a))
           /\ SlotsOf(a) = {t \in Slots : \E k \in 1..Len(a) : a[k].start <= t /\ t < a[k].end}
<1>1. Len(a) \in Nat /\ DOMAIN a = 1..Len(a) /\ \A k \in 1..Len(a) : a[k] \in Interval
  OBVIOUS
<1>2. \A m : m \in Members(a) <=> \E k \in 1..Len(a) : m = a[k]
  BY <1>1 DEF Members, ToSet
<1> QED BY <1>1, <1>2 DEF SlotsOf, CoveredBy

LEMMA NothingIsCanonical == <<>> \in Seq(Interval) /\ IsCanonical(<<>>) /\ SlotsOf(<<>>) = {}
<1>1. ASSUME NEW a \in Seq(Interval), Len(a) = 0
      PROVE  IsCanonical(a) /\ SlotsOf(a) = {}
  <2>1. \A k : k \notin 1..Len(a) /\ k \notin 1..(Len(a) - 1)
    BY <1>1
  <2>2. SlotsOf(a) = {}
    BY <2>1, SlotsOfPlaces
  <2> QED BY <2>1, <2>2 DEF IsCanonical
<1>2. <<>> \in Seq(Interval) /\ Len(<<>>) = 0
  OBVIOUS
<1> QED BY <1>1, <1>2

(* The walk so far: a canonical form of what it took, whose last member begins no later than *)
(* something taken.                                                                           *)
Merged(a, U) ==
    /\ a \in Seq(Interval) /\ IsCanonical(a) /\ SlotsOf(a) = CoveredBy(U)
    /\ a = <<>> => U = {}
    /\ a # <<>> => \E j \in U : a[Len(a)].start <= j.start

LEMMA AppendedMember ==
    ASSUME NEW a \in Seq(Interval), IsCanonical(a), NEW i \in Interval,
           a # <<>> => a[Len(a)].end < i.start
    PROVE  /\ Append(a, i) \in Seq(Interval) /\ IsCanonical(Append(a, i))
           /\ Append(a, i) # <<>> /\ Append(a, i)[Len(Append(a, i))] = i
           /\ SlotsOf(Append(a, i)) = SlotsOf(a) \cup CoveredBy({i})
<1> DEFINE n == Len(a)  b == Append(a, i)
<1>1. /\ n \in Nat /\ b \in Seq(Interval) /\ Len(b) = n + 1 /\ b[n + 1] = i
      /\ \A k \in 1..n : b[k] = a[k] /\ a[k] \in Interval
  OBVIOUS
<1>2. a # <<>> <=> n # 0
  OBVIOUS
<1>3. IsCanonical(b)
  <2> SUFFICES ASSUME NEW k \in 1..(Len(b) - 1) PROVE b[k].end < b[k + 1].start
    BY DEF IsCanonical
  <2>1. k \in 1..n /\ (k = n \/ (k \in 1..(n - 1) /\ k + 1 \in 1..n))
    BY <1>1
  <2>2. CASE k = n
    BY <1>1, <1>2, <2>1, <2>2
  <2>3. CASE k \in 1..(n - 1) /\ k + 1 \in 1..n
    <3>1. a[k].end < a[k + 1].start
      BY <2>3 DEF IsCanonical
    <3> QED BY <1>1, <2>1, <2>3, <3>1
  <2> QED BY <2>1, <2>2, <2>3
<1> HIDE DEF b, n
<1>4. \A t \in Slots : (\E k \in 1..Len(b) : b[k].start <= t /\ t < b[k].end)
                          <=> \/ \E k \in 1..n : a[k].start <= t /\ t < a[k].end
                              \/ i.start <= t /\ t < i.end
  BY <1>1
<1>5. SlotsOf(b) = SlotsOf(a) \cup CoveredBy({i})
  BY <1>1, <1>4, SlotsOfPlaces DEF CoveredBy, n
<1>6. b # <<>> /\ b[Len(b)] = i
  BY <1>1
<1> QED BY <1>1, <1>3, <1>5, <1>6 DEF b

LEMMA LengthenedMember ==
    ASSUME NEW a \in Seq(Interval), IsCanonical(a), a # <<>>, NEW i \in Interval,
           a[Len(a)].start <= i.start, i.start <= a[Len(a)].end
    PROVE  /\ Lengthened(a, i) \in Seq(Interval) /\ IsCanonical(Lengthened(a, i))
           /\ Lengthened(a, i) # <<>>
           /\ Lengthened(a, i)[Len(Lengthened(a, i))].start <= i.start
           /\ SlotsOf(Lengthened(a, i)) = SlotsOf(a) \cup CoveredBy({i})
<1> DEFINE n == Len(a)  b == Lengthened(a, i)  last == a[n]  longer == Larger(last.end, i.end)
<1>1. /\ n \in Nat \ {0} /\ \A k \in 1..n : a[k] \in Interval
      /\ last \in Interval
  OBVIOUS
<1>2. /\ last.start \in Nat /\ last.end \in Nat /\ i.start \in Nat /\ i.end \in Nat
      /\ last.start < last.end /\ i.start < i.end /\ last.end <= LastEnd /\ i.end <= LastEnd
      /\ last = Span(last.start, last.end)
  BY <1>1, IntervalBounds
<1>3. longer \in Nat /\ longer <= LastEnd /\ last.start < longer
      /\ \A t \in Nat : last.start <= t /\ t < longer
                          <=> (last.start <= t /\ t < last.end) \/ (i.start <= t /\ t < i.end)
  BY <1>2 DEF Larger
<1> HIDE DEF longer
<1>4. b = [a EXCEPT ![n] = Span(last.start, longer)]
  <2>1. b = [a EXCEPT ![n] = [last EXCEPT !.end = longer]]
    BY DEF Lengthened, longer
  <2>2. [last EXCEPT !.end = longer] = Span(last.start, longer)
    BY <1>2 DEF Span
  <2> QED BY <2>1, <2>2
<1> DEFINE new == Span(last.start, longer)
<1>5. new \in Interval /\ new.start = last.start /\ new.end = longer
  BY <1>2, <1>3, SpanIsAnInterval
<1> HIDE DEF new, b
<1>6. /\ b \in Seq(Interval) /\ Len(b) = n /\ b[n] = new
      /\ \A k \in 1..n : k # n => b[k] = a[k]
  BY <1>1, <1>4, <1>5 DEF new
<1>7. IsCanonical(b)
  <2> SUFFICES ASSUME NEW k \in 1..(n - 1) PROVE b[k].end < b[k + 1].start
    BY <1>6 DEF IsCanonical
  <2>1. a[k].end < a[k + 1].start
    BY DEF IsCanonical
  <2>2. b[k] = a[k] /\ b[k + 1].start = a[k + 1].start
    BY <1>1, <1>5, <1>6
  <2> QED BY <2>1, <2>2
<1>8. \A t \in Slots : (\E k \in 1..n : b[k].start <= t /\ t < b[k].end)
                          <=> \/ \E k \in 1..n : a[k].start <= t /\ t < a[k].end
                              \/ i.start <= t /\ t < i.end
  <2> SUFFICES ASSUME NEW t \in Slots
               PROVE  (\E k \in 1..n : b[k].start <= t /\ t < b[k].end)
                          <=> \/ \E k \in 1..n : a[k].start <= t /\ t < a[k].end
                              \/ i.start <= t /\ t < i.end
    OBVIOUS
  <2>1. t \in Nat /\ n \in 1..n
    BY <1>1 DEF Slots
  <2>2. b[n].start <= t /\ t < b[n].end
          <=> (a[n].start <= t /\ t < a[n].end) \/ (i.start <= t /\ t < i.end)
    BY <1>3, <1>5, <1>6, <2>1
  <2> HIDE DEF n
  <2> QED BY <1>6, <2>1, <2>2
<1> HIDE DEF n
<1>9. SlotsOf(b) = SlotsOf(a) \cup CoveredBy({i})
  BY <1>6, <1>8, SlotsOfPlaces DEF CoveredBy, n
<1>10. b # <<>> /\ b[Len(b)].start <= i.start
  BY <1>1, <1>5, <1>6 DEF n
<1> QED BY <1>6, <1>7, <1>9, <1>10 DEF b

LEMMA JoinedLast ==
    ASSUME NEW U \in SUBSET Interval, U # {}, NEW a, Merged(a, U \ {LastOf(U)})
    PROVE  Merged(Joined(a, LastOf(U)), U)
<1> DEFINE i == LastOf(U)  rest == U \ {i}
<1>1. i \in U /\ U = rest \cup {i} /\ \A j \in U : j.start \in Nat /\ j.start <= i.start
  BY LastOfIntervals, IntervalBounds
<1>2. a \in Seq(Interval) /\ IsCanonical(a) /\ SlotsOf(a) = CoveredBy(rest)
  BY DEF Merged
<1>3. CoveredBy(U) = CoveredBy(rest) \cup CoveredBy({i})
  <2> HIDE DEF i, rest
  <2> QED BY <1>1 DEF CoveredBy
<1>4. i \in Interval /\ i.start \in Nat
  BY <1>1, IntervalBounds
<1>5. CASE a = <<>> \/ i.start > Last(a).end
  <2> DEFINE b == Append(a, i)
  <2>1. Joined(a, i) = b
    BY <1>5 DEF Joined
  <2>2. a # <<>> => a[Len(a)].end < i.start
    <3> SUFFICES ASSUME a # <<>> PROVE a[Len(a)].end < i.start
      OBVIOUS
    <3>1. a[Len(a)] \in Interval
      BY <1>2
    <3>2. a[Len(a)].end \in Nat
      BY <3>1, IntervalBounds
    <3> QED BY <1>4, <1>5, <3>2 DEF Last
  <2> HIDE DEF i
  <2>3. /\ b \in Seq(Interval) /\ IsCanonical(b) /\ b # <<>> /\ b[Len(b)] = i
        /\ SlotsOf(b) = SlotsOf(a) \cup CoveredBy({i})
    BY <1>2, <1>4, <2>2, AppendedMember
  <2> HIDE DEF b, rest
  <2> QED BY <1>1, <1>2, <1>3, <1>4, <2>1, <2>3 DEF Merged, i
<1>6. CASE ~(a = <<>> \/ i.start > Last(a).end)
  <2> DEFINE b == Lengthened(a, i)
  <2>1. Joined(a, i) = b /\ a # <<>>
    BY <1>6 DEF Joined
  <2>2. a[Len(a)].start <= i.start /\ i.start <= a[Len(a)].end
    <3>1. a[Len(a)] \in Interval
      BY <1>2, <2>1
    <3>2. a[Len(a)].end \in Nat /\ a[Len(a)].start \in Nat
      BY <3>1, IntervalBounds
    <3>3. PICK j \in rest : a[Len(a)].start <= j.start
      BY <2>1 DEF Merged
    <3>4. j.start \in Nat /\ j.start <= i.start
      BY <1>1, <3>3
    <3> QED BY <1>4, <1>6, <3>2, <3>3, <3>4 DEF Last
  <2> HIDE DEF i
  <2>3. /\ b \in Seq(Interval) /\ IsCanonical(b) /\ b # <<>> /\ b[Len(b)].start <= i.start
        /\ SlotsOf(b) = SlotsOf(a) \cup CoveredBy({i})
    BY <1>2, <1>4, <2>1, <2>2, LengthenedMember
  <2> HIDE DEF b, rest
  <2> QED BY <1>1, <1>2, <1>3, <2>1, <2>3 DEF Merged, i
<1> QED BY <1>5, <1>6

(* A set of intervals is kept as the canonical form of the slots they cover. *)
LEMMA SetOfCovers ==
    ASSUME NEW S \in SUBSET Interval
    PROVE  SetOf(S) \in Seq(Interval) /\ IsCanonical(SetOf(S)) /\ SlotsOf(SetOf(S)) = CoveredBy(S)
<1>1. PICK merged : /\ SetOf(S) = merged[S]
                    /\ merged[{}] = <<>>
                    /\ \A U \in SUBSET S : U # {} =>
                         merged[U] = Joined(merged[U \ {LastOf(U)}], LastOf(U))
  BY MergesOfASet
<1> DEFINE bad == {n \in Nat : \E U \in SUBSET S : Cardinality(U) = n /\ ~Merged(merged[U], U)}
<1>2. bad = {}
  <2> SUFFICES ASSUME bad # {} PROVE FALSE
    OBVIOUS
  <2>1. PICK n \in bad : \A m \in bad : n <= m
    BY LeastOfNaturals
  <2>2. PICK U \in SUBSET S : Cardinality(U) = n /\ ~Merged(merged[U], U)
    BY <2>1
  <2>3. U # {}
    <3> SUFFICES ASSUME U = {} PROVE FALSE
      OBVIOUS
    <3>1. merged[U] = <<>>
      BY <1>1
    <3>2. CoveredBy({}) = {}
      BY DEF CoveredBy
    <3> QED BY <2>2, <3>1, <3>2, NothingIsCanonical DEF Merged
  <2> DEFINE rest == U \ {LastOf(U)}
  <2>4. rest \in SUBSET S /\ Cardinality(rest) = n - 1 /\ Cardinality(rest) \in Nat
    BY <2>2, <2>3, WithoutTheLast
  <2>5. Merged(merged[rest], rest)
    BY <2>1, <2>4
  <2>6. Merged(Joined(merged[rest], LastOf(U)), U)
    BY <2>3, <2>5, JoinedLast
  <2> QED BY <1>1, <2>2, <2>3, <2>6
<1>3. Merged(merged[S], S)
  BY <1>2, SetsOfIntervals
<1> QED BY <1>1, <1>3 DEF Merged

-----------------------------------------------------------------------------
(* The total of a canonical form counts its slots. *)

TotalsUpTo(a, g, n) == g = [k \in 0..n |-> IF k = 0 THEN 0 ELSE g[k - 1] + Duration(a[k])]

LEMMA OneTotalMore ==
    ASSUME NEW a, NEW n \in Nat, NEW g, TotalsUpTo(a, g, n)
    PROVE  \E h : TotalsUpTo(a, h, n + 1)
<1> DEFINE m == n + 1
           next == g[n] + Duration(a[m])
           h == [k \in 0..m |-> IF k = m THEN next ELSE g[k]]
<1>1. /\ m \in Nat /\ m = n + 1 /\ m # 0 /\ m - 1 = n /\ m - 1 # m
      /\ \A k \in 0..m : k # m => k \in 0..n
      /\ \A k \in 0..m : k # 0 => k - 1 \in 0..n /\ k - 1 # m /\ k - 1 \in 0..m
  OBVIOUS
<1> HIDE DEF m, next
<1>2. ASSUME NEW k \in 0..m
      PROVE  h[k] = IF k = 0 THEN 0 ELSE h[k - 1] + Duration(a[k])
  <2>1. CASE k = m
    <3>1. h[k] = next /\ h[k - 1] = g[n]
      BY <1>1, <2>1
    <3> QED BY <1>1, <2>1, <3>1 DEF next
  <2>2. CASE k # m
    <3>1. k \in 0..n /\ h[k] = g[k] /\ (k # 0 => h[k - 1] = g[k - 1])
      BY <1>1, <2>2
    <3>2. g[k] = IF k = 0 THEN 0 ELSE g[k - 1] + Duration(a[k])
      BY <3>1 DEF TotalsUpTo
    <3> QED BY <3>1, <3>2
  <2> QED BY <2>1, <2>2
<1>3. TotalsUpTo(a, h, m)
  <2>1. h = [k \in 0..m |-> h[k]]
    OBVIOUS
  <2> HIDE DEF h
  <2> QED BY <1>2, <2>1 DEF TotalsUpTo
<1> QED BY <1>3 DEF m

LEMMA TotalsExist ==
    ASSUME NEW a, NEW n \in Nat
    PROVE  \E g : TotalsUpTo(a, g, n)
<1> DEFINE bad == {k \in Nat : ~\E g : TotalsUpTo(a, g, k)}
<1> SUFFICES ASSUME bad # {} PROVE FALSE
  OBVIOUS
<1>1. PICK k \in bad : \A m \in bad : k <= m
  BY LeastOfNaturals
<1>2. CASE k = 0
  <2> DEFINE g == [j \in 0..0 |-> 0]
  <2>1. TotalsUpTo(a, g, 0)
    BY DEF TotalsUpTo
  <2> QED BY <1>1, <1>2, <2>1
<1>3. CASE k # 0
  <2> DEFINE j == k - 1
  <2>1. j \in Nat /\ j \notin bad /\ j + 1 = k
    BY <1>1, <1>3
  <2> HIDE DEF j
  <2>2. PICK g : TotalsUpTo(a, g, j)
    BY <2>1
  <2>3. \E h : TotalsUpTo(a, h, j + 1)
    BY <2>1, <2>2, OneTotalMore
  <2> QED BY <1>1, <2>1, <2>3
<1> QED BY <1>2, <1>3

LEMMA TotalsOfASet ==
    ASSUME NEW a, Len(a) \in Nat
    PROVE  \E total : /\ TotalMinutes(a) = total[Len(a)]
                      /\ total[0] = 0
                      /\ \A k \in 1..Len(a) : total[k] = total[k - 1] + Duration(a[k])
<1> DEFINE n == Len(a)
           total == CHOOSE g : TotalsUpTo(a, g, n)
<1>1. TotalMinutes(a) = total[n]
  BY DEF TotalMinutes, TotalsUpTo
<1>2. TotalsUpTo(a, total, n)
  <2>1. \E g : TotalsUpTo(a, g, n)
    BY TotalsExist
  <2> QED BY <2>1
<1> HIDE DEF total, n
<1>3. n \in Nat
  BY DEF n
<1>4. total[0] = 0 /\ \A k \in 1..n : total[k] = total[k - 1] + Duration(a[k])
  BY <1>2, <1>3 DEF TotalsUpTo
<1> QED BY <1>1, <1>4 DEF n

LEMMA SlotsOfAnInterval ==
    ASSUME NEW i \in Interval
    PROVE  /\ CoveredBy({i}) = i.start..(i.end - 1)
           /\ IsFiniteSet(CoveredBy({i}))
           /\ Cardinality(CoveredBy({i})) = Duration(i) /\ Duration(i) \in Nat \ {0}
<1> DEFINE from == i.start  last == i.end - 1
<1>1. from \in Nat /\ last \in Int /\ from <= last /\ last <= LastEnd - 1 /\ last - from + 1 = i.end - i.start
  BY IntervalBounds, SlotBound
<1>2. CoveredBy({i}) = from..last
  BY <1>1, IntervalBounds, SlotBound DEF CoveredBy, Slots
<1> HIDE DEF from, last
<1>3. IsFiniteSet(from..last) /\ Cardinality(from..last) = last - from + 1
  BY <1>1, FS_Interval
<1>4. last - from + 1 \in Nat \ {0}
  BY <1>1
<1> QED BY <1>1, <1>2, <1>3, <1>4 DEF Duration, from, last

LEMMA TotalCountsSlots ==
    ASSUME NEW a \in Seq(Interval), IsCanonical(a)
    PROVE  TotalMinutes(a) = Cardinality(SlotsOf(a))
<1> DEFINE n == Len(a)
           first == [k \in 0..n |-> {t \in Slots : \E j \in 1..k : a[j].start <= t /\ t < a[j].end}]
<1>1. n \in Nat /\ \A k \in 1..n : a[k] \in Interval
  BY SlotsOfPlaces
<1>2. PICK total : /\ TotalMinutes(a) = total[n] /\ total[0] = 0
                   /\ \A k \in 1..n : total[k] = total[k - 1] + Duration(a[k])
  BY <1>1, TotalsOfASet
<1> DEFINE Ends(k) == k = 0 \/ \A t \in first[k] : t < a[k].end
           bad == {k \in 0..n : ~(total[k] = Cardinality(first[k]) /\ Ends(k))}
<1>3. bad = {}
  <2> SUFFICES ASSUME bad # {} PROVE FALSE
    OBVIOUS
  <2>1. PICK k \in bad : \A m \in bad : k <= m
    <3>1. bad \in SUBSET Nat
      BY <1>1
    <3> HIDE DEF bad
    <3> QED BY <3>1, LeastOfNaturals
  <2>2. CASE k = 0
    <3>1. first[0] = {}
      BY <1>1
    <3> HIDE DEF first
    <3> QED BY <1>2, <2>1, <2>2, <3>1, FS_EmptySet
  <2>3. CASE k # 0
    <3> DEFINE j == k - 1  new == CoveredBy({a[k]})
    <3>1. j \in 0..n /\ j \notin bad /\ k \in 1..n /\ j \in Nat /\ k = j + 1
      <4>1. k \in 0..n
        OBVIOUS
      <4>2. j \in 0..n /\ k \in 1..n /\ j \in Nat /\ k = j + 1 /\ ~(k <= j)
        BY <1>1, <2>3, <4>1
      <4> HIDE DEF j, bad
      <4> QED BY <2>1, <4>2
    <3>2. total[j] = Cardinality(first[j]) /\ Ends(j)
      BY <3>1
    <3>3. first[k] = first[j] \cup new
      <4>1. \A i : i \in 1..k <=> i \in 1..j \/ i = k
        BY <3>1
      <4> HIDE DEF j
      <4> QED BY <3>1, <4>1 DEF CoveredBy
    <3>4. \A t \in first[j] : t < a[k].start /\ t < a[k].end
      <4> SUFFICES ASSUME NEW t \in first[j] PROVE t < a[k].start /\ t < a[k].end
        OBVIOUS
      <4>1. t \in Nat /\ j # 0
        BY <3>1 DEF Slots
      <4>2. t < a[j].end
        BY <3>2, <4>1
      <4>3. a[j].end < a[k].start
        BY <3>1, <4>1 DEF IsCanonical
      <4>4. a[j].end \in Nat /\ a[k].start \in Nat /\ a[k].end \in Nat /\ a[k].start < a[k].end
        BY <1>1, <3>1, <4>1, IntervalBounds
      <4> QED BY <4>1, <4>2, <4>3, <4>4
    <3>5. \A t \in new : a[k].start <= t /\ t < a[k].end /\ t \in Nat
      BY DEF CoveredBy, Slots
    <3>6. first[j] \cap new = {}
      <4> HIDE DEF first, new, j
      <4>1. a[k].start \in Nat
        BY <1>1, <3>1, IntervalBounds
      <4>2. first[j] \subseteq Nat
        BY <1>1, <3>1 DEF first, Slots
      <4> QED BY <3>4, <3>5, <4>1, <4>2
    <3>7. /\ IsFiniteSet(first[j]) /\ Cardinality(first[j]) \in Nat /\ IsFiniteSet(new)
          /\ Cardinality(new) = Duration(a[k]) /\ Duration(a[k]) \in Nat
      <4>1. first[j] \in SUBSET Slots
        BY <3>1
      <4>2. a[k] \in Interval
        BY <1>1, <3>1
      <4> HIDE DEF first, j
      <4> QED BY <4>1, <4>2, SetsOfSlots, SlotsOfAnInterval
    <3> HIDE DEF first, new
    <3>8. Cardinality(first[k]) = Cardinality(first[j]) + Duration(a[k])
      <4>1. Cardinality(first[j] \cup new)
              = Cardinality(first[j]) + Cardinality(new) - Cardinality(first[j] \cap new)
        BY <3>7, FS_Union
      <4>2. Cardinality(first[j] \cap new) = 0
        <5> HIDE DEF j
        <5> QED BY <3>6, FS_EmptySet
      <4> HIDE DEF j
      <4> QED BY <3>3, <3>7, <4>1, <4>2
    <3>9. total[k] = total[j] + Duration(a[k])
      BY <1>2, <3>1
    <3>10. Ends(k)
      BY <3>3, <3>4, <3>5
    <3> QED BY <2>1, <3>2, <3>8, <3>9, <3>10
  <2> QED BY <2>2, <2>3
<1>4. total[n] = Cardinality(first[n])
  <2>1. n \in 0..n
    BY <1>1
  <2> HIDE DEF first, n
  <2> QED BY <1>3, <2>1
<1>5. first[n] = SlotsOf(a)
  BY <1>1, SlotsOfPlaces
<1> HIDE DEF first
<1> QED BY <1>2, <1>4, <1>5

-----------------------------------------------------------------------------
(* What cuts leave of a member. *)

LEMMA EarlierMembersEndBefore ==
    ASSUME NEW a \in Seq(Interval), IsCanonical(a), NEW k \in 1..Len(a), NEW j \in 1..Len(a), j < k
    PROVE  a[j].end < a[k].start
<1> DEFINE n == Len(a)
           bad == {m \in Nat : m \in 1..n /\ j < m /\ ~(a[j].end < a[m].start)}
<1>1. n \in Nat /\ \A m \in 1..n : a[m].start \in Nat /\ a[m].end \in Nat /\ a[m].start < a[m].end
  BY SlotsOfPlaces, IntervalBounds
<1>2. ASSUME bad # {} PROVE FALSE
  <2>1. PICK m \in bad : \A p \in bad : m <= p
    BY <1>2, LeastOfNaturals
  <2> DEFINE p == m - 1
  <2>2. p \in 1..n /\ m \in 1..n /\ j < m /\ p \in 1..(n - 1) /\ p + 1 = m /\ (j = p \/ j < p)
    BY <1>1
  <2>3. a[p].end < a[m].start
    BY <2>2 DEF IsCanonical
  <2>4. CASE j = p
    BY <2>1, <2>3, <2>4
  <2>5. CASE j < p
    <3>1. p \notin bad /\ p \in Nat
      BY <2>1, <2>2
    <3>2. a[j].end < a[p].start
      BY <2>2, <2>5, <3>1
    <3> HIDE DEF p, n
    <3> QED BY <1>1, <2>1, <2>2, <2>3, <3>2
  <2> QED BY <2>2, <2>4, <2>5
<1>3. k \in Nat /\ k \in 1..n
  BY <1>1
<1> QED BY <1>2, <1>3

CutsUpTo(member, cuts, g, n) ==
    g = [k \in 0..n |-> IF k = 0 THEN [from |-> member.start, parts |-> {}]
                        ELSE Cut(member, g[k - 1], cuts[k])]

LEMMA OneCutMore ==
    ASSUME NEW member, NEW cuts, NEW n \in Nat, NEW g, CutsUpTo(member, cuts, g, n)
    PROVE  \E h : CutsUpTo(member, cuts, h, n + 1)
<1> DEFINE m == n + 1
           whole == [from |-> member.start, parts |-> {}]
           next == Cut(member, g[n], cuts[m])
           h == [k \in 0..m |-> IF k = m THEN next ELSE g[k]]
<1>1. /\ m \in Nat /\ m = n + 1 /\ m # 0 /\ m - 1 = n /\ m - 1 # m
      /\ \A k \in 0..m : k # m => k \in 0..n
      /\ \A k \in 0..m : k # 0 => k - 1 \in 0..n /\ k - 1 # m /\ k - 1 \in 0..m
  OBVIOUS
<1> HIDE DEF m, next, whole
<1>2. ASSUME NEW k \in 0..m
      PROVE  h[k] = IF k = 0 THEN whole ELSE Cut(member, h[k - 1], cuts[k])
  <2>1. CASE k = m
    <3>1. h[k] = next /\ h[k - 1] = g[n]
      BY <1>1, <2>1
    <3> QED BY <1>1, <2>1, <3>1 DEF next
  <2>2. CASE k # m
    <3>1. k \in 0..n /\ h[k] = g[k] /\ (k # 0 => h[k - 1] = g[k - 1])
      BY <1>1, <2>2
    <3>2. g[k] = IF k = 0 THEN whole ELSE Cut(member, g[k - 1], cuts[k])
      BY <3>1 DEF CutsUpTo, whole
    <3> QED BY <3>1, <3>2
  <2> QED BY <2>1, <2>2
<1>3. CutsUpTo(member, cuts, h, m)
  <2>1. h = [k \in 0..m |-> h[k]]
    OBVIOUS
  <2> HIDE DEF h
  <2> QED BY <1>2, <2>1 DEF CutsUpTo, whole
<1> QED BY <1>3 DEF m

LEMMA CutsExist ==
    ASSUME NEW member, NEW cuts, NEW n \in Nat
    PROVE  \E g : CutsUpTo(member, cuts, g, n)
<1> DEFINE bad == {k \in Nat : ~\E g : CutsUpTo(member, cuts, g, k)}
<1> SUFFICES ASSUME bad # {} PROVE FALSE
  OBVIOUS
<1>1. PICK k \in bad : \A m \in bad : k <= m
  BY LeastOfNaturals
<1>2. CASE k = 0
  <2> DEFINE g == [j \in 0..0 |-> [from |-> member.start, parts |-> {}]]
  <2>1. CutsUpTo(member, cuts, g, 0)
    BY DEF CutsUpTo
  <2> QED BY <1>1, <1>2, <2>1
<1>3. CASE k # 0
  <2> DEFINE j == k - 1
  <2>1. j \in Nat /\ j \notin bad /\ j + 1 = k
    BY <1>1, <1>3
  <2> HIDE DEF j
  <2>2. PICK g : CutsUpTo(member, cuts, g, j)
    BY <2>1
  <2>3. \E h : CutsUpTo(member, cuts, h, j + 1)
    BY <2>1, <2>2, OneCutMore
  <2> QED BY <1>1, <2>1, <2>3
<1> QED BY <1>2, <1>3

(* After k cuts: the parts cover what lies before `from` and in no cut, and no cut so far     *)
(* takes anything of the rest.                                                                *)
Takes(i, t) == i.start <= t /\ t < i.end
LeftAfter(member, cuts, k, left) ==
    /\ left.from \in Nat /\ left.parts \in SUBSET Interval /\ member.start <= left.from
    /\ left.from = member.start \/ \E j \in 1..k : left.from = cuts[j].end
    /\ \A t \in Slots :
        (\E m \in left.parts : Takes(m, t))
            <=> Takes(member, t) /\ t < left.from /\ \A j \in 1..k : ~Takes(cuts[j], t)
    /\ \A t \in Slots : left.from <= t /\ t < member.end => \A j \in 1..k : ~Takes(cuts[j], t)

LEMMA CutLeaves ==
    ASSUME NEW member \in Interval, NEW cuts \in Seq(Interval), IsCanonical(cuts),
           NEW j \in Nat, NEW k \in 1..Len(cuts), k = j + 1, NEW left, LeftAfter(member, cuts, j, left)
    PROVE  LeftAfter(member, cuts, k, Cut(member, left, cuts[k]))
<1> DEFINE c == cuts[k]  from == left.from
<1>1. /\ c \in Interval /\ c.start \in Nat /\ c.end \in Nat /\ c.start < c.end /\ c.end <= LastEnd
      /\ member.start \in Nat /\ member.end \in Nat /\ member.start < member.end
      /\ member.end <= LastEnd
  BY SlotsOfPlaces, IntervalBounds
<1>2. \A i : i \in 1..k <=> i \in 1..j \/ i = k
  OBVIOUS
<1>3. from \in Nat /\ member.start <= from /\ (from = member.start \/ from < c.start)
  <2>1. ASSUME NEW i \in 1..j, from = cuts[i].end PROVE from < c.start
    <3>1. i \in 1..Len(cuts) /\ i < k
      BY SlotsOfPlaces
    <3> QED BY <2>1, <3>1, EarlierMembersEndBefore
  <2> QED BY <2>1 DEF LeftAfter
<1>4. \A t \in Slots : t \in Nat
  BY DEF Slots
<1> HIDE DEF c
<1>5. CASE c.end <= from \/ c.start >= member.end
  <2>1. Cut(member, left, c) = left
    BY <1>5 DEF Cut
  <2>2. ASSUME NEW t \in Slots, Takes(member, t) \/ (from <= t /\ t < member.end)
        PROVE  ~Takes(c, t)
    BY <1>1, <1>3, <1>4, <1>5, <2>2 DEF Takes
  <2>3. \A t \in Slots : Takes(member, t) =>
            ((\A i \in 1..k : ~Takes(cuts[i], t)) <=> (\A i \in 1..j : ~Takes(cuts[i], t)))
    BY <1>2, <2>2 DEF c
  <2>4. \A t \in Slots : from <= t /\ t < member.end => \A i \in 1..k : ~Takes(cuts[i], t)
    BY <1>2, <2>2 DEF LeftAfter, c
  <2> QED BY <1>2, <2>1, <2>3, <2>4 DEF LeftAfter, c
<1>6. CASE ~(c.end <= from \/ c.start >= member.end)
  <2> DEFINE piece == {i \in {Span(from, c.start)} : i.start < i.end}
             new == [from |-> c.end, parts |-> left.parts \cup piece]
  <2>1. Cut(member, left, c) = new
    BY <1>6 DEF Cut
  <2>2. Span(from, c.start).start = from /\ Span(from, c.start).end = c.start
    BY DEF Span
  <2>3. piece \in SUBSET Interval
    <3>1. from < c.start => Span(from, c.start) \in Interval
      <4>1. c.start <= LastEnd
        BY <1>1, SlotBound
      <4> HIDE DEF from
      <4> QED BY <1>1, <1>3, <4>1, SpanIsAnInterval
    <3> QED BY <2>2, <3>1
  <2>4. \A t \in Slots : (\E m \in piece : Takes(m, t)) <=> from <= t /\ t < c.start
    <3>1. \A t \in Slots : Takes(Span(from, c.start), t) <=> from <= t /\ t < c.start
      BY <2>2 DEF Takes
    <3>2. \A t \in Slots : from <= t /\ t < c.start => from < c.start
      BY <1>1, <1>3, <1>4
    <3>3. from < c.start => Span(from, c.start) \in piece
      BY <2>2
    <3> QED BY <3>1, <3>2, <3>3
  <2> HIDE DEF piece
  <2>5. new.from = c.end /\ new.parts = left.parts \cup piece
    OBVIOUS
  <2>6. new.from \in Nat /\ new.parts \in SUBSET Interval /\ member.start <= new.from
    BY <1>1, <1>3, <1>6, <2>3, <2>5 DEF LeftAfter
  <2>7. \E i \in 1..k : new.from = cuts[i].end
    BY <1>2, <2>5 DEF c
  <2>8. ASSUME NEW t \in Slots
        PROVE  (\E m \in new.parts : Takes(m, t))
                  <=> Takes(member, t) /\ t < new.from /\ \A i \in 1..k : ~Takes(cuts[i], t)
    <3>1. (\E m \in new.parts : Takes(m, t))
             <=> (\E m \in left.parts : Takes(m, t)) \/ (from <= t /\ t < c.start)
      BY <2>4, <2>5
    <3>2. (\A i \in 1..k : ~Takes(cuts[i], t)) <=> (\A i \in 1..j : ~Takes(cuts[i], t)) /\ ~Takes(c, t)
      BY <1>2 DEF c
    <3>3. CASE t < from
      <4>1. Takes(member, t) => ~Takes(c, t) /\ t < c.end
        BY <1>1, <1>3, <1>4, <3>3 DEF Takes
      <4>2. ~(from <= t)
        BY <1>3, <1>4, <3>3
      <4> QED BY <2>5, <3>1, <3>2, <3>3, <4>1, <4>2 DEF LeftAfter
    <3>4. CASE ~(t < from)
      <4>1. from <= t
        BY <1>3, <1>4, <3>4
      <4>2. ~\E m \in left.parts : Takes(m, t)
        BY <3>4 DEF LeftAfter
      <4>3. Takes(member, t) => \A i \in 1..j : ~Takes(cuts[i], t)
        BY <4>1 DEF LeftAfter, Takes
      <4>4. t < c.start <=> Takes(member, t) /\ t < c.end /\ ~Takes(c, t)
        BY <1>1, <1>3, <1>4, <1>6, <4>1 DEF Takes
      <4> QED BY <2>5, <3>1, <3>2, <4>1, <4>2, <4>3, <4>4
    <3> QED BY <3>3, <3>4
  <2>9. ASSUME NEW t \in Slots, new.from <= t, t < member.end
        PROVE  \A i \in 1..k : ~Takes(cuts[i], t)
    <3>1. ~Takes(c, t) /\ from <= t
      BY <1>1, <1>3, <1>4, <1>6, <2>5, <2>9 DEF Takes
    <3>2. \A i \in 1..j : ~Takes(cuts[i], t)
      BY <2>9, <3>1 DEF LeftAfter
    <3> QED BY <1>2, <3>1, <3>2 DEF c
  <2> HIDE DEF new
  <2> QED BY <2>1, <2>6, <2>7, <2>8, <2>9 DEF LeftAfter, c
<1> QED BY <1>5, <1>6

LEMMA WithoutCovers ==
    ASSUME NEW member \in Interval, NEW cuts \in Seq(Interval), IsCanonical(cuts)
    PROVE  /\ Without(member, cuts) \in SUBSET Interval
           /\ CoveredBy(Without(member, cuts)) = CoveredBy({member}) \ SlotsOf(cuts)
<1> DEFINE n == Len(cuts)
           left == CHOOSE g : CutsUpTo(member, cuts, g, n)
           last == left[n]
           rest == {i \in {Span(last.from, member.end)} : i.start < i.end}
<1>1. Without(member, cuts) = last.parts \cup rest
  BY DEF Without, CutsUpTo
<1>2. n \in Nat /\ member.start \in Nat /\ member.end \in Nat /\ member.end <= LastEnd
  BY SlotsOfPlaces, IntervalBounds
<1>3. CutsUpTo(member, cuts, left, n)
  <2>1. \E g : CutsUpTo(member, cuts, g, n)
    BY <1>2, CutsExist
  <2> HIDE DEF n
  <2> QED BY <2>1
<1> HIDE DEF left
<1>4. LeftAfter(member, cuts, n, left[n])
  <2> DEFINE bad == {k \in 0..n : ~LeftAfter(member, cuts, k, left[k])}
  <2>1. ASSUME bad # {} PROVE FALSE
    <3>1. PICK k \in bad : \A m \in bad : k <= m
      <4>1. bad \in SUBSET Nat
        BY <1>2
      <4> HIDE DEF bad
      <4> QED BY <2>1, <4>1, LeastOfNaturals
    <3>2. k \in 0..n /\ ~LeftAfter(member, cuts, k, left[k])
      OBVIOUS
    <3>3. CASE k = 0
      <4>1. left[0] = [from |-> member.start, parts |-> {}]
        BY <3>2, <3>3, <1>3 DEF CutsUpTo
      <4>2. \A t \in Slots : ~(Takes(member, t) /\ t < member.start)
        BY <1>2 DEF Takes, Slots
      <4>3. \A i : i \notin 1..0
        OBVIOUS
      <4> QED BY <1>2, <3>2, <3>3, <4>1, <4>2, <4>3 DEF LeftAfter
    <3>4. CASE k # 0
      <4> DEFINE j == k - 1
      <4>1. j \in 0..n /\ j \in Nat /\ k \in 1..n /\ k = j + 1 /\ ~(k <= j)
        BY <1>2, <3>2, <3>4
      <4>2. left[k] = Cut(member, left[j], cuts[k])
        BY <1>3, <3>2, <3>4 DEF CutsUpTo
      <4> HIDE DEF j
      <4>3. LeftAfter(member, cuts, j, left[j])
        BY <3>1, <4>1
      <4>4. LeftAfter(member, cuts, k, Cut(member, left[j], cuts[k]))
        BY <4>1, <4>3, CutLeaves
      <4> QED BY <3>2, <4>2, <4>4
    <3> QED BY <3>3, <3>4
  <2>2. n \in 0..n
    BY <1>2
  <2> HIDE DEF n
  <2> QED BY <2>1, <2>2
<1> HIDE DEF last, n
<1>5. LeftAfter(member, cuts, n, last)
  BY <1>4 DEF last
<1>6. last.from \in Nat /\ last.parts \in SUBSET Interval /\ member.start <= last.from
  BY <1>5 DEF LeftAfter
<1>7. Span(last.from, member.end).start = last.from /\ Span(last.from, member.end).end = member.end
  BY DEF Span
<1>8. rest \in SUBSET Interval
  BY <1>2, <1>6, <1>7, SpanIsAnInterval
<1>9. ASSUME NEW t \in Slots
      PROVE  (\E m \in rest : Takes(m, t)) <=> last.from <= t /\ t < member.end
  <2>1. t \in Nat
    BY DEF Slots
  <2>2. Takes(Span(last.from, member.end), t) <=> last.from <= t /\ t < member.end
    BY <1>7 DEF Takes
  <2>3. last.from <= t /\ t < member.end => Span(last.from, member.end) \in rest
    BY <1>2, <1>6, <1>7, <2>1
  <2> QED BY <2>2, <2>3
<1> HIDE DEF rest
<1>10. ASSUME NEW t \in Slots
       PROVE  (\E m \in last.parts \cup rest : Takes(m, t))
                 <=> Takes(member, t) /\ ~\E i \in 1..n : Takes(cuts[i], t)
  <2>1. t \in Nat
    BY DEF Slots
  <2>2. t < last.from \/ last.from <= t
    BY <1>6, <2>1
  <2>3. last.from <= t /\ t < member.end => Takes(member, t) /\ ~\E i \in 1..n : Takes(cuts[i], t)
    BY <1>2, <1>5, <1>6, <2>1 DEF LeftAfter, Takes
  <2>4. Takes(member, t) => t < member.end
    BY DEF Takes
  <2> QED BY <1>5, <1>9, <2>2, <2>3, <2>4 DEF LeftAfter
<1>11. SlotsOf(cuts) = {t \in Slots : \E i \in 1..n : Takes(cuts[i], t)}
  BY SlotsOfPlaces DEF Takes, n
<1>12. CoveredBy(last.parts \cup rest) = CoveredBy({member}) \ SlotsOf(cuts)
  <2>1. CoveredBy({member}) = {t \in Slots : Takes(member, t)}
    BY DEF CoveredBy, Takes
  <2>2. CoveredBy(last.parts \cup rest) = {t \in Slots : \E m \in last.parts \cup rest : Takes(m, t)}
    BY DEF CoveredBy, Takes
  <2> QED BY <1>10, <1>11, <2>1, <2>2
<1> QED BY <1>1, <1>6, <1>8, <1>12

-----------------------------------------------------------------------------
(* Each operation of the algebra is the operation on the slots covered. *)

(* What is asked of each: a sequence of intervals that is the canonical form of these slots. *)
Form(a, slots) ==
    a \in Seq(Interval) /\ IsCanonical(a) /\ SlotsOf(a) = slots

LEMMA FormCovers ==
    ASSUME NEW a, NEW slots, Form(a, slots)
    PROVE  Covers(a, slots)
BY TotalCountsSlots DEF Form, Covers

LEMMA FormOfASet ==
    ASSUME NEW S \in SUBSET Interval
    PROVE  Form(SetOf(S), CoveredBy(S))
BY SetOfCovers DEF Form

LEMMA FormMembers ==
    ASSUME NEW a, NEW slots, Form(a, slots)
    PROVE  Members(a) \in SUBSET Interval /\ CoveredBy(Members(a)) = slots
BY SlotsOfPlaces DEF Form

LEMMA FormOfOne ==
    ASSUME NEW i \in Interval
    PROVE  Form(<<i>>, CoveredBy({i}))
<1>1. <<i>> \in Seq(Interval) /\ Len(<<i>>) = 1 /\ \A k \in 1..1 : <<i>>[k] = i
  OBVIOUS
<1>2. IsCanonical(<<i>>)
  BY <1>1 DEF IsCanonical
<1>3. Members(<<i>>) = {i}
  <2>1. DOMAIN <<i>> = 1..1 /\ 1..1 = {1}
    BY <1>1
  <2>2. Members(<<i>>) = {<<i>>[k] : k \in DOMAIN <<i>>}
    BY DEF Members, ToSet
  <2> QED BY <1>1, <2>1, <2>2
<1>4. SlotsOf(<<i>>) = CoveredBy({i})
  BY <1>1, <1>3, SlotsOfPlaces
<1> QED BY <1>1, <1>2, <1>4 DEF Form

LEMMA FormOfUnion ==
    ASSUME NEW a, NEW A, Form(a, A), NEW b, NEW B, Form(b, B)
    PROVE  Form(Union(a, b), A \cup B)
<1>1. Members(a) \cup Members(b) \in SUBSET Interval
  BY FormMembers
<1>2. CoveredBy(Members(a) \cup Members(b)) = A \cup B
  <2>1. CoveredBy(Members(a)) = A /\ CoveredBy(Members(b)) = B
    BY FormMembers
  <2>2. CoveredBy(Members(a) \cup Members(b)) = CoveredBy(Members(a)) \cup CoveredBy(Members(b))
    BY DEF CoveredBy
  <2> QED BY <2>1, <2>2
<1>3. Form(SetOf(Members(a) \cup Members(b)), CoveredBy(Members(a) \cup Members(b)))
  BY <1>1, FormOfASet
<1> QED BY <1>2, <1>3 DEF Union

LEMMA FormOfSubtract ==
    ASSUME NEW a, NEW A, Form(a, A), NEW b, NEW B, Form(b, B)
    PROVE  Form(Subtract(a, b), A \ B)
<1> DEFINE left == UNION {Without(m, b) : m \in Members(a)}
<1>1. b \in Seq(Interval) /\ IsCanonical(b) /\ SlotsOf(b) = B
  BY DEF Form
<1>2. Members(a) \in SUBSET Interval /\ CoveredBy(Members(a)) = A
  BY FormMembers
<1>3. \A m \in Members(a) : Without(m, b) \in SUBSET Interval
                              /\ CoveredBy(Without(m, b)) = CoveredBy({m}) \ B
  BY <1>1, <1>2, WithoutCovers
<1>4. left \in SUBSET Interval
  BY <1>3
<1>5. ASSUME NEW t PROVE t \in CoveredBy(left) <=> t \in A /\ t \notin B
  <2>1. t \in CoveredBy(left) <=> \E m \in Members(a) : t \in CoveredBy(Without(m, b))
    BY DEF CoveredBy
  <2>2. t \in A <=> \E m \in Members(a) : t \in CoveredBy({m})
    <3>1. t \in CoveredBy(Members(a)) <=> \E m \in Members(a) : t \in CoveredBy({m})
      BY DEF CoveredBy
    <3> QED BY <1>2, <3>1
  <2> HIDE DEF left
  <2> QED BY <1>3, <2>1, <2>2
<1>6. CoveredBy(left) = A \ B
  BY <1>5
<1>7. Form(SetOf(left), CoveredBy(left))
  BY <1>4, FormOfASet
<1> QED BY <1>6, <1>7 DEF Subtract

LEMMA ClippedCovers ==
    ASSUME NEW i \in Interval, NEW o \in Interval
    PROVE  /\ ClippedTo(i, o) \in SUBSET Interval
           /\ CoveredBy(ClippedTo(i, o)) = CoveredBy({i}) \cap CoveredBy({o})
<1> DEFINE from == Larger(i.start, o.start)  to == Smaller(i.end, o.end)
<1>1. /\ from \in Nat /\ to \in Nat /\ to <= LastEnd
      /\ \A t \in Nat : from <= t /\ t < to <=> (i.start <= t /\ t < i.end) /\ (o.start <= t /\ t < o.end)
  BY IntervalBounds DEF Larger, Smaller
<1>2. ClippedTo(i, o) = {c \in {Span(from, to)} : c.start < c.end}
  BY DEF ClippedTo
<1> HIDE DEF from, to
<1>3. Span(from, to).start = from /\ Span(from, to).end = to
  BY DEF Span
<1>4. from < to => Span(from, to) \in Interval
  BY <1>1, SpanIsAnInterval
<1>5. ClippedTo(i, o) \in SUBSET Interval
  BY <1>2, <1>3, <1>4
<1>6. ASSUME NEW t \in Slots
      PROVE  (\E c \in ClippedTo(i, o) : c.start <= t /\ t < c.end) <=> from <= t /\ t < to
  <2>1. t \in Nat
    BY DEF Slots
  <2>2. from <= t /\ t < to => Span(from, to) \in ClippedTo(i, o)
    BY <1>1, <1>2, <1>3, <2>1
  <2> QED BY <1>2, <1>3, <2>2
<1>7. \A t \in Slots : t \in Nat
  BY DEF Slots
<1> QED BY <1>1, <1>5, <1>6, <1>7 DEF CoveredBy

LEMMA FormOfIntersect ==
    ASSUME NEW a, NEW A, Form(a, A), NEW b, NEW B, Form(b, B)
    PROVE  Form(Intersect(a, b), A \cap B)
<1> DEFINE common == UNION {ClippedTo(m, o) : m \in Members(a), o \in Members(b)}
<1>1. /\ Members(a) \in SUBSET Interval /\ CoveredBy(Members(a)) = A
      /\ Members(b) \in SUBSET Interval /\ CoveredBy(Members(b)) = B
  BY FormMembers
<1>2. \A m \in Members(a), o \in Members(b) :
          /\ ClippedTo(m, o) \in SUBSET Interval
          /\ CoveredBy(ClippedTo(m, o)) = CoveredBy({m}) \cap CoveredBy({o})
  BY <1>1, ClippedCovers
<1>3. common \in SUBSET Interval
  <2>1. ASSUME NEW c \in common PROVE c \in Interval
    <3>1. PICK m \in Members(a), o \in Members(b) : c \in ClippedTo(m, o)
      OBVIOUS
    <3> HIDE DEF common
    <3>2. ClippedTo(m, o) \in SUBSET Interval
      BY <1>2
    <3> QED BY <3>1, <3>2
  <2> HIDE DEF common
  <2> QED BY <2>1
<1>4. ASSUME NEW t PROVE t \in CoveredBy(common) <=> t \in A /\ t \in B
  <2>1. t \in CoveredBy(common)
          <=> \E m \in Members(a), o \in Members(b) : t \in CoveredBy(ClippedTo(m, o))
    BY DEF CoveredBy
  <2>2. t \in A <=> \E m \in Members(a) : t \in CoveredBy({m})
    <3>1. t \in CoveredBy(Members(a)) <=> \E m \in Members(a) : t \in CoveredBy({m})
      BY DEF CoveredBy
    <3> QED BY <1>1, <3>1
  <2>3. t \in B <=> \E o \in Members(b) : t \in CoveredBy({o})
    <3>1. t \in CoveredBy(Members(b)) <=> \E o \in Members(b) : t \in CoveredBy({o})
      BY DEF CoveredBy
    <3> QED BY <1>1, <3>1
  <2> HIDE DEF common
  <2> QED BY <1>2, <2>1, <2>2, <2>3
<1>5. CoveredBy(common) = A \cap B
  BY <1>4
<1>6. Form(SetOf(common), CoveredBy(common))
  BY <1>3, FormOfASet
<1>7. Intersect(a, b) = SetOf(common)
  BY DEF Intersect
<1> HIDE DEF common
<1> QED BY <1>5, <1>6, <1>7

LEMMA FormOfBefore ==
    ASSUME NEW a, NEW A, Form(a, A), NEW moment \in Nat
    PROVE  Form(Before(a, moment), {t \in A : t < moment})
<1> DEFINE early == {x \in Members(a) : x.start < moment}
           kept == {Span(m.start, Smaller(m.end, moment)) : m \in early}
<1>1. Members(a) \in SUBSET Interval /\ CoveredBy(Members(a)) = A
  BY FormMembers
<1>2. ASSUME NEW m \in early
      PROVE  /\ Span(m.start, Smaller(m.end, moment)) \in Interval
             /\ \A t \in Slots : Takes(Span(m.start, Smaller(m.end, moment)), t)
                                   <=> Takes(m, t) /\ t < moment
  <2> DEFINE to == Smaller(m.end, moment)  from == m.start
  <2>1. /\ from \in Nat /\ to \in Nat /\ from < to /\ to <= LastEnd
        /\ \A t \in Nat : t < to <=> t < m.end /\ t < moment
    <3>1. /\ m.start \in Nat /\ m.end \in Nat /\ m.start < m.end /\ m.end <= LastEnd
          /\ m.start < moment /\ LastEnd \in Nat
      BY <1>1, IntervalBounds, SlotBound
    <3> HIDE DEF early
    <3> QED BY <3>1 DEF Smaller
  <2> HIDE DEF to, from
  <2>2. Span(from, to) \in Interval /\ Span(from, to).start = from /\ Span(from, to).end = to
    BY <2>1, SpanIsAnInterval
  <2>3. \A t \in Slots : Takes(Span(from, to), t) <=> Takes(m, t) /\ t < moment
    <3>1. \A t \in Slots : t \in Nat
      BY DEF Slots
    <3> QED BY <2>1, <2>2, <3>1 DEF Takes, from
  <2> QED BY <2>2, <2>3 DEF to, from
<1>3. kept \in SUBSET Interval
  BY <1>2
<1>4. ASSUME NEW t \in Slots
      PROVE  (\E k \in kept : Takes(k, t)) <=> (\E m \in Members(a) : Takes(m, t)) /\ t < moment
  <2>1. (\E k \in kept : Takes(k, t)) <=> \E m \in early : Takes(m, t) /\ t < moment
    BY <1>2
  <2>2. \A m \in Members(a) : Takes(m, t) /\ t < moment => m \in early
    <3>1. t \in Nat
      BY DEF Slots
    <3>2. \A m \in Members(a) : m.start \in Nat
      BY <1>1, IntervalBounds
    <3> QED BY <3>1, <3>2 DEF Takes
  <2> HIDE DEF kept
  <2> QED BY <2>1, <2>2
<1>5. CoveredBy(kept) = {t \in A : t < moment}
  <2> HIDE DEF kept
  <2> QED BY <1>1, <1>4 DEF CoveredBy, Takes
<1>6. Form(SetOf(kept), CoveredBy(kept))
  BY <1>3, FormOfASet
<1> QED BY <1>5, <1>6 DEF Before

LEMMA FormOfAfter ==
    ASSUME NEW a, NEW A, Form(a, A), NEW moment \in Nat
    PROVE  Form(After(a, moment), {t \in A : t >= moment})
<1> DEFINE late == {x \in Members(a) : x.end > moment}
           kept == {Span(Larger(m.start, moment), m.end) : m \in late}
<1>1. Members(a) \in SUBSET Interval /\ CoveredBy(Members(a)) = A
  BY FormMembers
<1>2. ASSUME NEW m \in late
      PROVE  /\ Span(Larger(m.start, moment), m.end) \in Interval
             /\ \A t \in Slots : Takes(Span(Larger(m.start, moment), m.end), t)
                                   <=> Takes(m, t) /\ t >= moment
  <2> DEFINE from == Larger(m.start, moment)  to == m.end
  <2>1. /\ from \in Nat /\ to \in Nat /\ from < to /\ to <= LastEnd
        /\ \A t \in Nat : from <= t <=> m.start <= t /\ t >= moment
    BY <1>1, IntervalBounds DEF Larger
  <2> HIDE DEF to, from
  <2>2. Span(from, to) \in Interval /\ Span(from, to).start = from /\ Span(from, to).end = to
    BY <2>1, SpanIsAnInterval
  <2>3. \A t \in Slots : Takes(Span(from, to), t) <=> Takes(m, t) /\ t >= moment
    <3>1. \A t \in Slots : t \in Nat
      BY DEF Slots
    <3> QED BY <2>1, <2>2, <3>1 DEF Takes, to
  <2> QED BY <2>2, <2>3 DEF to, from
<1>3. kept \in SUBSET Interval
  BY <1>2
<1>4. ASSUME NEW t \in Slots
      PROVE  (\E k \in kept : Takes(k, t)) <=> (\E m \in Members(a) : Takes(m, t)) /\ t >= moment
  <2>1. (\E k \in kept : Takes(k, t)) <=> \E m \in late : Takes(m, t) /\ t >= moment
    BY <1>2
  <2>2. \A m \in Members(a) : Takes(m, t) /\ t >= moment => m \in late
    <3>1. t \in Nat
      BY DEF Slots
    <3>2. \A m \in Members(a) : m.end \in Nat
      BY <1>1, IntervalBounds
    <3> QED BY <3>1, <3>2 DEF Takes
  <2> HIDE DEF kept
  <2> QED BY <2>1, <2>2
<1>5. CoveredBy(kept) = {t \in A : t >= moment}
  <2> HIDE DEF kept
  <2> QED BY <1>1, <1>4 DEF CoveredBy, Takes
<1>6. Form(SetOf(kept), CoveredBy(kept))
  BY <1>3, FormOfASet
<1> QED BY <1>5, <1>6 DEF After

(* Every member lasts a slot at least, so every uncovered part is long enough for one. *)
LEMMA FormOfGaps ==
    ASSUME NEW a, NEW A, Form(a, A), NEW within \in Interval
    PROVE  Form(Gaps(a, within, 1), CoveredBy({within}) \ A)
<1> DEFINE rest == Subtract(<<within>>, a)
<1>1. Form(rest, CoveredBy({within}) \ A)
  BY FormOfOne, FormOfSubtract
<1> HIDE DEF rest
<1>2. Members(rest) \in SUBSET Interval /\ CoveredBy(Members(rest)) = CoveredBy({within}) \ A
  BY <1>1, FormMembers
<1>3. {m \in Members(rest) : Duration(m) >= 1} = Members(rest)
  <2>1. \A m \in Members(rest) : Duration(m) \in Nat \ {0}
    BY <1>2, SlotsOfAnInterval
  <2> QED BY <2>1
<1>4. Form(SetOf(Members(rest)), CoveredBy(Members(rest)))
  BY <1>2, FormOfASet
<1> QED BY <1>2, <1>3, <1>4 DEF Gaps, rest

-----------------------------------------------------------------------------
(* The figures of a week are the slots they are for. *)

LEMMA TheWeekIsAnInterval ==
    Span(0, End) \in Interval /\ CoveredBy({Span(0, End)}) = 0..(End - 1)
<1>1. End \in Nat /\ 0 < End /\ End <= LastEnd /\ LastEnd \in Nat
  BY WeekBounds, SlotBound
<1>2. Span(0, End) \in Interval /\ Span(0, End).start = 0 /\ Span(0, End).end = End
  BY <1>1, SpanIsAnInterval
<1>3. CoveredBy({Span(0, End)}) = {t \in Slots : 0 <= t /\ t < End}
  BY <1>2 DEF CoveredBy
<1>4. {t \in Slots : 0 <= t /\ t < End} = 0..(End - 1)
  BY <1>1 DEF Slots
<1> QED BY <1>2, <1>3, <1>4

LEMMA CoveredOneByOne ==
    ASSUME NEW S \in SUBSET Interval
    PROVE  UNION {SlotsOf(<<i>>) : i \in S} = CoveredBy(S)
<1>1. \A i \in S : SlotsOf(<<i>>) = CoveredBy({i})
  BY FormOfOne DEF Form
<1>2. \A t : t \in CoveredBy(S) <=> \E i \in S : t \in CoveredBy({i})
  BY DEF CoveredBy
<1> QED BY <1>1, <1>2

LEMMA WeekOfAnAssembly ==
    ASSUME TypeOK
    PROVE  /\ week.taken \in SUBSET Interval
           /\ now \in Nat
           /\ \A b \in Blocks : Maybe(PlacedAt(Assembly, b)) \in SUBSET Interval
<1>1. week \in Declarations
  BY CapacityBounds DEF TypeOK
<1>2. week.taken \in SUBSET Interval
  BY <1>1 DEF Declarations
<1>3. now \in Nat
  BY WeekBounds, SlotBound DEF TypeOK
<1>4. ASSUME NEW b \in Blocks PROVE Maybe(PlacedAt(Assembly, b)) \in SUBSET Interval
  <2>1. plan[b] \in Interval \cup {NULL} /\ pins[b] \in Interval \cup {NULL}
    BY DEF TypeOK, OfTheWeek
  <2>2. PlacedAt(Assembly, b) \in {plan[b], pins[b]}
    BY DEF PlacedAt, Assembly
  <2> QED BY <2>1, <2>2 DEF Maybe
<1> QED BY <1>2, <1>3, <1>4

LEMMA TheAlgebraIsThatOfTheMinutes ==
    ASSUME TypeOK
    PROVE  IntervalsAreTheirMinutes
<1> DEFINE w == Assembly
           free == Free(w)
           committed == Committed(w)
           discretionary == Discretionary(w)
           blocks == UNION {Maybe(PlacedAt(w, b)) : b \in Blocks}
           placed == UNION {SlotsOf(<<i>>) : i \in blocks}
           span == 0..(End - 1)
           open == span \ UNION {SlotsOf(<<i>>) : i \in week.taken}
           ahead == {t \in open : t >= now}
<1>1. week.taken \in SUBSET Interval /\ now \in Nat /\ blocks \in SUBSET Interval
  BY WeekOfAnAssembly
<1>2. Form(committed, placed)
  <2>1. Form(SetOf(blocks), CoveredBy(blocks)) /\ placed = CoveredBy(blocks)
    BY <1>1, FormOfASet, CoveredOneByOne
  <2> QED BY <2>1 DEF Committed
<1>3. Form(discretionary, open)
  <2>1. Form(SetOf(week.taken), CoveredBy(week.taken))
        /\ UNION {SlotsOf(<<i>>) : i \in week.taken} = CoveredBy(week.taken)
    BY <1>1, FormOfASet, CoveredOneByOne
  <2>2. Form(<<Span(0, End)>>, span)
    BY TheWeekIsAnInterval, FormOfOne
  <2>3. Form(Subtract(<<Span(0, End)>>, SetOf(week.taken)), span \ CoveredBy(week.taken))
    BY <2>1, <2>2, FormOfSubtract
  <2> QED BY <2>1, <2>3 DEF Discretionary, Assembly
<1>4. Form(free, ahead \ placed)
  <2>1. Form(After(discretionary, now), ahead)
    BY <1>1, <1>3, FormOfAfter
  <2>2. Form(Subtract(After(discretionary, now), committed), ahead \ placed)
    <3> HIDE DEF committed, discretionary, ahead, placed
    <3> QED BY <1>2, <2>1, FormOfSubtract
  <2> QED BY <2>2 DEF Free, Assembly
<1>5. Form(Gaps(committed, Span(0, End), 1), span \ placed)
  <2> HIDE DEF committed, placed
  <2> QED BY <1>2, TheWeekIsAnInterval, FormOfGaps
<1> HIDE DEF w, free, committed, discretionary, placed, open
<1>6. Form(Union(free, committed), ahead \cup placed)
  <2>1. Form(Union(free, committed), (ahead \ placed) \cup placed)
    <3> HIDE DEF ahead
    <3> QED BY <1>2, <1>4, FormOfUnion
  <2>2. (ahead \ placed) \cup placed = ahead \cup placed
    OBVIOUS
  <2> QED BY <2>1, <2>2
<1>7. Form(Intersect(discretionary, committed), open \cap placed)
  BY <1>2, <1>3, FormOfIntersect
<1>8. Form(Before(committed, now), {t \in placed : t < now})
  BY <1>1, <1>2, FormOfBefore
<1>9. /\ Covers(discretionary, open)
      /\ Covers(committed, placed)
      /\ Covers(free, ahead \ placed)
      /\ Covers(Union(free, committed), ahead \cup placed)
      /\ Covers(Intersect(discretionary, committed), open \cap placed)
      /\ Covers(Before(committed, now), {t \in placed : t < now})
      /\ Covers(Gaps(committed, Span(0, End), 1), span \ placed)
  <2> HIDE DEF ahead, span
  <2> QED BY <1>2, <1>3, <1>4, <1>5, <1>6, <1>7, <1>8, FormCovers
<1> QED BY <1>9 DEF IntervalsAreTheirMinutes, w, free, committed, discretionary, placed, open

-----------------------------------------------------------------------------
(* Recursion over the subsets of a finite set, one element less at a time. *)

RecursesUpTo(S, n, pick, step, base, h) ==
    h = [U \in UpTo(S, n) |-> IF U = {} THEN base ELSE step[<<U, h[U \ {pick[U]}]>>]]

LEMMA WithoutOne ==
    ASSUME NEW S, IsFiniteSet(S), NEW x \in S
    PROVE  /\ IsFiniteSet(S \ {x}) /\ Cardinality(S) \in Nat \ {0}
           /\ Cardinality(S \ {x}) = Cardinality(S) - 1
<1>1. IsFiniteSet(S \ {x}) /\ Cardinality(S \ {x}) = Cardinality(S) - 1
  BY FS_RemoveElement
<1>2. Cardinality(S) \in Nat /\ Cardinality(S \ {x}) \in Nat
  BY <1>1, FS_CardinalityType
<1> QED BY <1>1, <1>2

LEMMA RecursionOneMore ==
    ASSUME NEW S, IsFiniteSet(S), NEW pick, \A U \in SUBSET S : U # {} => pick[U] \in U,
           NEW V, NEW base \in V, NEW step \in [(SUBSET S) \X V -> V], NEW n \in Nat,
           NEW f \in [UpTo(S, n) -> V], RecursesUpTo(S, n, pick, step, base, f)
    PROVE  \E h \in [UpTo(S, n + 1) -> V] : RecursesUpTo(S, n + 1, pick, step, base, h)
<1> DEFINE m == n + 1
           h == [U \in UpTo(S, m) |->
                    IF U \in UpTo(S, n) THEN f[U] ELSE step[<<U, f[U \ {pick[U]}]>>]]
<1>1. m \in Nat /\ m = n + 1
  OBVIOUS
<1> HIDE DEF m
<1>2. ASSUME NEW U \in UpTo(S, m), U # {}
      PROVE  U \ {pick[U]} \in UpTo(S, n) /\ U \ {pick[U]} \in UpTo(S, m)
  <2>1. U \in SUBSET S /\ IsFiniteSet(U) /\ pick[U] \in U /\ Cardinality(U) <= m
    BY <1>2, FS_Subset DEF UpTo
  <2>2. Cardinality(U \ {pick[U]}) = Cardinality(U) - 1 /\ Cardinality(U) \in Nat \ {0}
    BY <2>1, WithoutOne
  <2>3. Cardinality(U \ {pick[U]}) <= n /\ Cardinality(U \ {pick[U]}) <= m
    BY <1>1, <2>1, <2>2
  <2> QED BY <2>1, <2>3 DEF UpTo
<1>3. {} \in UpTo(S, n)
  BY FS_EmptySet DEF UpTo
<1>4. h \in [UpTo(S, m) -> V]
  <2> SUFFICES ASSUME NEW U \in UpTo(S, m), U \notin UpTo(S, n) PROVE step[<<U, f[U \ {pick[U]}]>>] \in V
    OBVIOUS
  <2>1. U \ {pick[U]} \in UpTo(S, n)
    BY <1>2, <1>3
  <2>2. f[U \ {pick[U]}] \in V /\ U \in SUBSET S
    BY <2>1 DEF UpTo
  <2> QED BY <2>2
<1>5. ASSUME NEW U \in UpTo(S, m)
      PROVE  h[U] = IF U = {} THEN base ELSE step[<<U, h[U \ {pick[U]}]>>]
  <2>1. CASE U = {}
    <3>1. h[U] = f[U]
      BY <1>3, <2>1
    <3>2. f[U] = base
      BY <1>3, <2>1 DEF RecursesUpTo
    <3> QED BY <2>1, <3>1, <3>2
  <2>2. CASE U # {}
    <3> DEFINE rest == U \ {pick[U]}
    <3>1. rest \in UpTo(S, n) /\ rest \in UpTo(S, m)
      BY <1>2, <2>2
    <3> HIDE DEF rest
    <3>2. h[rest] = f[rest]
      BY <3>1
    <3>3. h[U] = step[<<U, f[rest]>>]
      <4>1. CASE U \in UpTo(S, n)
        <5>1. f[U] = step[<<U, f[rest]>>]
          BY <2>2, <4>1 DEF RecursesUpTo, rest
        <5> QED BY <4>1, <5>1
      <4>2. CASE U \notin UpTo(S, n)
        BY <4>2 DEF rest
      <4> QED BY <4>1, <4>2
    <3> QED BY <2>2, <3>2, <3>3 DEF rest
  <2> QED BY <2>1, <2>2
<1>6. RecursesUpTo(S, m, pick, step, base, h)
  <2>1. h = [U \in UpTo(S, m) |-> h[U]]
    OBVIOUS
  <2> HIDE DEF h
  <2> QED BY <1>5, <2>1 DEF RecursesUpTo
<1> QED BY <1>1, <1>4, <1>6

Recurses(S, pick, step, base, h) ==
    h = [U \in SUBSET S |-> IF U = {} THEN base ELSE step[<<U, h[U \ {pick[U]}]>>]]

LEMMA RecursionExists ==
    ASSUME NEW S, IsFiniteSet(S), NEW pick, \A U \in SUBSET S : U # {} => pick[U] \in U,
           NEW V, NEW base \in V, NEW step \in [(SUBSET S) \X V -> V]
    PROVE  \E h \in [SUBSET S -> V] : Recurses(S, pick, step, base, h)
<1> DEFINE Found(n) == \E h \in [UpTo(S, n) -> V] : RecursesUpTo(S, n, pick, step, base, h)
           bad == {k \in Nat : ~Found(k)}
           n == Cardinality(S)
<1>1. n \in Nat
  BY FS_CardinalityType
<1>2. ASSUME bad # {} PROVE FALSE
  <2>1. PICK k \in bad : \A m \in bad : k <= m
    BY <1>2, LeastOfNaturals
  <2>2. CASE k = 0
    <3> DEFINE f == [U \in UpTo(S, 0) |-> base]
    <3>1. \A U \in UpTo(S, 0) : U = {}
      <4> SUFFICES ASSUME NEW U \in UpTo(S, 0) PROVE U = {}
        OBVIOUS
      <4>1. IsFiniteSet(U) /\ Cardinality(U) \in Nat /\ Cardinality(U) <= 0
        BY FS_Subset, FS_CardinalityType DEF UpTo
      <4> QED BY <4>1, FS_EmptySet
    <3>2. f \in [UpTo(S, 0) -> V] /\ RecursesUpTo(S, 0, pick, step, base, f)
      BY <3>1 DEF RecursesUpTo
    <3> QED BY <2>1, <2>2, <3>2
  <2>3. CASE k # 0
    <3> DEFINE j == k - 1
    <3>1. j \in Nat /\ j \notin bad /\ j + 1 = k
      BY <2>1, <2>3
    <3> HIDE DEF j
    <3>2. PICK f \in [UpTo(S, j) -> V] : RecursesUpTo(S, j, pick, step, base, f)
      BY <3>1
    <3>3. Found(j + 1)
      BY <3>1, <3>2, RecursionOneMore
    <3> QED BY <2>1, <3>1, <3>3
  <2> QED BY <2>2, <2>3
<1>3. UpTo(S, n) = SUBSET S
  <2>1. \A U \in SUBSET S : Cardinality(U) <= Cardinality(S)
    BY FS_Subset
  <2> QED BY <2>1 DEF UpTo
<1> HIDE DEF n
<1>4. PICK h \in [UpTo(S, n) -> V] : RecursesUpTo(S, n, pick, step, base, h)
  BY <1>1, <1>2
<1> QED BY ZenonT(30), <1>3, <1>4 DEF RecursesUpTo, Recurses

(* And induction along it. *)
LEMMA SubsetInduction ==
    ASSUME NEW S, IsFiniteSet(S), NEW pick, \A U \in SUBSET S : U # {} => pick[U] \in U,
           NEW Good, {} \in Good,
           \A U \in SUBSET S : U # {} /\ U \ {pick[U]} \in Good => U \in Good
    PROVE  S \in Good
<1> DEFINE bad == {n \in Nat : \E U \in SUBSET S : Cardinality(U) = n /\ U \notin Good}
<1>1. ASSUME bad # {} PROVE FALSE
  <2>1. PICK n \in bad : \A m \in bad : n <= m
    BY <1>1, LeastOfNaturals
  <2>2. PICK U \in SUBSET S : Cardinality(U) = n /\ U \notin Good
    BY <2>1
  <2>3. U # {} /\ IsFiniteSet(U)
    BY <2>2, FS_Subset
  <2> DEFINE rest == U \ {pick[U]}
  <2>4. rest \in SUBSET S /\ Cardinality(rest) = n - 1 /\ n - 1 \in Nat
    <3>1. pick[U] \in U
      BY <2>3
    <3>2. Cardinality(rest) = Cardinality(U) - 1 /\ Cardinality(U) \in Nat \ {0}
      BY <2>3, <3>1, WithoutOne
    <3> QED BY <2>2, <3>2
  <2> HIDE DEF rest
  <2>5. n - 1 \notin bad
    BY <2>1, <2>2, <2>3, <2>4, FS_CardinalityType
  <2>6. rest \in Good
    BY <2>4, <2>5
  <2> QED BY <2>2, <2>3, <2>6 DEF rest
<1>2. Cardinality(S) \in Nat
  BY FS_CardinalityType
<1> QED BY <1>1, <1>2

-----------------------------------------------------------------------------
(* A sum of naturals, one less at a time, and what bounds it. *)

OneLess(f, S, g) ==
    /\ SumFunction(f) = g[S]
    /\ g[{}] = 0
    /\ \A U \in SUBSET S : U # {} => \E x \in U : g[U] = f[x] + g[U \ {x}]

LEMMA SumOneLess ==
    ASSUME NEW S, IsFiniteSet(S), NEW f \in [S -> Nat]
    PROVE  \E g : OneLess(f, S, g)
<1> DEFINE G(g) == g = [U \in SUBSET S |->
                           IF U = {} THEN 0 ELSE f[CHOOSE x \in U : TRUE] + g[U \ {CHOOSE x \in U : TRUE}]]
           sum == CHOOSE g : G(g)
<1>1. SumFunction(f) = sum[S]
  <2>1. DOMAIN f = S
    OBVIOUS
  <2>2. SumFunctionOnSet(f, S) = sum[S]
    BY DEF SumFunctionOnSet, FoldFunctionOnSet, MapThenFoldSet
  <2> QED BY <2>1, <2>2 DEF SumFunction
<1>2. \E g : G(g)
  <2> DEFINE pick == [U \in SUBSET S |-> CHOOSE x \in U : TRUE]
             step == [p \in (SUBSET S) \X Nat |-> IF p[1] = {} THEN 0 ELSE f[pick[p[1]]] + p[2]]
  <2>1. \A U \in SUBSET S : U # {} => pick[U] \in U
    OBVIOUS
  <2>2. step \in [(SUBSET S) \X Nat -> Nat]
    <3> SUFFICES ASSUME NEW p \in (SUBSET S) \X Nat, p[1] # {} PROVE f[pick[p[1]]] + p[2] \in Nat
      OBVIOUS
    <3>1. pick[p[1]] \in S /\ p[2] \in Nat
      BY <2>1
    <3> QED BY <3>1
  <2>3. \A U \in SUBSET S, v \in Nat : U # {} => step[<<U, v>>] = f[pick[U]] + v
    OBVIOUS
  <2>4. \A U \in SUBSET S : pick[U] = CHOOSE x \in U : TRUE
    OBVIOUS
  <2> HIDE DEF pick, step
  <2>5. PICK h \in [SUBSET S -> Nat] : Recurses(S, pick, step, 0, h)
    <3>1. 0 \in Nat
      OBVIOUS
    <3> HIDE DEF G, sum
    <3> QED BY <2>1, <2>2, <3>1, RecursionExists
  <2>6. \A U \in SUBSET S : h[U] = IF U = {} THEN 0 ELSE f[pick[U]] + h[U \ {pick[U]}]
    BY <2>3, <2>5 DEF Recurses
  <2>7. h = [U \in SUBSET S |-> IF U = {} THEN 0 ELSE f[pick[U]] + h[U \ {pick[U]}]]
    BY <2>5, <2>6
  <2>8. G(h)
    BY <2>4, <2>7
  <2> QED BY <2>8
<1>3. G(sum)
  <2> HIDE DEF G
  <2> QED BY <1>2
<1> HIDE DEF sum
<1>4. sum[{}] = 0
  BY <1>3
<1>5. \A U \in SUBSET S : U # {} => \E x \in U : sum[U] = f[x] + sum[U \ {x}]
  <2> SUFFICES ASSUME NEW U \in SUBSET S, U # {} PROVE \E x \in U : sum[U] = f[x] + sum[U \ {x}]
    OBVIOUS
  <2>1. (CHOOSE x \in U : TRUE) \in U
    OBVIOUS
  <2>2. sum[U] = f[CHOOSE x \in U : TRUE] + sum[U \ {CHOOSE x \in U : TRUE}]
    BY <1>3
  <2> QED BY <2>1, <2>2
<1> QED BY <1>1, <1>4, <1>5 DEF OneLess

(* Of disjoint sets, each at least as large as its summand: no sum exceeds them together. *)
LEMMA SumIsWithin ==
    ASSUME NEW S, IsFiniteSet(S), NEW f \in [S -> Nat], NEW P,
           \A x \in S : P[x] \in SUBSET Slots /\ f[x] <= Cardinality(P[x]),
           \A x, y \in S : x # y => P[x] \cap P[y] = {}
    PROVE  SumFunction(f) \in Nat /\ SumFunction(f) <= Cardinality(UNION {P[x] : x \in S})
<1>1. PICK g : OneLess(f, S, g)
  BY SumOneLess
<1> DEFINE Together(U) == UNION {P[x] : x \in U}
           Within(U) == g[U] \in Nat /\ g[U] <= Cardinality(Together(U))
           bad == {n \in Nat : \E U \in SUBSET S : Cardinality(U) = n /\ ~Within(U)}
<1>2. ASSUME bad # {} PROVE FALSE
  <2>1. PICK n \in bad : \A m \in bad : n <= m
    BY <1>2, LeastOfNaturals
  <2>2. PICK U \in SUBSET S : Cardinality(U) = n /\ ~Within(U)
    BY <2>1
  <2>3. IsFiniteSet(U)
    BY FS_Subset
  <2>4. CASE U = {}
    <3>1. Together(U) = {}
      BY <2>4
    <3>2. g[U] = 0 /\ Cardinality(Together(U)) = 0
      <4> HIDE DEF Together
      <4> QED BY <1>1, <2>4, <3>1, FS_EmptySet DEF OneLess
    <3> HIDE DEF Together
    <3> QED BY <2>2, <3>2
  <2>5. CASE U # {}
    <3>1. PICK x \in U : g[U] = f[x] + g[U \ {x}]
      BY <1>1, <2>5 DEF OneLess
    <3> DEFINE rest == U \ {x}
    <3>2. Cardinality(rest) = n - 1 /\ n - 1 \in Nat /\ rest \in SUBSET S
      <4>1. Cardinality(U \ {x}) = Cardinality(U) - 1 /\ Cardinality(U) \in Nat \ {0}
        BY <2>3, WithoutOne
      <4>2. rest \in SUBSET S
        OBVIOUS
      <4> HIDE DEF Within
      <4> QED BY <2>2, <4>1, <4>2
    <3>3. Within(rest)
      <4> HIDE DEF rest, Within
      <4>1. n - 1 \notin bad
        BY <2>1, <3>2
      <4> QED BY <3>2, <4>1
    <3>4. Together(U) = Together(rest) \cup P[x] /\ Together(rest) \cap P[x] = {}
      OBVIOUS
    <3>5. Together(rest) \in SUBSET Slots /\ P[x] \in SUBSET Slots
      OBVIOUS
    <3> DEFINE A == Together(rest)  B == P[x]
    <3> HIDE DEF A, B
    <3>6. IsFiniteSet(A) /\ IsFiniteSet(B) /\ Cardinality(A) \in Nat /\ Cardinality(B) \in Nat
      BY <3>5, SetsOfSlots DEF A, B
    <3>7. A \cap B = {}
      BY <3>4 DEF A, B
    <3>8. Cardinality(A \cup B) = Cardinality(A) + Cardinality(B)
      <4>1. Cardinality(A \cup B) = Cardinality(A) + Cardinality(B) - Cardinality(A \cap B)
        BY <3>6, FS_Union
      <4>2. Cardinality(A \cap B) = 0
        BY <3>7, FS_EmptySet
      <4> QED BY <3>6, <4>1, <4>2
    <3>9. Together(U) = A \cup B
      BY <3>4 DEF A, B
    <3>10. f[x] \in Nat /\ f[x] <= Cardinality(B)
      BY DEF B
    <3>11. g[rest] \in Nat /\ g[rest] <= Cardinality(A)
      BY <3>3 DEF A
    <3>12. Cardinality(Together(U)) = Cardinality(A) + Cardinality(B) /\ g[U] = f[x] + g[rest]
      BY <3>1, <3>8, <3>9
    <3> HIDE DEF Together, rest
    <3> QED BY <2>2, <3>6, <3>10, <3>11, <3>12
  <2> QED BY <2>4, <2>5
<1>3. Cardinality(S) \in Nat
  BY FS_CardinalityType
<1>4. Within(S)
  <2> HIDE DEF Within
  <2> QED BY <1>2, <1>3
<1> QED BY <1>1, <1>4 DEF OneLess

LEMMA SumIsNatural ==
    ASSUME NEW S, IsFiniteSet(S), NEW f \in [S -> Nat]
    PROVE  SumFunction(f) \in Nat
<1>1. PICK g : OneLess(f, S, g)
  BY SumOneLess
<1> DEFINE bad == {n \in Nat : \E U \in SUBSET S : Cardinality(U) = n /\ g[U] \notin Nat}
<1>2. ASSUME bad # {} PROVE FALSE
  <2>1. PICK n \in bad : \A m \in bad : n <= m
    BY <1>2, LeastOfNaturals
  <2>2. PICK U \in SUBSET S : Cardinality(U) = n /\ g[U] \notin Nat
    BY <2>1
  <2> HIDE DEF bad
  <2>3. IsFiniteSet(U) /\ U # {}
    <3>1. IsFiniteSet(U)
      BY FS_Subset
    <3>2. g[{}] = 0
      BY <1>1 DEF OneLess
    <3> QED BY <2>2, <3>1, <3>2
  <2>4. PICK x \in U : g[U] = f[x] + g[U \ {x}]
    BY <1>1, <2>3 DEF OneLess
  <2>5. Cardinality(U \ {x}) = n - 1 /\ n - 1 \in Nat
    <3>1. Cardinality(U \ {x}) = Cardinality(U) - 1 /\ Cardinality(U) \in Nat \ {0}
      BY <2>3, WithoutOne
    <3> QED BY <2>2, <3>1
  <2>6. n - 1 \notin bad
    BY <2>1, <2>2, <2>5, FS_CardinalityType, <2>3
  <2>7. g[U \ {x}] \in Nat
    BY <2>5, <2>6 DEF bad
  <2>8. f[x] \in Nat
    OBVIOUS
  <2> QED BY <2>2, <2>4, <2>7, <2>8
<1>3. Cardinality(S) \in Nat
  BY FS_CardinalityType
<1>4. g[S] \in Nat
  BY <1>2, <1>3
<1> QED BY <1>1, <1>4 DEF OneLess

-----------------------------------------------------------------------------
(* Sets of slots, and the largest of naturals. *)

LEMMA SlotsWithin ==
    ASSUME NEW B \in SUBSET Slots, NEW A \in SUBSET B
    PROVE  Cardinality(A) <= Cardinality(B)
BY SetsOfSlots, FS_Subset

LEMMA SlotsApart ==
    ASSUME NEW A \in SUBSET Slots, NEW B \in SUBSET Slots, A \cap B = {}
    PROVE  Cardinality(A \cup B) = Cardinality(A) + Cardinality(B)
<1>1. IsFiniteSet(A) /\ IsFiniteSet(B) /\ Cardinality(A) \in Nat /\ Cardinality(B) \in Nat
  BY SetsOfSlots
<1>2. Cardinality(A \cup B) = Cardinality(A) + Cardinality(B) - Cardinality(A \cap B)
  BY <1>1, FS_Union
<1>3. Cardinality(A \cap B) = 0
  BY FS_EmptySet
<1> QED BY <1>1, <1>2, <1>3

LEMMA SlotsTogether ==
    ASSUME NEW A \in SUBSET Slots, NEW B \in SUBSET Slots
    PROVE  Cardinality(A \cup B) <= Cardinality(A) + Cardinality(B)
<1>1. IsFiniteSet(A) /\ IsFiniteSet(B) /\ Cardinality(A) \in Nat /\ Cardinality(B) \in Nat
  BY SetsOfSlots
<1>2. Cardinality(A \cup B) = Cardinality(A) + Cardinality(B) - Cardinality(A \cap B)
  BY <1>1, FS_Union
<1>3. A \cap B \in SUBSET Slots /\ Cardinality(A \cap B) \in Nat
  BY SetsOfSlots
<1> QED BY <1>1, <1>2, <1>3

LEMMA LargestOfFinite ==
    ASSUME NEW T \in SUBSET Nat, IsFiniteSet(T), T # {}
    PROVE  \E n \in T : \A m \in T : m <= n
<1> DEFINE bad == {k \in Nat : \E U \in SUBSET T : /\ U # {} /\ Cardinality(U) = k
                                                   /\ ~\E n \in U : \A m \in U : m <= n}
<1>1. ASSUME bad # {} PROVE FALSE
  <2>1. PICK k \in bad : \A m \in bad : k <= m
    BY <1>1, LeastOfNaturals
  <2>2. PICK U \in SUBSET T : U # {} /\ Cardinality(U) = k /\ ~\E n \in U : \A m \in U : m <= n
    BY <2>1
  <2>3. PICK x \in U : TRUE
    BY <2>2
  <2>4. Cardinality(U \ {x}) = k - 1 /\ k - 1 \in Nat
    <3>1. IsFiniteSet(U)
      BY FS_Subset
    <3>2. Cardinality(U \ {x}) = Cardinality(U) - 1 /\ Cardinality(U) \in Nat \ {0}
      BY <3>1, WithoutOne
    <3> QED BY <2>2, <3>2
  <2>5. k - 1 \notin bad
    BY <2>1, <2>4
  <2>6. U \ {x} = {} \/ \E n \in U \ {x} : \A m \in U \ {x} : m <= n
    BY <2>4, <2>5
  <2>7. CASE U \ {x} = {}
    BY <2>2, <2>7
  <2>8. CASE \E n \in U \ {x} : \A m \in U \ {x} : m <= n
    <3>1. PICK n \in U \ {x} : \A m \in U \ {x} : m <= n
      BY <2>8
    <3>2. n <= x \/ x <= n
      OBVIOUS
    <3>3. CASE x <= n
      BY <2>2, <3>1, <3>3
    <3>4. CASE n <= x
      <4>1. \A m \in U : m <= x
        BY <3>1, <3>4
      <4> QED BY <2>2, <4>1
    <3> QED BY <3>2, <3>3, <3>4
  <2> QED BY <2>6, <2>7, <2>8
<1>2. Cardinality(T) \in Nat
  BY FS_CardinalityType
<1> QED BY <1>1, <1>2

LEMMA FlooredFacts ==
    ASSUME NEW x \in Int
    PROVE  Floored(x) \in Nat /\ Floored(x) >= x /\ (x >= 0 => Floored(x) = x) /\ (x < 0 => Floored(x) = 0)
BY DEF Floored, Larger

(* Of K the others leave what is wanted: they want U, may take what is in J and outside K,    *)
(* and V of K is not theirs.                                                                  *)
LEMMA EnoughIsAvailable ==
    ASSUME NEW J \in SUBSET Slots, NEW K \in SUBSET J, NEW U \in SUBSET J, NEW V \in SUBSET K,
           U \cap V = {}, NEW m \in Nat, m <= Cardinality(U), NEW n \in Nat, n <= Cardinality(V)
    PROVE  /\ Floored(Cardinality(K) - Floored(m - Cardinality(J \ K))) \in Nat
           /\ Floored(n - Floored(Cardinality(K) - Floored(m - Cardinality(J \ K)))) = 0
<1> DEFINE k == Cardinality(K)  j == Cardinality(J \ K)  both == Cardinality(U \cap K)
           u == Cardinality(U)  v == Cardinality(V)
<1>1. K \in SUBSET Slots /\ J \ K \in SUBSET Slots /\ U \cap K \in SUBSET Slots /\ U \in SUBSET Slots
      /\ V \in SUBSET Slots
  OBVIOUS
<1>2. k \in Nat /\ j \in Nat /\ both \in Nat /\ u \in Nat /\ v \in Nat
  BY <1>1, SetsOfSlots
<1>3. u <= both + j
  <2>1. U \in SUBSET ((U \cap K) \cup (J \ K)) /\ (U \cap K) \cup (J \ K) \in SUBSET Slots
    BY <1>1
  <2>2. Cardinality(U) <= Cardinality((U \cap K) \cup (J \ K))
    BY <2>1, SlotsWithin
  <2>3. Cardinality((U \cap K) \cup (J \ K)) <= both + j
    BY <1>1, SlotsTogether
  <2>4. Cardinality((U \cap K) \cup (J \ K)) \in Nat
    BY <2>1, SetsOfSlots
  <2> QED BY <1>2, <2>2, <2>3, <2>4
<1>4. both + v <= k
  <2>1. (U \cap K) \cup V \in SUBSET K /\ (U \cap K) \cap V = {}
    OBVIOUS
  <2>2. Cardinality((U \cap K) \cup V) = both + v
    BY <1>1, <2>1, SlotsApart
  <2>3. Cardinality((U \cap K) \cup V) <= k
    BY <1>1, <2>1, SlotsWithin
  <2> QED BY <2>2, <2>3
<1> DEFINE x == Floored(m - j)  y == Floored(k - x)
<1>5. m <= u /\ n <= v
  OBVIOUS
<1> HIDE DEF k, j, both, u, v
<1>6. x \in Nat /\ x <= both
  BY <1>2, <1>3, <1>5, FlooredFacts
<1>7. y \in Nat /\ y >= k - x
  BY <1>2, <1>6, FlooredFacts
<1>8. Floored(n - y) = 0
  <2> HIDE DEF x, y
  <2>1. n - y <= 0 /\ n - y \in Int
    BY <1>2, <1>4, <1>5, <1>6, <1>7
  <2> QED BY <2>1, FlooredFacts
<1> QED BY <1>7, <1>8 DEF k, j

LEMMA FormCounts ==
    ASSUME NEW a, NEW slots, Form(a, slots)
    PROVE  /\ TotalMinutes(a) = Cardinality(slots) /\ slots \in SUBSET Slots
           /\ Cardinality(slots) \in Nat
<1>1. slots \in SUBSET Slots
  BY DEF Form, SlotsOf
<1> QED BY <1>1, FormCovers, SetsOfSlots DEF Covers

-----------------------------------------------------------------------------
(* What an assembly's figures are counted from. *)

LEMMA FreeIsAForm ==
    ASSUME TypeOK
    PROVE  Form(Free(Assembly), SlotsOf(Free(Assembly)))
<1> DEFINE blocks == UNION {Maybe(PlacedAt(Assembly, b)) : b \in Blocks}
           free == After(Discretionary(Assembly), now)
<1>1. week.taken \in SUBSET Interval /\ now \in Nat /\ blocks \in SUBSET Interval
  BY WeekOfAnAssembly
<1>2. Form(Committed(Assembly), CoveredBy(blocks))
  BY <1>1, FormOfASet DEF Committed
<1>3. Form(Discretionary(Assembly), CoveredBy({Span(0, End)}) \ CoveredBy(week.taken))
  <2>1. Form(SetOf(week.taken), CoveredBy(week.taken))
    BY <1>1, FormOfASet
  <2>2. Form(<<Span(0, End)>>, CoveredBy({Span(0, End)}))
    BY TheWeekIsAnInterval, FormOfOne
  <2> QED BY <2>1, <2>2, FormOfSubtract DEF Discretionary, Assembly
<1>4. \E slots : Form(free, slots)
  BY <1>1, <1>3, FormOfAfter
<1>5. PICK slots : Form(free, slots)
  BY <1>4
<1>6. Form(Subtract(free, Committed(Assembly)), slots \ CoveredBy(blocks))
  <2> HIDE DEF free, blocks
  <2> QED BY <1>2, <1>5, FormOfSubtract
<1>7. Free(Assembly) = Subtract(free, Committed(Assembly))
  BY DEF Free, Assembly
<1> QED BY <1>6, <1>7 DEF Form

LEMMA AttributedIntervals ==
    ASSUME TypeOK, NEW b \in Blocks
    PROVE  Attributed(Assembly, b) \in SUBSET Interval
<1> DEFINE at == PlacedAt(Assembly, b)  said == outcomes[b]
<1>1. Maybe(at) \in SUBSET Interval
  BY WeekOfAnAssembly
<1>2. said \in Outcomes /\ Assembly.outcomes[b] = said
  BY DEF TypeOK, Assembly
<1> HIDE DEF at, said
<1>3. /\ said.state = "moved" => said.interval \in Interval
      /\ said.state = "partial" => said.minutes \in {1, 2}
  <2>1. \/ said = NoOutcome
        \/ said = [NoOutcome EXCEPT !.state = "completed"]
        \/ said = [NoOutcome EXCEPT !.state = "skipped"]
        \/ \E m \in {1, 2} : said = [NoOutcome EXCEPT !.state = "partial", !.minutes = m]
        \/ \E i \in MovedTo : said = [NoOutcome EXCEPT !.state = "moved", !.interval = i]
    BY <1>2, Zenon DEF Outcomes
  <2>2. CASE said = NoOutcome
    BY <2>2 DEF NoOutcome
  <2>3. CASE said = [NoOutcome EXCEPT !.state = "completed"]
    BY <2>3 DEF NoOutcome
  <2>4. CASE said = [NoOutcome EXCEPT !.state = "skipped"]
    BY <2>4 DEF NoOutcome
  <2>5. CASE \E m \in {1, 2} : said = [NoOutcome EXCEPT !.state = "partial", !.minutes = m]
    <3>1. PICK m \in {1, 2} : said = [NoOutcome EXCEPT !.state = "partial", !.minutes = m]
      BY <2>5, Zenon
    <3>2. DOMAIN NoOutcome = {"state", "minutes", "interval"}
      BY DEF NoOutcome
    <3>3. said.state = "partial" /\ said.minutes = m
      BY <3>1, <3>2
    <3> QED BY <3>3
  <2>6. CASE \E i \in MovedTo : said = [NoOutcome EXCEPT !.state = "moved", !.interval = i]
    <3>1. PICK i \in MovedTo : said = [NoOutcome EXCEPT !.state = "moved", !.interval = i]
      BY <2>6, Zenon
    <3>2. DOMAIN NoOutcome = {"state", "minutes", "interval"}
      BY DEF NoOutcome
    <3>3. said.state = "moved" /\ said.interval = i
      BY <3>1, <3>2
    <3> QED BY <3>3, CapacityBounds
  <2> QED BY <2>1, <2>2, <2>3, <2>4, <2>5, <2>6
<1>5. at # NULL => at \in Interval
  BY <1>1 DEF Maybe
<1>6. ASSUME at \in Interval, said.minutes \in {1, 2}
      PROVE  Span(at.start, Smaller(at.start + said.minutes, LastEnd)) \in Interval
  <2>1. at.start \in Nat /\ at.start < LastEnd /\ LastEnd \in Nat
    BY <1>6, IntervalBounds, SlotBound
  <2>2. at.start + said.minutes \in Nat /\ at.start < at.start + said.minutes
    BY <1>6, <2>1
  <2>3. Smaller(at.start + said.minutes, LastEnd) \in Nat
        /\ at.start < Smaller(at.start + said.minutes, LastEnd)
        /\ Smaller(at.start + said.minutes, LastEnd) <= LastEnd
    BY <2>1, <2>2 DEF Smaller
  <2> QED BY <2>1, <2>3, SpanIsAnInterval
<1>7. CASE at = NULL \/ said.state = "skipped"
  <2>1. Attributed(Assembly, b) = {}
    BY <1>2, <1>7 DEF Attributed, at
  <2> QED BY <2>1
<1>8. CASE at # NULL /\ said.state = "moved"
  <2>1. Attributed(Assembly, b) = {said.interval}
    BY <1>2, <1>8 DEF Attributed, at
  <2> QED BY <1>3, <1>8, <2>1
<1>9. CASE at # NULL /\ said.state = "partial"
  <2>1. Attributed(Assembly, b) = {Span(at.start, Smaller(at.start + said.minutes, LastEnd))}
    BY <1>2, <1>9 DEF Attributed, at
  <2> QED BY <1>3, <1>5, <1>6, <1>9, <2>1
<1>10. CASE at # NULL /\ said.state \notin {"skipped", "moved", "partial"}
  <2>1. Attributed(Assembly, b) = {at}
    BY <1>2, <1>10 DEF Attributed, at
  <2> QED BY <1>5, <1>10, <2>1
<1> QED BY <1>7, <1>8, <1>9, <1>10

LEMMA WeekDeclares ==
    ASSUME TypeOK
    PROVE  /\ week \in Declarations /\ Assembly.week = week /\ Assembly.now = now
           /\ \A c \in Contents : week.estimate[c] \in Nat /\ week.deadline[c] \in Nat
                                  /\ AreaOf[c] \in Areas
           /\ \A a \in Areas : week.floor[a] \in Nat /\ week.scoped[a] \in SUBSET Interval
<1>1. week \in Declarations
  BY CapacityBounds DEF TypeOK
<1>2. \A c \in Contents : week.estimate[c] \in Nat /\ week.deadline[c] \in Nat /\ AreaOf[c] \in Areas
  BY <1>1, WeekBounds DEF Declarations
<1>3. \A a \in Areas : week.floor[a] \in Nat /\ week.scoped[a] \in SUBSET Interval
  BY <1>1 DEF Declarations
<1> QED BY <1>1, <1>2, <1>3 DEF Assembly

LEMMA RemainingIsCounted ==
    ASSUME TypeOK, NEW c \in Contents
    PROVE  /\ Work(Assembly, c).done \in SUBSET Slots
           /\ Remaining(Assembly, c) = Floored(week.estimate[c] - Cardinality(Work(Assembly, c).done))
<1> DEFINE given == UNION {Attributed(Assembly, b) : b \in BlocksOf(c)}
           did == DoneOf(Assembly, BlocksOf(c))
           done == {t \in SlotsOf(did) : t < week.deadline[c]}
<1>1. given \in SUBSET Interval
  BY AttributedIntervals DEF BlocksOf
<1>2. Form(did, CoveredBy(given))
  BY <1>1, FormOfASet DEF DoneOf
<1>3. SlotsOf(did) = CoveredBy(given)
  BY <1>2 DEF Form
<1>4. Form(Before(did, week.deadline[c]), done)
  <2> HIDE DEF did, given
  <2> QED BY <1>2, <1>3, FormOfBefore, WeekDeclares
<1>5. TotalMinutes(Before(did, week.deadline[c])) = Cardinality(done) /\ done \in SUBSET Slots
  <2> HIDE DEF did, done
  <2> QED BY <1>4, FormCounts
<1>6. Work(Assembly, c).done = done
  BY WeekDeclares DEF Work
<1>7. Remaining(Assembly, c) = Floored(week.estimate[c] - TotalMinutes(Before(did, week.deadline[c])))
  BY WeekDeclares DEF Remaining
<1> QED BY <1>5, <1>6, <1>7

LEMMA MinutesOfAreaAreCounted ==
    ASSUME TypeOK, NEW a \in Areas
    PROVE  /\ AreaSlots(Assembly, a) \in SUBSET Slots
           /\ MinutesOfArea(Assembly, a) = Cardinality(AreaSlots(Assembly, a))
<1>1. now \in Nat
  BY WeekOfAnAssembly
<1>2. ASSUME NEW b \in Blocks PROVE AreaSpan(Assembly, b) \in SUBSET Interval
  <2>1. Attributed(Assembly, b) \in SUBSET Interval /\ Maybe(PlacedAt(Assembly, b)) \in SUBSET Interval
    BY AttributedIntervals, WeekOfAnAssembly
  <2>2. \E A : Form(Before(SetOf(Attributed(Assembly, b)), now), A)
    BY <1>1, <2>1, FormOfASet, FormOfBefore
  <2>3. \E A : Form(After(SetOf(Maybe(PlacedAt(Assembly, b))), now), A)
    BY <1>1, <2>1, FormOfASet, FormOfAfter
  <2>4. Members(Before(SetOf(Attributed(Assembly, b)), now)) \in SUBSET Interval
    BY <2>2, FormMembers
  <2>5. Members(After(SetOf(Maybe(PlacedAt(Assembly, b))), now)) \in SUBSET Interval
    BY <2>3, FormMembers
  <2> QED BY <2>4, <2>5 DEF AreaSpan, Assembly
<1> DEFINE spans == UNION {AreaSpan(Assembly, b) : b \in BlocksIn(a)}
<1>3. spans \in SUBSET Interval
  BY <1>2 DEF BlocksIn
<1>4. AreaSlots(Assembly, a) = CoveredBy(spans)
  <2>1. \A b \in BlocksIn(a) : SlotsOf(SetOf(AreaSpan(Assembly, b))) = CoveredBy(AreaSpan(Assembly, b))
    BY <1>2, FormOfASet DEF Form, BlocksIn
  <2>2. \A t : t \in CoveredBy(spans) <=> \E b \in BlocksIn(a) : t \in CoveredBy(AreaSpan(Assembly, b))
    BY DEF CoveredBy
  <2> HIDE DEF spans
  <2> QED BY <2>1, <2>2 DEF AreaSlots
<1>5. Form(SetOf(spans), CoveredBy(spans))
  BY <1>3, FormOfASet
<1>6. TotalMinutes(SetOf(spans)) = Cardinality(CoveredBy(spans)) /\ CoveredBy(spans) \in SUBSET Slots
  <2> HIDE DEF spans
  <2> QED BY <1>5, FormCounts
<1> QED BY <1>4, <1>6 DEF MinutesOfArea

-----------------------------------------------------------------------------
(* The walk over the demands, for any inputs of the shape the probe is given. *)

(* What the probe is given: free slots F, one reservation an Area, one demand an Area and     *)
(* deadline.                                                                                   *)
Readable(inputs, F) ==
    /\ Form(inputs.free, F)
    /\ inputs.scoped \in [Areas -> SUBSET Interval]
    /\ inputs.reservations \in SUBSET [area: Areas, minutes: Nat]
    /\ IsFiniteSet(inputs.reservations)
    /\ \A r, s \in inputs.reservations : r.area = s.area => r = s
    /\ inputs.demands \in SUBSET [deadline: Nat, area: Areas, minutes: Nat]
    /\ IsFiniteSet(inputs.demands)
    /\ \A x, y \in inputs.demands : x.deadline = y.deadline /\ x.area = y.area => x = y

LEMMA FormOfFreeFor ==
    ASSUME NEW inputs, NEW F, NEW a \in Areas, Form(inputs.free, F),
           inputs.scoped \in [Areas -> SUBSET Interval]
    PROVE  Form(FreeFor(inputs, a), F \ CoveredBy(inputs.scoped[a]))
<1>1. Form(SetOf(inputs.scoped[a]), CoveredBy(inputs.scoped[a]))
  BY FormOfASet
<1> QED BY <1>1, FormOfSubtract DEF FreeFor

LEMMA EarlyFloorIsCounted ==
    ASSUME NEW inputs, NEW F, Readable(inputs, F), NEW r \in inputs.reservations, NEW d \in Nat
    PROVE  /\ EarlyFloor(inputs, r, d) \in Nat
           /\ EarlyFloor(inputs, r, d) = Floored(r.minutes - Cardinality({t \in F : t >= d}))
<1> DEFINE late == {t \in F : t >= d}
<1>1. r.area \in Areas /\ r.minutes \in Nat
  BY DEF Readable
<1>2. Form(After(inputs.free, d), late)
  BY FormOfAfter DEF Readable
<1> HIDE DEF late
<1>3. TotalMinutes(After(inputs.free, d)) = Cardinality(late) /\ Cardinality(late) \in Nat
  BY <1>2, FormCounts
<1>4. r.minutes - Cardinality(late) \in Int
  BY <1>1, <1>3
<1>5. EarlyFloor(inputs, r, d) = Floored(r.minutes - Cardinality(late))
  BY <1>3 DEF EarlyFloor
<1> QED BY <1>4, <1>5, FlooredFacts DEF late

Early(F, d) == {t \in F : t < d}
FreeIn(inputs, F, a) == F \ CoveredBy(inputs.scoped[a])

LEMMA BeforeADeadline ==
    ASSUME NEW inputs, NEW F, Readable(inputs, F), NEW due \in inputs.demands
    PROVE  /\ due.deadline \in Nat /\ due.area \in Areas /\ due.minutes \in Nat
           /\ Form(Before(inputs.free, due.deadline), Early(F, due.deadline))
           /\ Form(Before(FreeFor(inputs, due.area), due.deadline),
                   Early(FreeIn(inputs, F, due.area), due.deadline))
<1>1. due.deadline \in Nat /\ due.area \in Areas /\ due.minutes \in Nat
  BY DEF Readable
<1>2. Form(inputs.free, F) /\ inputs.scoped \in [Areas -> SUBSET Interval]
  BY DEF Readable
<1>3. Form(Before(inputs.free, due.deadline), Early(F, due.deadline))
  BY <1>1, <1>2, FormOfBefore DEF Early
<1>4. Form(FreeFor(inputs, due.area), FreeIn(inputs, F, due.area))
  BY <1>1, <1>2, FormOfFreeFor DEF FreeIn
<1>5. Form(Before(FreeFor(inputs, due.area), due.deadline),
           Early(FreeIn(inputs, F, due.area), due.deadline))
  BY <1>1, <1>4, FormOfBefore DEF Early
<1> QED BY <1>1, <1>3, <1>5

LEMMA CompetitionIsNatural ==
    ASSUME NEW inputs, NEW F, Readable(inputs, F), NEW due \in inputs.demands,
           NEW claimed \in [Areas -> Nat]
    PROVE  CompetitionBefore(inputs, due, claimed) \in Nat
<1> DEFINE others == OthersOf(inputs, due)
           f == [r \in others |-> Larger(claimed[r.area], EarlyFloor(inputs, r, due.deadline))]
<1>1. due.deadline \in Nat /\ due.area \in Areas
  BY BeforeADeadline
<1>2. IsFiniteSet(others)
  BY FS_Subset DEF OthersOf, Readable
<1>3. ASSUME NEW r \in others PROVE f[r] \in Nat
  <2>1. r \in inputs.reservations /\ r.area \in Areas
    BY DEF OthersOf, Readable
  <2>2. EarlyFloor(inputs, r, due.deadline) \in Nat
    BY <1>1, <2>1, EarlyFloorIsCounted
  <2> QED BY <2>1, <2>2 DEF Larger
<1>4. f \in [others -> Nat]
  <2>1. f = [r \in others |-> f[r]]
    OBVIOUS
  <2> HIDE DEF f
  <2> QED BY <1>3, <2>1
<1>5. SumFunction(f) \in Nat
  <2> HIDE DEF f, others
  <2> QED BY <1>2, <1>4, SumIsNatural
<1>6. CompetitionBefore(inputs, due, claimed) = claimed[due.area] + SumFunction(f)
  BY DEF CompetitionBefore
<1> HIDE DEF f
<1> QED BY <1>1, <1>5, <1>6

LEMMA AvailableIsCounted ==
    ASSUME NEW inputs, NEW F, Readable(inputs, F), NEW due \in inputs.demands,
           NEW claimed \in [Areas -> Nat]
    PROVE  LET J == Early(F, due.deadline)
               K == Early(FreeIn(inputs, F, due.area), due.deadline)
           IN  /\ Available(inputs, due, claimed) \in Nat
               /\ Available(inputs, due, claimed)
                    = Floored(Cardinality(K) - Floored(CompetitionBefore(inputs, due, claimed)
                                                         - Cardinality(J \ K)))
<1> DEFINE claimable == Before(FreeFor(inputs, due.area), due.deadline)
           jointly == Before(inputs.free, due.deadline)
           competition == CompetitionBefore(inputs, due, claimed)
           J == Early(F, due.deadline)
           K == Early(FreeIn(inputs, F, due.area), due.deadline)
           competing == Floored(competition - Cardinality(J \ K))
<1>1. Form(jointly, J) /\ Form(claimable, K)
  BY BeforeADeadline
<1>2. competition \in Nat
  BY CompetitionIsNatural
<1>3. Available(inputs, due, claimed)
        = Floored(TotalMinutes(claimable)
                    - Floored(competition - TotalMinutes(Subtract(jointly, claimable))))
  BY DEF Available, CompetingMinutes
<1> HIDE DEF jointly, claimable, J, K, competition
<1>4. Form(Subtract(jointly, claimable), J \ K)
  BY <1>1, FormOfSubtract
<1>5. /\ TotalMinutes(claimable) = Cardinality(K) /\ Cardinality(K) \in Nat
      /\ TotalMinutes(Subtract(jointly, claimable)) = Cardinality(J \ K) /\ Cardinality(J \ K) \in Nat
  BY <1>1, <1>4, FormCounts
<1>6. competing \in Nat
  BY <1>2, <1>5, FlooredFacts
<1>7. Available(inputs, due, claimed) = Floored(Cardinality(K) - competing)
  BY <1>3, <1>5
<1> HIDE DEF competing
<1>8. Floored(Cardinality(K) - competing) \in Nat
  BY <1>5, <1>6, FlooredFacts
<1> QED BY <1>7, <1>8 DEF competing, J, K, competition

WalkState == [claimed: [Areas -> Nat], gaps: SUBSET [deadline: Nat, area: Areas, minutes: Nat]]
GapOf(inputs, due, claimed) == Floored(due.minutes - Available(inputs, due, claimed))
GapRecord(inputs, due, claimed) ==
    [deadline |-> due.deadline, area |-> due.area, minutes |-> GapOf(inputs, due, claimed)]

LEMMA WalkedIsTyped ==
    ASSUME NEW inputs, NEW F, Readable(inputs, F), NEW due \in inputs.demands,
           NEW walk \in WalkState
    PROVE  LET available == Available(inputs, due, walk.claimed)
           IN  /\ available \in Nat /\ GapOf(inputs, due, walk.claimed) \in Nat
               /\ Walked(inputs, walk, due)
                    = [claimed |-> [walk.claimed EXCEPT ![due.area] = @ + Smaller(available, due.minutes)],
                       gaps |-> walk.gaps \cup {GapRecord(inputs, due, walk.claimed)}]
               /\ Walked(inputs, walk, due) \in WalkState
<1> DEFINE available == Available(inputs, due, walk.claimed)
           gap == GapOf(inputs, due, walk.claimed)
<1>1. due.deadline \in Nat /\ due.area \in Areas /\ due.minutes \in Nat
  BY BeforeADeadline
<1>2. walk.claimed \in [Areas -> Nat] /\ walk.gaps \in SUBSET [deadline: Nat, area: Areas, minutes: Nat]
  BY DEF WalkState
<1>3. available \in Nat
  BY <1>2, AvailableIsCounted
<1>4. Walked(inputs, walk, due)
        = [claimed |-> [walk.claimed EXCEPT ![due.area] = @ + Smaller(available, due.minutes)],
           gaps |-> walk.gaps \cup {GapRecord(inputs, due, walk.claimed)}]
  BY DEF Walked, GapOf, GapRecord
<1>5. gap = Floored(due.minutes - available)
  BY DEF GapOf
<1> HIDE DEF available, gap
<1>6. gap \in Nat /\ Smaller(available, due.minutes) \in Nat
  BY <1>1, <1>3, <1>5, FlooredFacts DEF Smaller
<1>7. [walk.claimed EXCEPT ![due.area] = @ + Smaller(available, due.minutes)] \in [Areas -> Nat]
  BY <1>1, <1>2, <1>6
<1>8. GapRecord(inputs, due, walk.claimed) \in [deadline: Nat, area: Areas, minutes: Nat]
  BY <1>1, <1>6 DEF GapRecord, gap
<1>9. Walked(inputs, walk, due) \in WalkState
  BY <1>2, <1>4, <1>7, <1>8 DEF WalkState
<1> QED BY <1>3, <1>4, <1>6, <1>9 DEF available, gap

LEMMA LargestOfAFigure ==
    ASSUME NEW U, IsFiniteSet(U), U # {}, NEW f \in [U -> Nat]
    PROVE  \E x \in U : \A y \in U : f[y] <= f[x]
<1> DEFINE T == {f[x] : x \in U}
<1>1. IsFiniteSet(T)
  BY ImageIsFinite
<1>2. T \in SUBSET Nat /\ T # {}
  OBVIOUS
<1>3. PICK n \in T : \A m \in T : m <= n
  <2> HIDE DEF T
  <2> QED BY <1>1, <1>2, LargestOfFinite
<1> QED BY <1>3

LEMMA LastDueIsLast ==
    ASSUME NEW inputs, NEW F, Readable(inputs, F),
           NEW U \in SUBSET inputs.demands, U # {}
    PROVE  /\ LastDue(U) \in U
           /\ \A d \in U \ {LastDue(U)} : EarlierDue(d, LastDue(U))
<1> DEFINE f == [x \in U |-> x.deadline]
<1>1. \A x \in U : x.deadline \in Nat /\ x.area \in Nat
  <2>1. \A x \in U : x \in [deadline: Nat, area: Areas, minutes: Nat]
    BY DEF Readable
  <2>2. Areas \in SUBSET Nat
    BY WeekBounds
  <2> QED BY <2>1, <2>2
<1>2. IsFiniteSet(U)
  BY FS_Subset DEF Readable
<1>3. f \in [U -> Nat]
  BY <1>1
<1>4. PICK x \in U : \A y \in U : f[y] <= f[x]
  <2> HIDE DEF f
  <2> QED BY <1>2, <1>3, LargestOfAFigure
<1> DEFINE latest == {y \in U : y.deadline = x.deadline}
           g == [y \in latest |-> y.area]
<1>5. g \in [latest -> Nat] /\ x \in latest
  BY <1>1
<1>6. IsFiniteSet(latest)
  BY <1>2, FS_Subset
<1>7. PICK last \in latest : \A y \in latest : g[y] <= g[last]
  <2> HIDE DEF latest, g
  <2> QED BY <1>5, <1>6, LargestOfAFigure
<1>8. \A d \in U \ {last} : EarlierDue(d, last)
  <2> SUFFICES ASSUME NEW d \in U, d # last PROVE EarlierDue(d, last)
    OBVIOUS
  <2>1. d.deadline <= x.deadline /\ last.deadline = x.deadline
    BY <1>4
  <2>2. d.deadline = x.deadline => d.area <= last.area /\ d.area # last.area
    <3> SUFFICES ASSUME d.deadline = x.deadline PROVE d.area <= last.area /\ d.area # last.area
      OBVIOUS
    <3>1. d \in latest
      OBVIOUS
    <3>2. d.area <= last.area
      BY <1>7, <3>1
    <3>3. d.area # last.area
      BY <2>1 DEF Readable
    <3> QED BY <3>2, <3>3
  <2> QED BY <1>1, <2>1, <2>2 DEF EarlierDue
<1>9. \E due \in U : \A d \in U \ {due} : EarlierDue(d, due)
  BY <1>8
<1> QED BY <1>9, Zenon DEF LastDue

(* The walk as a function of the demands walked. *)
NothingWalked == [claimed |-> [a \in Areas |-> 0], gaps |-> {}]
Walks(inputs, walk) ==
    /\ DeadlineGaps(inputs) = walk[inputs.demands].gaps
    /\ walk[{}] = NothingWalked
    /\ \A U \in SUBSET inputs.demands :
          U # {} => walk[U] = Walked(inputs, walk[U \ {LastDue(U)}], LastDue(U))

LEMMA TheWalk ==
    ASSUME NEW inputs, NEW F, Readable(inputs, F)
    PROVE  \E walk : Walks(inputs, walk)
<1> DEFINE S == inputs.demands
           base == NothingWalked
           Walk(h) == h = [U \in SUBSET S |->
                              IF U = {} THEN base ELSE Walked(inputs, h[U \ {LastDue(U)}], LastDue(U))]
           walk == CHOOSE h : Walk(h)
<1>1. DeadlineGaps(inputs) = walk[S].gaps
  BY DEF DeadlineGaps, MapThenFoldSet, NothingWalked
<1>2. base \in WalkState
  BY DEF WalkState, NothingWalked
<1>3. IsFiniteSet(S)
  BY DEF Readable
<1>4. \E h : Walk(h)
  <2> DEFINE pick == [U \in SUBSET S |-> LastDue(U)]
             step == [p \in (SUBSET S) \X WalkState |->
                         IF p[1] = {} THEN base ELSE Walked(inputs, p[2], pick[p[1]])]
  <2>1. \A U \in SUBSET S : U # {} => pick[U] \in U
    BY LastDueIsLast
  <2>2. step \in [(SUBSET S) \X WalkState -> WalkState]
    <3> HIDE DEF base
    <3> SUFFICES ASSUME NEW p \in (SUBSET S) \X WalkState, p[1] # {}
                 PROVE  Walked(inputs, p[2], pick[p[1]]) \in WalkState
      BY <1>2
    <3>1. pick[p[1]] \in S /\ p[2] \in WalkState
      BY <2>1
    <3> HIDE DEF pick
    <3> QED BY <3>1, WalkedIsTyped
  <2>3. \A U \in SUBSET S, v \in WalkState : U # {} => step[<<U, v>>] = Walked(inputs, v, pick[U])
    OBVIOUS
  <2>4. \A U \in SUBSET S : pick[U] = LastDue(U)
    OBVIOUS
  <2> HIDE DEF pick, step, base
  <2>5. PICK h \in [SUBSET S -> WalkState] : Recurses(S, pick, step, base, h)
    <3> HIDE DEF Walk, walk, S
    <3> QED BY <1>2, <1>3, <2>1, <2>2, RecursionExists
  <2>6. \A U \in SUBSET S :
            h[U] = IF U = {} THEN base ELSE Walked(inputs, h[U \ {LastDue(U)}], LastDue(U))
    BY <2>3, <2>4, <2>5 DEF Recurses
  <2>7. h = [U \in SUBSET S |->
                IF U = {} THEN base ELSE Walked(inputs, h[U \ {LastDue(U)}], LastDue(U))]
    BY <2>5, <2>6
  <2>8. Walk(h)
    BY <2>7
  <2> QED BY <2>8
<1>5. Walk(walk)
  <2> HIDE DEF Walk
  <2> QED BY <1>4
<1> HIDE DEF walk
<1>6. walk[{}] = base
  BY <1>5
<1>7. \A U \in SUBSET S : U # {} => walk[U] = Walked(inputs, walk[U \ {LastDue(U)}], LastDue(U))
  <2> HIDE DEF base
  <2> QED BY <1>5
<1> HIDE DEF base, Walk
<1> QED BY <1>1, <1>6, <1>7 DEF Walks, base

-----------------------------------------------------------------------------
(* The probe never refuses where the free slots can be shared out: each Area has slots of its *)
(* own that cover its reservation, and each demand slots of its Area's before its deadline.   *)

Shares(inputs, F, G, D) ==
    /\ Readable(inputs, F)
    /\ \A a \in Areas : G[a] \in SUBSET (F \ CoveredBy(inputs.scoped[a]))
    /\ \A a, b \in Areas : a # b => G[a] \cap G[b] = {}
    /\ \A r \in inputs.reservations : r.minutes <= Cardinality(G[r.area])
    /\ \A due \in inputs.demands : /\ D[due] \in SUBSET {t \in G[due.area] : t < due.deadline}
                                   /\ due.minutes <= Cardinality(D[due])
    /\ \A x, y \in inputs.demands : x # y => D[x] \cap D[y] = {}

LEMMA SharesSlots ==
    ASSUME NEW inputs, NEW F, NEW G, NEW D, Shares(inputs, F, G, D)
    PROVE  /\ F \in SUBSET Slots
           /\ \A a \in Areas : G[a] \in SUBSET F
           /\ \A due \in inputs.demands : D[due] \in SUBSET F /\ D[due] \in SUBSET G[due.area]
BY FormCounts DEF Shares, Readable

LEMMA EarlyFloorFits ==
    ASSUME NEW inputs, NEW F, NEW G, NEW D, Shares(inputs, F, G, D),
           NEW r \in inputs.reservations, NEW d \in Nat
    PROVE  /\ EarlyFloor(inputs, r, d) \in Nat
           /\ EarlyFloor(inputs, r, d) <= Cardinality({t \in G[r.area] : t < d})
<1> DEFINE late == {t \in F : t >= d}
           G1 == {t \in G[r.area] : t < d}  G2 == {t \in G[r.area] : t >= d}
<1>1. r.area \in Areas /\ r.minutes \in Nat /\ r.minutes <= Cardinality(G[r.area])
  BY DEF Shares, Readable
<1>2. F \in SUBSET Slots /\ G[r.area] \in SUBSET F
  BY <1>1, SharesSlots
<1>3. Readable(inputs, F)
  BY DEF Shares
<1>4. late \in SUBSET Slots /\ EarlyFloor(inputs, r, d) = Floored(r.minutes - Cardinality(late))
  BY <1>2, <1>3, EarlyFloorIsCounted
<1>5. G1 \in SUBSET Slots /\ G2 \in SUBSET late /\ G1 \cap G2 = {} /\ G[r.area] = G1 \cup G2
  <2>1. \A t \in G[r.area] : t \in Nat /\ t \in F /\ t \in Slots
    BY <1>2, SlotBound DEF Slots
  <2>2. \A t \in Nat : (t < d \/ t >= d) /\ ~(t < d /\ t >= d)
    OBVIOUS
  <2>3. G1 \cap G2 = {} /\ G[r.area] = G1 \cup G2
    BY <2>1, <2>2
  <2> QED BY <2>1, <2>3
<1> HIDE DEF late, G1, G2
<1>6. Cardinality(G[r.area]) = Cardinality(G1) + Cardinality(G2)
  BY <1>4, <1>5, SlotsApart
<1>7. Cardinality(G2) <= Cardinality(late)
  BY <1>4, <1>5, SlotsWithin
<1>8. Cardinality(G1) \in Nat /\ Cardinality(G2) \in Nat /\ Cardinality(late) \in Nat
  BY <1>4, <1>5, SetsOfSlots
<1>9. r.minutes - Cardinality(late) \in Int /\ r.minutes - Cardinality(late) <= Cardinality(G1)
  BY <1>1, <1>6, <1>7, <1>8
<1> QED BY <1>4, <1>8, <1>9, FlooredFacts DEF G1

Claims(D, U, a) == UNION {D[x] : x \in {y \in U : y.area = a}}

LEMMA CompetitionFits ==
    ASSUME NEW inputs, NEW F, NEW G, NEW D, Shares(inputs, F, G, D), NEW due \in inputs.demands,
           NEW U \in SUBSET (inputs.demands \ {due}), \A x \in U : x.deadline <= due.deadline,
           NEW claimed \in [Areas -> Nat],
           \A a \in Areas : claimed[a] <= Cardinality(Claims(D, U, a))
    PROVE  \E wanted \in SUBSET Early(F, due.deadline) :
               /\ wanted \cap D[due] = {}
               /\ CompetitionBefore(inputs, due, claimed) \in Nat
               /\ CompetitionBefore(inputs, due, claimed) <= Cardinality(wanted)
<1> DEFINE others == OthersOf(inputs, due)
           f == [r \in others |-> Larger(claimed[r.area], EarlyFloor(inputs, r, due.deadline))]
           P == [r \in others |-> {t \in G[r.area] : t < due.deadline}]
           own == Claims(D, U, due.area)
           theirs == UNION {P[r] : r \in others}
<1>1. F \in SUBSET Slots /\ due.area \in Areas /\ due.deadline \in Nat
  BY SMTT(30), SharesSlots, BeforeADeadline DEF Shares
<1>2. IsFiniteSet(others)
  BY FS_Subset DEF OthersOf, Shares, Readable
<1>3. ASSUME NEW a \in Areas PROVE Claims(D, U, a) \in SUBSET {t \in G[a] : t < due.deadline}
  <2> SUFFICES ASSUME NEW t \in Claims(D, U, a) PROVE t \in G[a] /\ t < due.deadline
    OBVIOUS
  <2>1. PICK x \in U : x.area = a /\ t \in D[x]
    BY DEF Claims
  <2>2. x \in inputs.demands /\ x.deadline \in Nat /\ x.deadline <= due.deadline
    BY DEF Shares, Readable
  <2>3. t \in G[a] /\ t < x.deadline
    BY <2>1, <2>2 DEF Shares, Readable
  <2>4. t \in Nat
    BY <2>3, SharesSlots, <1>1, SlotBound DEF Slots
  <2> QED BY <2>2, <2>3, <2>4, <1>1
<1>4. ASSUME NEW r \in others
      PROVE  f[r] \in Nat /\ P[r] \in SUBSET Slots /\ f[r] <= Cardinality(P[r])
  <2>1. r \in inputs.reservations /\ r.area \in Areas
    BY DEF OthersOf, Shares, Readable
  <2>2. /\ EarlyFloor(inputs, r, due.deadline) \in Nat
        /\ EarlyFloor(inputs, r, due.deadline) <= Cardinality(P[r])
    BY <1>1, <2>1, EarlyFloorFits
  <2>3. P[r] \in SUBSET Slots
    BY <1>1, <2>1, SharesSlots
  <2>4. claimed[r.area] \in Nat /\ claimed[r.area] <= Cardinality(P[r])
    <3>1. Cardinality(Claims(D, U, r.area)) <= Cardinality(P[r])
      <4>1. Claims(D, U, r.area) \in SUBSET P[r]
        BY <1>3, <2>1
      <4> QED BY <2>3, <4>1, SlotsWithin
    <3>2. Claims(D, U, r.area) \in SUBSET Slots
      BY <1>3, <2>1, <2>3
    <3>3. Cardinality(Claims(D, U, r.area)) \in Nat /\ Cardinality(P[r]) \in Nat
      BY <2>3, <3>2, SetsOfSlots
    <3> QED BY <2>1, <3>1, <3>3
  <2>5. f[r] = Larger(claimed[r.area], EarlyFloor(inputs, r, due.deadline))
    OBVIOUS
  <2> HIDE DEF f, P
  <2> QED BY <2>2, <2>3, <2>4, <2>5 DEF Larger
<1>5. f \in [others -> Nat]
  <2>1. f = [r \in others |-> f[r]]
    OBVIOUS
  <2> HIDE DEF f
  <2> QED BY <1>4, <2>1
<1>6. ASSUME NEW r \in others, NEW s \in others, r # s PROVE P[r] \cap P[s] = {}
  <2>1. r.area # s.area /\ r.area \in Areas /\ s.area \in Areas
    BY <1>6 DEF OthersOf, Shares, Readable
  <2>2. G[r.area] \cap G[s.area] = {}
    BY <2>1 DEF Shares, Readable
  <2> QED BY <2>2
<1>7. SumFunction(f) \in Nat /\ SumFunction(f) <= Cardinality(theirs)
  <2> HIDE DEF f, P, others
  <2> QED BY <1>2, <1>4, <1>5, <1>6, SumIsWithin
<1>8. theirs \in SUBSET {t \in F \ G[due.area] : t < due.deadline}
  <2> SUFFICES ASSUME NEW r \in others, NEW t \in P[r] PROVE t \in F \ G[due.area] /\ t < due.deadline
    OBVIOUS
  <2>1. r.area \in Areas /\ r.area # due.area
    BY DEF OthersOf, Shares, Readable
  <2>2. G[r.area] \cap G[due.area] = {} /\ G[r.area] \in SUBSET F
    BY <1>1, <2>1, SharesSlots DEF Shares, Readable
  <2> QED BY <2>2
<1>9. own \in SUBSET {t \in G[due.area] : t < due.deadline} /\ G[due.area] \in SUBSET F
  BY <1>1, <1>3, SharesSlots
<1>10. CompetitionBefore(inputs, due, claimed) = claimed[due.area] + SumFunction(f)
  BY DEF CompetitionBefore
<1>11. D[due] \in SUBSET G[due.area] /\ D[due] \cap own = {}
  <2>1. D[due] \in SUBSET G[due.area]
    BY SharesSlots
  <2>2. \A x \in U : D[x] \cap D[due] = {}
    BY DEF Shares, Readable
  <2> QED BY <2>1, <2>2 DEF Claims
<1>12. claimed[due.area] \in Nat /\ claimed[due.area] <= Cardinality(own)
  BY <1>1
<1> HIDE DEF f, theirs, own
<1>13. own \in SUBSET Slots /\ theirs \in SUBSET Slots /\ own \cap theirs = {}
  BY <1>1, <1>8, <1>9
<1>14. Cardinality(own \cup theirs) = Cardinality(own) + Cardinality(theirs)
       /\ Cardinality(own) \in Nat /\ Cardinality(theirs) \in Nat
  BY <1>13, SlotsApart, SetsOfSlots
<1>15. /\ CompetitionBefore(inputs, due, claimed) \in Nat
       /\ CompetitionBefore(inputs, due, claimed) <= Cardinality(own \cup theirs)
  BY <1>7, <1>10, <1>12, <1>14
<1>16. own \cup theirs \in SUBSET Early(F, due.deadline) /\ (own \cup theirs) \cap D[due] = {}
  BY <1>8, <1>9, <1>11 DEF Early
<1> QED BY <1>15, <1>16

(* What the walk over the demands U keeps: no Area has claimed more than its own demands'     *)
(* slots, and no gap is left.                                                                  *)
WalkFits(D, U, walk) ==
    /\ walk \in WalkState
    /\ \A a \in Areas : walk.claimed[a] <= Cardinality(Claims(D, U, a))
    /\ \A gap \in walk.gaps : gap.minutes = 0

LEMMA WalkedFits ==
    ASSUME NEW inputs, NEW F, NEW G, NEW D, Shares(inputs, F, G, D), NEW due \in inputs.demands,
           NEW U \in SUBSET inputs.demands, due \in U, \A x \in U : x.deadline <= due.deadline,
           NEW walk, WalkFits(D, U \ {due}, walk)
    PROVE  WalkFits(D, U, Walked(inputs, walk, due))
<1> DEFINE rest == U \ {due}
           competition == CompetitionBefore(inputs, due, walk.claimed)
           available == Available(inputs, due, walk.claimed)
           gap == GapOf(inputs, due, walk.claimed)
           J == Early(F, due.deadline)
           K == Early(FreeIn(inputs, F, due.area), due.deadline)
           new == Walked(inputs, walk, due)
<1>1. due.deadline \in Nat /\ due.area \in Areas /\ due.minutes \in Nat /\ Readable(inputs, F)
  BY BeforeADeadline DEF Shares
<1>2. walk \in WalkState /\ walk.claimed \in [Areas -> Nat] /\ (\A g \in walk.gaps : g.minutes = 0)
      /\ \A a \in Areas : walk.claimed[a] <= Cardinality(Claims(D, rest, a))
  BY DEF WalkFits, WalkState
<1>3. new \in WalkState
  BY <1>1, <1>2, WalkedIsTyped
<1>4. PICK wanted \in SUBSET J : /\ wanted \cap D[due] = {}
                                 /\ competition \in Nat /\ competition <= Cardinality(wanted)
  <2>1. rest \in SUBSET (inputs.demands \ {due}) /\ \A x \in rest : x.deadline <= due.deadline
    OBVIOUS
  <2> HIDE DEF rest
  <2> QED BY <1>2, <2>1, CompetitionFits
<1>5. D[due] \in SUBSET K /\ K \in SUBSET J /\ J \in SUBSET Slots /\ due.minutes <= Cardinality(D[due])
  <2>1. G[due.area] \in SUBSET (F \ CoveredBy(inputs.scoped[due.area]))
    BY <1>1 DEF Shares
  <2>2. D[due] \in SUBSET {t \in G[due.area] : t < due.deadline} /\ due.minutes <= Cardinality(D[due])
    BY DEF Shares
  <2> QED BY <2>1, <2>2, SharesSlots DEF Early, FreeIn
<1>7. available = Floored(Cardinality(K) - Floored(competition - Cardinality(J \ K)))
  BY <1>1, <1>2, AvailableIsCounted
<1>8. available \in Nat /\ gap = 0
  <2>1. gap = Floored(due.minutes - available)
    BY DEF GapOf
  <2> HIDE DEF competition, J, K, available, gap
  <2> QED BY <1>1, <1>4, <1>5, <1>7, <2>1, EnoughIsAvailable
<1>9. new = [claimed |-> [walk.claimed EXCEPT ![due.area] = @ + Smaller(available, due.minutes)],
             gaps |-> walk.gaps \cup {GapRecord(inputs, due, walk.claimed)}]
      /\ GapRecord(inputs, due, walk.claimed).minutes = gap
  BY <1>1, <1>2, WalkedIsTyped DEF GapRecord
<1> HIDE DEF new, gap, available
<1>10. \A g \in new.gaps : g.minutes = 0
  BY <1>2, <1>8, <1>9
<1>11. ASSUME NEW a \in Areas PROVE new.claimed[a] <= Cardinality(Claims(D, U, a))
  <2>1. CASE a # due.area
    <3>1. Claims(D, U, a) = Claims(D, rest, a)
      BY <2>1 DEF Claims
    <3>2. new.claimed[a] = walk.claimed[a]
      BY <1>2, <1>9, <2>1
    <3> QED BY <1>2, <3>1, <3>2
  <2>2. CASE a = due.area
    <3> DEFINE earlier == Claims(D, rest, a)
    <3>1. Claims(D, U, a) = earlier \cup D[due]
      BY <2>2 DEF Claims
    <3>2. earlier \cap D[due] = {}
      BY DEF Claims, Shares, Readable
    <3>3. earlier \in SUBSET Slots /\ D[due] \in SUBSET Slots
      <4>1. \A x \in U : D[x] \in SUBSET Slots
        BY SharesSlots
      <4> QED BY <4>1 DEF Claims
    <3> HIDE DEF earlier
    <3>4. Cardinality(earlier \cup D[due]) = Cardinality(earlier) + Cardinality(D[due])
          /\ Cardinality(earlier) \in Nat /\ Cardinality(D[due]) \in Nat
      BY <3>2, <3>3, SlotsApart, SetsOfSlots
    <3>5. walk.claimed[a] \in Nat /\ walk.claimed[a] <= Cardinality(earlier)
      BY <1>2 DEF earlier
    <3>6. Smaller(available, due.minutes) \in Nat /\ Smaller(available, due.minutes) <= due.minutes
      BY <1>1, <1>8 DEF Smaller
    <3>7. new.claimed[a] = walk.claimed[a] + Smaller(available, due.minutes)
      BY <1>2, <1>9, <2>2
    <3> QED BY <1>1, <1>5, <3>1, <3>4, <3>5, <3>6, <3>7
  <2> QED BY <2>1, <2>2
<1> QED BY <1>3, <1>10, <1>11 DEF WalkFits, new

LEMMA NoDeadlineIsShort ==
    ASSUME NEW inputs, NEW F, NEW G, NEW D, Shares(inputs, F, G, D)
    PROVE  \A gap \in DeadlineGaps(inputs) : gap.minutes = 0
<1> DEFINE S == inputs.demands
           pick == [U \in SUBSET S |-> LastDue(U)]
<1>1. Readable(inputs, F) /\ IsFiniteSet(S)
  BY DEF Shares, Readable
<1>2. PICK walk : Walks(inputs, walk)
  BY <1>1, TheWalk
<1> DEFINE Good == {U \in SUBSET S : WalkFits(D, U, walk[U])}
<1>3. {} \in Good
  <2>1. walk[{}] = NothingWalked
    BY <1>2 DEF Walks
  <2>2. walk[{}] \in WalkState /\ walk[{}].gaps = {} /\ \A a \in Areas : walk[{}].claimed[a] = 0
    BY <2>1 DEF WalkState, NothingWalked
  <2>3. \A a \in Areas : Claims(D, {}, a) = {}
    BY DEF Claims
  <2>4. Cardinality({}) = 0
    BY FS_EmptySet
  <2>5. \A a \in Areas : walk[{}].claimed[a] <= Cardinality(Claims(D, {}, a))
    BY <2>2, <2>3, <2>4
  <2> QED BY <2>2, <2>5 DEF WalkFits
<1>4. ASSUME NEW U \in SUBSET S, U # {}, U \ {pick[U]} \in Good PROVE U \in Good
  <2> DEFINE last == LastDue(U)  rest == U \ {last}
  <2>1. last \in U /\ \A d \in rest : EarlierDue(d, last)
    BY <1>1, <1>4, LastDueIsLast
  <2>2. \A x \in U : x.deadline <= last.deadline
    <3>1. \A x \in U : x.deadline \in Nat
      BY DEF Shares, Readable
    <3> HIDE DEF last
    <3> QED BY <2>1, <3>1 DEF EarlierDue
  <2>3. WalkFits(D, rest, walk[rest])
    BY <1>4
  <2>4. walk[U] = Walked(inputs, walk[rest], last)
    BY <1>2, <1>4 DEF Walks
  <2>5. last \in inputs.demands /\ U \in SUBSET inputs.demands
    BY <2>1
  <2> HIDE DEF last, Good
  <2>6. WalkFits(D, U, Walked(inputs, walk[rest], last))
    BY <2>1, <2>2, <2>3, <2>5, WalkedFits
  <2> QED BY <2>4, <2>6 DEF Good
<1>5. \A U \in SUBSET S : U # {} => pick[U] \in U
  BY <1>1, LastDueIsLast
<1>6. S \in Good
  <2> HIDE DEF pick, Good, S
  <2> QED BY <1>1, <1>3, <1>4, <1>5, SubsetInduction
<1> QED BY <1>2, <1>6 DEF Walks, WalkFits

LEMMA TheFloorsAreNotShort ==
    ASSUME NEW inputs, NEW F, NEW G, NEW D, Shares(inputs, F, G, D)
    PROVE  FloorsGap(inputs) = 0
<1> DEFINE R == inputs.reservations
           f == [r \in R |-> r.minutes]
           P == [r \in R |-> G[r.area]]
           together == UNION {P[r] : r \in R}
<1>1. F \in SUBSET Slots
  BY SharesSlots
<1>2. ASSUME NEW r \in R PROVE P[r] \in SUBSET F /\ f[r] \in Nat /\ f[r] <= Cardinality(P[r])
  BY SharesSlots DEF Shares, Readable
<1>3. ASSUME NEW r \in R, NEW s \in R, r # s PROVE P[r] \cap P[s] = {}
  <2>1. r.area # s.area /\ r.area \in Areas /\ s.area \in Areas
    BY <1>3 DEF Shares, Readable
  <2> QED BY <2>1 DEF Shares, Readable
<1>4. f \in [R -> Nat] /\ IsFiniteSet(R)
  BY <1>2 DEF Shares, Readable
<1>5. together \in SUBSET F
  BY <1>2
<1>6. SumFunction(f) \in Nat /\ SumFunction(f) <= Cardinality(together)
  <2>1. \A r \in R : P[r] \in SUBSET Slots /\ f[r] <= Cardinality(P[r])
    <3> HIDE DEF f, P
    <3> QED BY <1>1, <1>2
  <2>2. \A r, s \in R : r # s => P[r] \cap P[s] = {}
    <3> HIDE DEF P
    <3> QED BY <1>3
  <2> HIDE DEF f, P, R
  <2> QED BY SMTT(30), <1>4, <2>1, <2>2, SumIsWithin
<1> HIDE DEF f, together
<1>7. TotalMinutes(inputs.free) = Cardinality(F) /\ Cardinality(F) \in Nat
  BY FormCounts DEF Shares, Readable
<1>8. Cardinality(together) <= Cardinality(F) /\ Cardinality(together) \in Nat
  BY <1>1, <1>5, SlotsWithin, SetsOfSlots
<1>9. MinutesOf(inputs.reservations) = SumFunction(f)
  BY DEF MinutesOf, f
<1>10. SumFunction(f) - Cardinality(F) \in Int /\ SumFunction(f) - Cardinality(F) <= 0
  BY <1>6, <1>7, <1>8
<1> QED BY <1>7, <1>9, <1>10, FlooredFacts DEF FloorsGap

LEMMA AreaGapIsCounted ==
    ASSUME NEW inputs, NEW F, Readable(inputs, F), NEW r \in inputs.reservations
    PROVE  LET K == FreeIn(inputs, F, r.area)
               elsewhere == MinutesOf({due \in inputs.demands : due.area # r.area})
           IN  AreaGap(inputs, r)
                 = Floored(r.minutes - Floored(Cardinality(K) - Floored(elsewhere - Cardinality(F \ K))))
<1> DEFINE K == F \ CoveredBy(inputs.scoped[r.area])
           claimable == FreeFor(inputs, r.area)
<1>1. r.area \in Areas
  BY DEF Readable
<1>2. Form(claimable, K)
  BY <1>1, FormOfFreeFor DEF Readable
<1>3. Form(Subtract(inputs.free, claimable), F \ K)
  <2>1. Form(inputs.free, F)
    BY DEF Readable
  <2> HIDE DEF claimable, K
  <2> QED BY <1>2, <2>1, FormOfSubtract
<1>4. /\ TotalMinutes(claimable) = Cardinality(K)
      /\ TotalMinutes(Subtract(inputs.free, claimable)) = Cardinality(F \ K)
  <2> HIDE DEF claimable, K
  <2> QED BY <1>2, <1>3, FormCounts
<1> QED BY <1>4 DEF AreaGap, CompetingMinutes, FreeIn

LEMMA NoAreaIsShort ==
    ASSUME NEW inputs, NEW F, NEW G, NEW D, Shares(inputs, F, G, D)
    PROVE  \A gap \in AreaGaps(inputs) : gap.minutes = 0
<1> SUFFICES ASSUME NEW r \in inputs.reservations PROVE AreaGap(inputs, r) = 0
  BY DEF AreaGaps
<1> DEFINE others == {due \in inputs.demands : due.area # r.area}
           f == [due \in others |-> due.minutes]
           wanted == UNION {D[due] : due \in others}
           P == [due \in others |-> D[due]]
           K == F \ CoveredBy(inputs.scoped[r.area])
           V == G[r.area]
           elsewhere == MinutesOf(others)
<1>1. F \in SUBSET Slots
  BY SharesSlots
<1>2. r.area \in Areas /\ r.minutes \in Nat /\ r.minutes <= Cardinality(V) /\ V \in SUBSET K
  BY DEF Shares, Readable
<1>3. ASSUME NEW due \in others
      PROVE  due.minutes \in Nat /\ due.minutes <= Cardinality(D[due])
             /\ D[due] \in SUBSET (F \ V)
  <2>1. due.area \in Areas /\ due.area # r.area
    BY DEF Shares, Readable
  <2>2. G[due.area] \cap V = {}
    BY <1>2, <2>1 DEF Shares, Readable
  <2> QED BY <2>2, SharesSlots DEF Shares, Readable
<1>4. \A x, y \in others : x # y => D[x] \cap D[y] = {}
  BY DEF Shares, Readable
<1>5. f \in [others -> Nat] /\ \A due \in others : f[due] = due.minutes
  BY <1>3
<1>6. IsFiniteSet(others)
  BY FS_Subset DEF Shares, Readable
<1>7. wanted \in SUBSET F /\ wanted \cap V = {}
  BY <1>3
<1>8. \A due \in others : D[due] \in SUBSET Slots
  BY <1>1, <1>3
<1>9. SumFunction(f) \in Nat /\ SumFunction(f) <= Cardinality(wanted)
  <2>1. \A due \in others : D[due] \in SUBSET Slots /\ f[due] <= Cardinality(D[due])
    <3> HIDE DEF f, others
    <3> QED BY <1>3, <1>5, <1>8
  <2>2. f \in [others -> Nat]
    BY <1>5
  <2>3. wanted = UNION {P[due] : due \in others}
    OBVIOUS
  <2>4. \A due \in others : P[due] \in SUBSET Slots /\ f[due] <= Cardinality(P[due])
    BY <2>1
  <2>5. \A x, y \in others : x # y => P[x] \cap P[y] = {}
    BY <1>4
  <2> HIDE DEF f, others, wanted, K, V, elsewhere, P
  <2>6. SumFunction(f) \in Nat /\ SumFunction(f) <= Cardinality(UNION {P[due] : due \in others})
    BY <1>6, <2>2, <2>4, <2>5, SumIsWithin
  <2> QED BY <2>3, <2>6
<1>10. elsewhere = SumFunction(f)
  BY DEF MinutesOf
<1>11. AreaGap(inputs, r)
         = Floored(r.minutes - Floored(Cardinality(K) - Floored(elsewhere - Cardinality(F \ K))))
  BY AreaGapIsCounted DEF FreeIn, Shares
<1>12. elsewhere \in Nat /\ elsewhere <= Cardinality(wanted)
  BY <1>9, <1>10
<1> HIDE DEF elsewhere, wanted, V
<1>13. K \in SUBSET F
  OBVIOUS
<1> HIDE DEF K
<1> QED BY <1>1, <1>2, <1>7, <1>11, <1>12, <1>13, EnoughIsAvailable

LEMMA SharedIsNeverRefused ==
    ASSUME NEW inputs, NEW F, NEW G, NEW D, Shares(inputs, F, G, D)
    PROVE  ~Refuses(ProbeOf(inputs))
<1>1. FloorsGap(inputs) = 0
  BY TheFloorsAreNotShort
<1>2. \A gap \in DeadlineGaps(inputs) : gap.minutes = 0
  BY NoDeadlineIsShort
<1>3. \A gap \in AreaGaps(inputs) : gap.minutes = 0
  BY NoAreaIsShort
<1> QED BY <1>1, <1>2, <1>3 DEF Refuses, ProbeOf

-----------------------------------------------------------------------------
(* A week whose free slots can be given out is one whose probe's inputs can be shared. *)

Owed(w, d, a) ==
    {c \in Contents : /\ w.week.estimate[c] > 0 /\ Remaining(w, c) > 0
                      /\ w.week.deadline[c] = d /\ AreaOf[c] = a}

LEMMA RemainingIsNatural ==
    ASSUME TypeOK, NEW c \in Contents
    PROVE  Remaining(Assembly, c) \in Nat
<1>1. Cardinality(Work(Assembly, c).done) \in Nat
  BY RemainingIsCounted, SetsOfSlots
<1>2. week.estimate[c] - Cardinality(Work(Assembly, c).done) \in Int
  BY <1>1, WeekDeclares
<1> QED BY <1>2, RemainingIsCounted, FlooredFacts

LEMMA TheDemands ==
    ASSUME TypeOK
    PROVE  /\ IsFiniteSet(Demands(Assembly))
           /\ \A due \in Demands(Assembly) :
                 /\ due \in [deadline: Nat, area: Areas, minutes: Nat]
                 /\ due.minutes = SumFunction([c \in Owed(Assembly, due.deadline, due.area)
                                                  |-> Remaining(Assembly, c)])
           /\ \A x, y \in Demands(Assembly) : x.deadline = y.deadline /\ x.area = y.area => x = y
<1> DEFINE owed == {c \in Contents : week.estimate[c] > 0 /\ Remaining(Assembly, c) > 0}
           with(c) == {x \in owed : DueWith(Assembly, c, x)}
           sum(d, a) == SumFunction([c \in Owed(Assembly, d, a) |-> Remaining(Assembly, c)])
           demand == [c \in owed |->
                         [deadline |-> week.deadline[c], area |-> AreaOf[c],
                          minutes |-> SumFunction([x \in with(c) |-> Remaining(Assembly, x)])]]
<1>1. Demands(Assembly) = {demand[c] : c \in owed}
  BY WeekDeclares DEF Demands
<1>2. IsFiniteSet(Contents)
  BY WeekBounds
<1>3. IsFiniteSet(owed)
  <2>1. owed \in SUBSET Contents
    OBVIOUS
  <2> HIDE DEF owed
  <2> QED BY <1>2, <2>1, FS_Subset
<1>4. IsFiniteSet({demand[c] : c \in owed})
  <2>1. demand = [c \in owed |-> demand[c]]
    OBVIOUS
  <2> HIDE DEF demand, owed
  <2> QED BY <1>3, <2>1, ImageIsFinite
<1>5. ASSUME NEW c \in owed
      PROVE  /\ demand[c] = [deadline |-> week.deadline[c], area |-> AreaOf[c],
                             minutes |-> sum(week.deadline[c], AreaOf[c])]
             /\ demand[c] \in [deadline: Nat, area: Areas, minutes: Nat]
  <2>1. with(c) = Owed(Assembly, week.deadline[c], AreaOf[c])
    BY WeekDeclares DEF DueWith, Owed
  <2> DEFINE those == Owed(Assembly, week.deadline[c], AreaOf[c])
             f == [x \in those |-> Remaining(Assembly, x)]
  <2>2. those \in SUBSET Contents
    BY DEF Owed
  <2>3. f \in [those -> Nat]
    <3>1. \A x \in those : Remaining(Assembly, x) \in Nat
      BY <2>2, RemainingIsNatural
    <3> HIDE DEF those
    <3> QED BY <3>1
  <2>4. IsFiniteSet(those)
    <3> HIDE DEF those
    <3> QED BY <1>2, <2>2, FS_Subset
  <2>5. SumFunction(f) \in Nat
    <3> HIDE DEF f, those
    <3> QED BY <2>3, <2>4, SumIsNatural
  <2>6. demand[c] = [deadline |-> week.deadline[c], area |-> AreaOf[c], minutes |-> SumFunction(f)]
    BY <2>1
  <2>7. week.deadline[c] \in Nat /\ AreaOf[c] \in Areas
    BY WeekDeclares
  <2> HIDE DEF demand, owed, with
  <2> QED BY <2>5, <2>6, <2>7
<1> HIDE DEF demand, owed
<1>6. ASSUME NEW due \in Demands(Assembly)
      PROVE  /\ due = [deadline |-> due.deadline, area |-> due.area,
                       minutes |-> sum(due.deadline, due.area)]
             /\ due \in [deadline: Nat, area: Areas, minutes: Nat]
  <2>1. PICK c \in owed : due = demand[c]
    BY <1>1
  <2>2. /\ due = [deadline |-> week.deadline[c], area |-> AreaOf[c],
                  minutes |-> sum(week.deadline[c], AreaOf[c])]
        /\ due \in [deadline: Nat, area: Areas, minutes: Nat]
    BY <1>5, <2>1
  <2>3. due.deadline = week.deadline[c] /\ due.area = AreaOf[c]
    BY <2>2
  <2> QED BY <2>2, <2>3
<1>7. \A x, y \in Demands(Assembly) : x.deadline = y.deadline /\ x.area = y.area => x = y
  <2> SUFFICES ASSUME NEW x \in Demands(Assembly), NEW y \in Demands(Assembly),
                      x.deadline = y.deadline, x.area = y.area
               PROVE  x = y
    OBVIOUS
  <2>1. x = [deadline |-> x.deadline, area |-> x.area, minutes |-> sum(x.deadline, x.area)]
    BY <1>6
  <2>2. y = [deadline |-> y.deadline, area |-> y.area, minutes |-> sum(y.deadline, y.area)]
    BY <1>6
  <2> HIDE DEF sum
  <2> QED BY <2>1, <2>2
<1>8. \A due \in Demands(Assembly) : due.minutes = sum(due.deadline, due.area)
  <2> HIDE DEF sum
  <2> QED BY <1>6
<1> QED BY <1>1, <1>4, <1>6, <1>7, <1>8

LEMMA TheReservations ==
    ASSUME TypeOK
    PROVE  /\ IsFiniteSet(Reservations(Assembly))
           /\ \A r \in Reservations(Assembly) :
                 /\ r \in [area: Areas, minutes: Nat]
                 /\ r.minutes = Floored(week.floor[r.area] - Cardinality(AreaSlots(Assembly, r.area)))
           /\ \A r, s \in Reservations(Assembly) : r.area = s.area => r = s
<1> DEFINE left(a) == Floored(week.floor[a] - Cardinality(AreaSlots(Assembly, a)))
           kept == [a \in Areas |-> [area |-> a, minutes |-> left(a)]]
<1>1. \A a \in Areas : left(a) \in Nat
  <2> SUFFICES ASSUME NEW a \in Areas PROVE left(a) \in Nat
    OBVIOUS
  <2>1. Cardinality(AreaSlots(Assembly, a)) \in Nat
    BY MinutesOfAreaAreCounted, SetsOfSlots
  <2>2. week.floor[a] - Cardinality(AreaSlots(Assembly, a)) \in Int
    BY <2>1, WeekDeclares
  <2> QED BY <2>2, FlooredFacts
<1>2. \A a \in Areas : Floored(Assembly.week.floor[a] - MinutesOfArea(Assembly, a)) = left(a)
  BY MinutesOfAreaAreCounted, WeekDeclares
<1> HIDE DEF left
<1>3. Reservations(Assembly) = {kept[a] : a \in Areas}
  BY <1>2 DEF Reservations
<1>4. IsFiniteSet({kept[a] : a \in Areas})
  <2>1. kept = [a \in Areas |-> kept[a]] /\ IsFiniteSet(Areas)
    BY WeekBounds
  <2> HIDE DEF kept
  <2> QED BY <2>1, ImageIsFinite
<1>5. \A r \in Reservations(Assembly) :
          r \in [area: Areas, minutes: Nat] /\ r = [area |-> r.area, minutes |-> left(r.area)]
  BY <1>1, <1>3
<1>6. \A r \in Reservations(Assembly) : r.minutes = left(r.area)
  BY <1>5
<1> QED BY <1>3, <1>4, <1>5, <1>6 DEF left

LEMMA HoldsIsShared ==
    ASSUME TypeOK, Holds(Assembly)
    PROVE  \E F, G, D : Shares(ProbeInputs(Assembly), F, G, D)
<1> DEFINE w == Assembly
           F == SlotsOf(Free(w))
           inputs == ProbeInputs(w)
<1>1. /\ inputs.free = Free(w) /\ inputs.reservations = Reservations(w)
      /\ inputs.demands = Demands(w) /\ inputs.scoped = week.scoped
  BY WeekDeclares DEF ProbeInputs
<1>2. Form(Free(w), F) /\ F \in SUBSET Slots
  BY FreeIsAForm, FormCounts
<1>3. PICK to \in [F -> Contents \cup {NULL}] :
          /\ \A x \in {Work(w, c) : c \in Contents} :
                LET given == {t \in F : to[t] = x.content}
                IN  /\ given \subseteq x.open
                    /\ Cardinality(x.done \cup {t \in given : t < w.week.deadline[x.content]}) >= x.wants
          /\ \A f \in {[area |-> a, slots |-> AreaSlots(w, a)] : a \in Areas} :
                Cardinality(f.slots \cup {t \in F : to[t] # NULL /\ AreaOf[to[t]] = f.area})
                    >= w.week.floor[f.area]
  BY DEF Holds
<1> DEFINE For(c) == {t \in F : to[t] = c /\ t < week.deadline[c]}
           G == [a \in Areas |-> {t \in F : to[t] # NULL /\ AreaOf[to[t]] = a}]
           D == [due \in Demands(w) |-> UNION {For(c) : c \in Owed(w, due.deadline, due.area)}]
<1>4. ASSUME NEW c \in Contents
      PROVE  /\ \A t \in F : to[t] = c => t \notin CoveredBy(week.scoped[AreaOf[c]])
             /\ Cardinality(Work(w, c).done \cup For(c)) >= week.estimate[c]
  <2> DEFINE x == Work(w, c)
             given == {t \in F : to[t] = x.content}
  <2>1. x.content = c /\ x.wants = week.estimate[c]
        /\ x.open = F \ SlotsOf(SetOf(week.scoped[AreaOf[c]]))
    BY WeekDeclares DEF Work
  <2>2. /\ given \subseteq x.open
        /\ Cardinality(x.done \cup {t \in given : t < w.week.deadline[x.content]}) >= x.wants
    <3>1. x \in {Work(w, d) : d \in Contents}
      OBVIOUS
    <3> HIDE DEF x, F, w
    <3> QED BY <1>3, <3>1
  <2>3. {t \in given : t < w.week.deadline[x.content]} = For(c)
    BY <2>1, WeekDeclares
  <2>4. SlotsOf(SetOf(week.scoped[AreaOf[c]])) = CoveredBy(week.scoped[AreaOf[c]])
    BY WeekDeclares, FormOfASet DEF Form
  <2>5. x.done = Work(w, c).done
    OBVIOUS
  <2> HIDE DEF x, F, w, For
  <2>6. \A t \in F : to[t] = c => t \in x.open
    BY <2>1, <2>2
  <2>7. \A t \in F : to[t] = c => t \notin CoveredBy(week.scoped[AreaOf[c]])
    BY <2>1, <2>4, <2>6
  <2> HIDE DEF given
  <2>8. Cardinality(x.done \cup For(c)) >= week.estimate[c]
    BY <2>1, <2>2, <2>3
  <2> QED BY <2>5, <2>7, <2>8
<1>5. ASSUME NEW a \in Areas
      PROVE  Cardinality(AreaSlots(w, a) \cup G[a]) >= week.floor[a]
  <2> DEFINE f == [area |-> a, slots |-> AreaSlots(w, a)]
  <2>1. f \in {[area |-> b, slots |-> AreaSlots(w, b)] : b \in Areas}
    OBVIOUS
  <2>2. f.area = a /\ f.slots = AreaSlots(w, a)
    OBVIOUS
  <2>3. G[a] = {t \in F : to[t] # NULL /\ AreaOf[to[t]] = a}
    OBVIOUS
  <2>4. Cardinality(f.slots \cup {t \in F : to[t] # NULL /\ AreaOf[to[t]] = f.area})
            >= w.week.floor[f.area]
    <3> HIDE DEF f, F, w
    <3> QED BY <1>3, <2>1
  <2> HIDE DEF f, F, G
  <2> QED BY <2>2, <2>3, <2>4, WeekDeclares
<1>6. \A t \in F : to[t] # NULL => to[t] \in Contents /\ AreaOf[to[t]] \in Areas
  BY WeekDeclares
<1> HIDE DEF F, inputs, w
<1>7. \A a \in Areas : G[a] \in SUBSET (F \ CoveredBy(week.scoped[a]))
  BY <1>4, <1>6
<1>8. \A a, b \in Areas : a # b => G[a] \cap G[b] = {}
  OBVIOUS
<1>9. ASSUME NEW r \in Reservations(w) PROVE r.minutes <= Cardinality(G[r.area])
  <2>1. r \in [area: Areas, minutes: Nat]
        /\ r.minutes = Floored(week.floor[r.area] - Cardinality(AreaSlots(w, r.area)))
    BY TheReservations DEF w
  <2> DEFINE had == AreaSlots(w, r.area)  got == G[r.area]
  <2>2. r.area \in Areas /\ week.floor[r.area] \in Nat
    BY <2>1, WeekDeclares
  <2>3. had \in SUBSET Slots /\ got \in SUBSET Slots
    BY <1>2, <1>7, <2>2, MinutesOfAreaAreCounted DEF w
  <2>4. Cardinality(had \cup got) >= week.floor[r.area]
    BY <1>5, <2>2
  <2> HIDE DEF had, got
  <2>5. Cardinality(had \cup got) <= Cardinality(had) + Cardinality(got)
    BY <2>3, SlotsTogether
  <2>6. Cardinality(had) \in Nat /\ Cardinality(got) \in Nat /\ Cardinality(had \cup got) \in Nat
    BY <2>3, SetsOfSlots
  <2>7. week.floor[r.area] - Cardinality(had) \in Int
        /\ week.floor[r.area] - Cardinality(had) <= Cardinality(got)
    BY <2>2, <2>4, <2>5, <2>6
  <2>8. r.minutes <= Cardinality(got)
    BY <2>1, <2>6, <2>7, FlooredFacts DEF had
  <2> QED BY <2>8 DEF got
<1>10. ASSUME NEW c \in Contents
       PROVE  For(c) \in SUBSET Slots /\ Remaining(w, c) <= Cardinality(For(c))
  <2> DEFINE had == Work(w, c).done  got == For(c)
  <2>1. had \in SUBSET Slots /\ Remaining(w, c) = Floored(week.estimate[c] - Cardinality(had))
    BY RemainingIsCounted DEF w
  <2>2. got \in SUBSET Slots /\ Cardinality(had \cup got) >= week.estimate[c]
    BY <1>2, <1>4
  <2>3. week.estimate[c] \in Nat
    BY WeekDeclares
  <2> HIDE DEF had, got
  <2>4. Cardinality(had \cup got) <= Cardinality(had) + Cardinality(got)
    BY <2>1, <2>2, SlotsTogether
  <2>5. Cardinality(had) \in Nat /\ Cardinality(got) \in Nat /\ Cardinality(had \cup got) \in Nat
    BY <2>1, <2>2, SetsOfSlots
  <2>6. week.estimate[c] - Cardinality(had) \in Int
        /\ week.estimate[c] - Cardinality(had) <= Cardinality(got)
    BY <2>2, <2>3, <2>4, <2>5
  <2>7. Remaining(w, c) <= Cardinality(got)
    BY <2>1, <2>5, <2>6, FlooredFacts
  <2> QED BY <2>2, <2>7 DEF got
<1>11. ASSUME NEW due \in Demands(w)
       PROVE  /\ D[due] \in SUBSET {t \in G[due.area] : t < due.deadline}
              /\ due.minutes <= Cardinality(D[due])
  <2> DEFINE those == Owed(w, due.deadline, due.area)
             f == [c \in those |-> Remaining(w, c)]
             P == [c \in those |-> For(c)]
             together == UNION {P[c] : c \in those}
  <2>1. due.area \in Areas /\ due.minutes = SumFunction(f)
    BY TheDemands DEF w
  <2>2. \A c \in those : c \in Contents /\ week.deadline[c] = due.deadline /\ AreaOf[c] = due.area
    BY WeekDeclares DEF Owed, w
  <2>3. IsFiniteSet(those)
    <3>1. those \in SUBSET Contents /\ IsFiniteSet(Contents)
      BY WeekBounds DEF Owed
    <3> HIDE DEF those
    <3> QED BY <3>1, FS_Subset
  <2>4. f \in [those -> Nat]
    <3>1. \A c \in those : Remaining(w, c) \in Nat
      BY <2>2, RemainingIsNatural DEF w
    <3> HIDE DEF those
    <3> QED BY <3>1
  <2>5. \A c \in those : P[c] \in SUBSET Slots /\ f[c] <= Cardinality(P[c])
    <3>1. \A c \in those : P[c] = For(c) /\ f[c] = Remaining(w, c)
      OBVIOUS
    <3> HIDE DEF P, f, For, those
    <3> QED BY <1>10, <2>2, <3>1
  <2>6. \A c, d \in those : c # d => P[c] \cap P[d] = {}
    <3> HIDE DEF those
    <3> QED OBVIOUS
  <2>7. D[due] = together
    OBVIOUS
  <2>8. together \in SUBSET {t \in G[due.area] : t < due.deadline}
    <3>1. ASSUME NEW c \in those, NEW t \in For(c)
          PROVE  t \in F /\ to[t] # NULL /\ AreaOf[to[t]] = due.area /\ t < due.deadline
      BY <2>2, WeekBounds
    <3>2. \A t \in together : \E c \in those : t \in For(c)
      <4> HIDE DEF For, those
      <4> QED OBVIOUS
    <3> HIDE DEF together, For, those
    <3> QED BY <2>1, <3>1, <3>2
  <2>9. SumFunction(f) \in Nat /\ SumFunction(f) <= Cardinality(together)
    <3> HIDE DEF f, P, those, For, D, G
    <3> QED BY SMTT(30), <2>3, <2>4, <2>5, <2>6, SumIsWithin
  <2> HIDE DEF f, together, D, G
  <2> QED BY <2>1, <2>7, <2>8, <2>9
<1>12. ASSUME NEW x \in Demands(w), NEW y \in Demands(w), x # y PROVE D[x] \cap D[y] = {}
  <2> SUFFICES ASSUME NEW t, t \in D[x], t \in D[y] PROVE FALSE
    OBVIOUS
  <2>1. PICK c \in Owed(w, x.deadline, x.area) : to[t] = c
    OBVIOUS
  <2>2. PICK d \in Owed(w, y.deadline, y.area) : to[t] = d
    OBVIOUS
  <2>3. x.deadline = y.deadline /\ x.area = y.area
    BY <2>1, <2>2 DEF Owed
  <2> QED BY <1>12, <2>3, TheDemands DEF w
<1>13. week.scoped \in [Areas -> SUBSET Interval]
  BY WeekDeclares DEF Declarations
<1> HIDE DEF G, D
<1>14. Shares(inputs, F, G, D)
  <2>1. /\ Form(inputs.free, F) /\ inputs.scoped \in [Areas -> SUBSET Interval]
        /\ \A a \in Areas : G[a] \in SUBSET (F \ CoveredBy(inputs.scoped[a]))
        /\ \A a, b \in Areas : a # b => G[a] \cap G[b] = {}
    BY <1>1, <1>2, <1>7, <1>8, <1>13
  <2>2. /\ inputs.reservations \in SUBSET [area: Areas, minutes: Nat]
        /\ IsFiniteSet(inputs.reservations)
        /\ \A r, s \in inputs.reservations : r.area = s.area => r = s
        /\ \A r \in inputs.reservations : r.minutes <= Cardinality(G[r.area])
    BY <1>1, <1>9, TheReservations DEF w
  <2>3. /\ inputs.demands \in SUBSET [deadline: Nat, area: Areas, minutes: Nat]
        /\ IsFiniteSet(inputs.demands)
        /\ \A x, y \in inputs.demands : x.deadline = y.deadline /\ x.area = y.area => x = y
    BY <1>1, TheDemands DEF w
  <2>4. /\ \A due \in inputs.demands : /\ D[due] \in SUBSET {t \in G[due.area] : t < due.deadline}
                                       /\ due.minutes <= Cardinality(D[due])
        /\ \A x, y \in inputs.demands : x # y => D[x] \cap D[y] = {}
    BY <1>1, <1>11, <1>12
  <2> QED BY <2>1, <2>2, <2>3, <2>4 DEF Shares, Readable
<1> QED BY <1>14 DEF inputs, w

LEMMA TheProbeIsSound ==
    ASSUME TypeOK
    PROVE  ProbeNeverRefusesAWeekThatHolds
<1> SUFFICES ASSUME Holds(Assembly) PROVE ~Refuses(VerdictOf(Assembly))
  BY DEF ProbeNeverRefusesAWeekThatHolds
<1> DEFINE inputs == ProbeInputs(Assembly)
<1>1. \E F, G, D : Shares(inputs, F, G, D)
  BY HoldsIsShared
<1> HIDE DEF inputs
<1>2. PICK F, G, D : Shares(inputs, F, G, D)
  BY <1>1
<1>3. ~Refuses(ProbeOf(inputs))
  BY <1>2, SharedIsNeverRefused
<1> QED BY <1>3 DEF VerdictOf, inputs

-----------------------------------------------------------------------------
(* A sum of naturals as the size of a set, one pair a unit: sums compare as sets do. *)

Units(S, f) == {p \in S \X Nat : p[2] < f[p[1]]}

LEMMA UnitsOneMore ==
    ASSUME NEW S, NEW x, x \notin S, NEW f, f[x] \in Nat, IsFiniteSet(Units(S, f))
    PROVE  /\ IsFiniteSet(Units(S \cup {x}, f))
           /\ Cardinality(Units(S \cup {x}, f)) = f[x] + Cardinality(Units(S, f))
<1> DEFINE units == 0..(f[x] - 1)
           new == {x} \X units
<1>1. IsFiniteSet(units) /\ Cardinality(units) = f[x]
  <2>1. 0 \in Int /\ f[x] - 1 \in Int
    OBVIOUS
  <2>2. IsFiniteSet(units) /\ Cardinality(units) = IF 0 > f[x] - 1 THEN 0 ELSE (f[x] - 1) - 0 + 1
    BY <2>1, FS_Interval
  <2> QED BY <2>2
<1>2. IsFiniteSet({x}) /\ Cardinality({x}) = 1
  BY FS_Singleton
<1>3. IsFiniteSet(new) /\ Cardinality(new) = f[x]
  <2> HIDE DEF units
  <2>1. IsFiniteSet(new) /\ Cardinality(new) = Cardinality({x}) * Cardinality(units)
    BY <1>1, <1>2, FS_Product
  <2> QED BY <1>1, <1>2, <2>1
<1>4. Units(S \cup {x}, f) = Units(S, f) \cup new
  BY DEF Units
<1>5. Units(S, f) \cap new = {}
  BY DEF Units
<1> HIDE DEF new
<1>6. /\ IsFiniteSet(Units(S, f) \cup new)
      /\ Cardinality(Units(S, f) \cup new)
           = Cardinality(Units(S, f)) + Cardinality(new) - Cardinality(Units(S, f) \cap new)
  BY <1>3, FS_Union
<1>7. Cardinality(Units(S, f) \cap new) = 0
  BY <1>5, FS_EmptySet
<1>8. Cardinality(Units(S, f)) \in Nat
  BY FS_CardinalityType
<1>9. Cardinality(Units(S, f) \cup new) = f[x] + Cardinality(Units(S, f))
  BY <1>3, <1>6, <1>7, <1>8
<1> QED BY <1>4, <1>6, <1>9

LEMMA SumIsACount ==
    ASSUME NEW S, IsFiniteSet(S), NEW f \in [S -> Nat]
    PROVE  IsFiniteSet(Units(S, f)) /\ SumFunction(f) = Cardinality(Units(S, f))
<1>1. PICK g : OneLess(f, S, g)
  BY SumOneLess
<1> DEFINE pick == [U \in SUBSET S |-> CHOOSE x \in U : g[U] = f[x] + g[U \ {x}]]
           Good == {U \in SUBSET S : IsFiniteSet(Units(U, f)) /\ g[U] = Cardinality(Units(U, f))}
<1>2. \A U \in SUBSET S : U # {} => pick[U] \in U /\ g[U] = f[pick[U]] + g[U \ {pick[U]}]
  BY <1>1 DEF OneLess
<1> HIDE DEF pick
<1>3. {} \in Good
  <2>1. Units({}, f) = {}
    BY DEF Units
  <2>2. g[{}] = 0
    BY <1>1 DEF OneLess
  <2> QED BY <2>1, <2>2, FS_EmptySet
<1>4. ASSUME NEW U \in SUBSET S, U # {}, U \ {pick[U]} \in Good PROVE U \in Good
  <2> DEFINE x == pick[U]  rest == U \ {x}
  <2>1. x \in S /\ f[x] \in Nat /\ x \in U /\ x \notin rest /\ rest \cup {x} = U
        /\ g[U] = f[x] + g[rest]
    <3>1. x \in U /\ g[U] = f[x] + g[rest]
      BY <1>2, <1>4
    <3> HIDE DEF x
    <3> QED BY <3>1
  <2>2. IsFiniteSet(Units(rest, f)) /\ g[rest] = Cardinality(Units(rest, f))
    BY <1>4
  <2> HIDE DEF x, rest, Good
  <2>3. IsFiniteSet(Units(U, f)) /\ Cardinality(Units(U, f)) = f[x] + Cardinality(Units(rest, f))
    BY <2>1, <2>2, UnitsOneMore
  <2> QED BY <2>1, <2>2, <2>3 DEF Good
<1>5. S \in Good
  <2>1. \A U \in SUBSET S : U # {} => pick[U] \in U
    BY <1>2
  <2> HIDE DEF Good
  <2> QED BY <1>3, <1>4, <2>1, SubsetInduction
<1> QED BY <1>1, <1>5 DEF OneLess

LEMMA SumOneMore ==
    ASSUME NEW S, IsFiniteSet(S), NEW x, x \notin S, NEW T, T = S \cup {x}, NEW f \in [T -> Nat],
           NEW g \in [S -> Nat], \A y \in S : g[y] = f[y]
    PROVE  SumFunction(f) = f[x] + SumFunction(g)
<1>1. f[x] \in Nat
  OBVIOUS
<1>2. Units(S, g) = Units(S, f)
  BY DEF Units
<1>3. IsFiniteSet(Units(S, g)) /\ SumFunction(g) = Cardinality(Units(S, g))
  BY SumIsACount
<1>4. IsFiniteSet(S \cup {x})
  BY FS_AddElement
<1>5. SumFunction(f) = Cardinality(Units(S \cup {x}, f))
  BY <1>4, SumIsACount
<1>6. Cardinality(Units(S \cup {x}, f)) = f[x] + Cardinality(Units(S, f))
  BY <1>1, <1>2, <1>3, UnitsOneMore
<1> QED BY <1>2, <1>3, <1>5, <1>6

LEMMA SumGrows ==
    ASSUME NEW S, IsFiniteSet(S), NEW f \in [S -> Nat],
           NEW T, IsFiniteSet(T), NEW g \in [T -> Nat],
           NEW m \in [S -> T], \A x, y \in S : m[x] = m[y] => x = y,
           \A x \in S : f[x] <= g[m[x]]
    PROVE  SumFunction(f) <= SumFunction(g)
<1> DEFINE i == [p \in Units(S, f) |-> <<m[p[1]], p[2]>>]
<1>1. i \in Injection(Units(S, f), Units(T, g))
  <2>1. ASSUME NEW p \in Units(S, f) PROVE i[p] \in Units(T, g)
    <3>1. p[1] \in S /\ p[2] \in Nat /\ p[2] < f[p[1]] /\ f[p[1]] \in Nat
      BY DEF Units
    <3>2. m[p[1]] \in T /\ g[m[p[1]]] \in Nat /\ f[p[1]] <= g[m[p[1]]]
      BY <3>1
    <3>3. p[2] < g[m[p[1]]]
      BY <3>1, <3>2
    <3> QED BY <3>1, <3>2, <3>3 DEF Units
  <2>2. ASSUME NEW p \in Units(S, f), NEW q \in Units(S, f), i[p] = i[q] PROVE p = q
    <3>1. p = <<p[1], p[2]>> /\ q = <<q[1], q[2]>> /\ p[1] \in S /\ q[1] \in S
      BY DEF Units
    <3>2. m[p[1]] = m[q[1]] /\ p[2] = q[2]
      BY <2>2
    <3> QED BY <3>1, <3>2
  <2>3. i \in [Units(S, f) -> Units(T, g)]
    BY <2>1
  <2> HIDE DEF i
  <2> QED BY <2>2, <2>3 DEF Injection, IsInjective
<1>2. IsFiniteSet(Units(T, g)) /\ SumFunction(g) = Cardinality(Units(T, g))
  BY SumIsACount
<1>3. SumFunction(f) = Cardinality(Units(S, f))
  BY SumIsACount
<1> HIDE DEF i
<1>4. Cardinality(Units(S, f)) <= Cardinality(Units(T, g))
  BY <1>1, <1>2, FS_Injection
<1> QED BY <1>2, <1>3, <1>4

LEMMA MinutesOfOneMore ==
    ASSUME NEW S, IsFiniteSet(S), \A y \in S : y.minutes \in Nat
    PROVE  /\ MinutesOf(S) \in Nat
           /\ \A x : x \notin S /\ x.minutes \in Nat
                => MinutesOf(S \cup {x}) = x.minutes + MinutesOf(S)
<1> DEFINE f == [y \in S |-> y.minutes]
<1>1. f \in [S -> Nat] /\ MinutesOf(S) = SumFunction(f)
  BY DEF MinutesOf
<1>2. MinutesOf(S) \in Nat
  <2> HIDE DEF f
  <2> QED BY <1>1, SumIsNatural
<1>3. ASSUME NEW x, x \notin S, x.minutes \in Nat
      PROVE  MinutesOf(S \cup {x}) = x.minutes + MinutesOf(S)
  <2> DEFINE T == S \cup {x}
             g == [y \in T |-> y.minutes]
  <2>1. g \in [T -> Nat] /\ T = S \cup {x} /\ g[x] = x.minutes /\ MinutesOf(S \cup {x}) = SumFunction(g)
    BY <1>3 DEF MinutesOf
  <2>2. \A y \in S : f[y] = g[y]
    OBVIOUS
  <2> HIDE DEF f, g, T
  <2>3. SumFunction(g) = g[x] + SumFunction(f)
    BY <1>1, <1>3, <2>1, <2>2, SumOneMore
  <2> QED BY <1>1, <2>1, <2>2, <2>3
<1> QED BY <1>2, <1>3

-----------------------------------------------------------------------------
(* When no deadline is short the walk is what its demands say: each has claimed all it wants. *)

ClaimedBy(U) == [a \in Areas |-> MinutesOf({x \in U : x.area = a})]
Sooner(inputs, due) == {x \in inputs.demands : EarlierDue(x, due)}

LEMMA ClaimedByIsTyped ==
    ASSUME NEW inputs, NEW F, Readable(inputs, F), NEW U \in SUBSET inputs.demands
    PROVE  /\ \A x \in U : x.minutes \in Nat /\ x.deadline \in Nat /\ x.area \in Areas /\ x.area \in Nat
           /\ IsFiniteSet(U)
           /\ \A a \in Areas : IsFiniteSet({x \in U : x.area = a})
           /\ ClaimedBy(U) \in [Areas -> Nat]
<1>1. \A x \in U : x \in [deadline: Nat, area: Areas, minutes: Nat]
  BY DEF Readable
<1>2. Areas \in SUBSET Nat
  BY WeekBounds
<1>3. IsFiniteSet(U)
  BY FS_Subset DEF Readable
<1>4. ASSUME NEW a \in Areas
      PROVE  IsFiniteSet({x \in U : x.area = a}) /\ MinutesOf({x \in U : x.area = a}) \in Nat
  <2> DEFINE V == {x \in U : x.area = a}
  <2>1. V \in SUBSET U /\ \A x \in V : x.minutes \in Nat
    BY <1>1
  <2> HIDE DEF V
  <2>2. IsFiniteSet(V)
    BY <1>3, <2>1, FS_Subset
  <2>3. MinutesOf(V) \in Nat
    BY <2>1, <2>2, MinutesOfOneMore
  <2> QED BY <2>2, <2>3 DEF V
<1>5. ClaimedBy(U) \in [Areas -> Nat]
  BY <1>4 DEF ClaimedBy
<1> QED BY <1>1, <1>2, <1>3, <1>4, <1>5

Met(inputs, U) == \A due \in U : GapOf(inputs, due, ClaimedBy({x \in U : EarlierDue(x, due)})) = 0
NoGapIn(gaps) == \A gap \in gaps : gap.minutes = 0
WalkIsWhatIsSaid(inputs, U, walk) ==
    /\ walk \in WalkState
    /\ NoGapIn(walk.gaps) <=> Met(inputs, U)
    /\ NoGapIn(walk.gaps) => walk.claimed = ClaimedBy(U)

LEMMA WalkedIsWhatIsSaid ==
    ASSUME NEW inputs, NEW F, Readable(inputs, F), NEW U \in SUBSET inputs.demands, NEW last \in U,
           \A d \in U \ {last} : EarlierDue(d, last),
           NEW walk, WalkIsWhatIsSaid(inputs, U \ {last}, walk)
    PROVE  WalkIsWhatIsSaid(inputs, U, Walked(inputs, walk, last))
<1> DEFINE rest == U \ {last}
           new == Walked(inputs, walk, last)
           available == Available(inputs, last, walk.claimed)
           gap == GapOf(inputs, last, walk.claimed)
<1>1. walk \in WalkState /\ walk.claimed \in [Areas -> Nat]
      /\ (NoGapIn(walk.gaps) <=> Met(inputs, rest))
      /\ (NoGapIn(walk.gaps) => walk.claimed = ClaimedBy(rest))
  BY DEF WalkIsWhatIsSaid, WalkState
<1>2. /\ available \in Nat /\ gap \in Nat /\ new \in WalkState
      /\ new = [claimed |-> [walk.claimed EXCEPT ![last.area] = @ + Smaller(available, last.minutes)],
                gaps |-> walk.gaps \cup {GapRecord(inputs, last, walk.claimed)}]
  BY <1>1, WalkedIsTyped
<1>3. gap = Floored(last.minutes - available)
  BY DEF GapOf
<1>4. \A x \in U : x.minutes \in Nat /\ x.deadline \in Nat /\ x.area \in Areas /\ x.area \in Nat
  BY ClaimedByIsTyped
<1>5. NoGapIn(new.gaps) <=> NoGapIn(walk.gaps) /\ gap = 0
  <2>1. new.gaps = walk.gaps \cup {GapRecord(inputs, last, walk.claimed)}
    BY <1>2
  <2>2. GapRecord(inputs, last, walk.claimed).minutes = gap
    BY DEF GapRecord
  <2> HIDE DEF new, gap
  <2> QED BY <2>1, <2>2 DEF NoGapIn
<1>6. {x \in U : EarlierDue(x, last)} = rest
  BY <1>4 DEF EarlierDue
<1>7. ASSUME NEW due \in rest PROVE {x \in U : EarlierDue(x, due)} = {x \in rest : EarlierDue(x, due)}
  <2>1. EarlierDue(due, last)
    OBVIOUS
  <2>2. ~EarlierDue(last, due)
    BY <1>4, <2>1 DEF EarlierDue
  <2> QED BY <2>2
<1>8. Met(inputs, U) <=> Met(inputs, rest) /\ GapOf(inputs, last, ClaimedBy(rest)) = 0
  <2>1. \A due \in rest : GapOf(inputs, due, ClaimedBy({x \in U : EarlierDue(x, due)}))
                            = GapOf(inputs, due, ClaimedBy({x \in rest : EarlierDue(x, due)}))
    BY <1>7
  <2>2. GapOf(inputs, last, ClaimedBy({x \in U : EarlierDue(x, last)}))
          = GapOf(inputs, last, ClaimedBy(rest))
    BY <1>6
  <2>3. U = rest \cup {last}
    OBVIOUS
  <2> HIDE DEF rest
  <2> QED BY <2>1, <2>2, <2>3 DEF Met
<1>9. NoGapIn(new.gaps) <=> Met(inputs, U)
  BY <1>1, <1>5, <1>8
<1>10. ASSUME NoGapIn(new.gaps) PROVE new.claimed = ClaimedBy(U)
  <2>1. walk.claimed = ClaimedBy(rest) /\ gap = 0
    BY <1>1, <1>5, <1>10
  <2>2. Smaller(available, last.minutes) = last.minutes
    <3> HIDE DEF available, gap
    <3>1. last.minutes \in Nat /\ available \in Nat /\ last.minutes - available \in Int
      BY <1>2, <1>4
    <3>2. Floored(last.minutes - available) >= last.minutes - available
      BY <3>1, FlooredFacts
    <3>3. last.minutes - available <= 0
      BY <1>3, <2>1, <3>1, <3>2
    <3> QED BY <3>1, <3>3 DEF Smaller
  <2>3. new.claimed = [walk.claimed EXCEPT ![last.area] = @ + last.minutes]
    BY <1>2, <2>2
  <2> HIDE DEF new, available, gap
  <2>4. ASSUME NEW a \in Areas PROVE new.claimed[a] = ClaimedBy(U)[a]
    <3> DEFINE V == {x \in rest : x.area = a}
    <3>1. ClaimedBy(rest)[a] = MinutesOf(V) /\ ClaimedBy(U)[a] = MinutesOf({x \in U : x.area = a})
      BY DEF ClaimedBy
    <3>2. CASE a # last.area
      <4>1. {x \in U : x.area = a} = V
        BY <3>2
      <4> QED BY <1>1, <2>1, <2>3, <3>1, <3>2, <4>1
    <3>3. CASE a = last.area
      <4>1. {x \in U : x.area = a} = V \cup {last} /\ last \notin V
        BY <3>3
      <4>2. IsFiniteSet(V)
        <5>1. rest \in SUBSET inputs.demands
          OBVIOUS
        <5> HIDE DEF rest
        <5> QED BY <5>1, ClaimedByIsTyped
      <4>3. \A x \in V : x.minutes \in Nat
        BY <1>4
      <4>4. last.minutes \in Nat
        BY <1>4
      <4> HIDE DEF V
      <4>5. MinutesOf(V) \in Nat /\ MinutesOf(V \cup {last}) = last.minutes + MinutesOf(V)
        BY <4>1, <4>2, <4>3, <4>4, MinutesOfOneMore
      <4>6. new.claimed[a] = MinutesOf(V) + last.minutes
        BY <1>1, <2>1, <2>3, <3>1, <3>3
      <4>7. ClaimedBy(U)[a] = last.minutes + MinutesOf(V)
        BY <3>1, <4>1, <4>5
      <4>8. last.minutes + MinutesOf(V) = MinutesOf(V) + last.minutes
        BY <4>4, <4>5
      <4> QED BY <4>6, <4>7, <4>8
    <3> QED BY <3>2, <3>3
  <2>5. new.claimed \in [Areas -> Nat] /\ ClaimedBy(U) \in [Areas -> Nat]
    BY <1>2, ClaimedByIsTyped DEF WalkState
  <2> QED BY <2>4, <2>5
<1> QED BY <1>2, <1>9, <1>10 DEF WalkIsWhatIsSaid, new

LEMMA NoGapIsMet ==
    ASSUME NEW inputs, NEW F, Readable(inputs, F)
    PROVE  NoGapIn(DeadlineGaps(inputs)) <=> Met(inputs, inputs.demands)
<1> DEFINE S == inputs.demands
           pick == [U \in SUBSET S |-> LastDue(U)]
<1>1. PICK walk : Walks(inputs, walk)
  BY TheWalk
<1> DEFINE Good == {U \in SUBSET S : WalkIsWhatIsSaid(inputs, U, walk[U])}
<1>2. {} \in Good
  <2>1. walk[{}] = NothingWalked
    BY <1>1 DEF Walks
  <2>2. walk[{}] \in WalkState /\ NoGapIn(walk[{}].gaps) /\ walk[{}].claimed = [a \in Areas |-> 0]
    BY <2>1 DEF WalkState, NothingWalked, NoGapIn
  <2>3. Met(inputs, {})
    BY DEF Met
  <2>4. \A a \in Areas : MinutesOf({}) = 0 /\ {x \in {} : x.area = a} = {}
    <3>1. MinutesOf({}) = 0
      <4> DEFINE f == [x \in {} |-> x.minutes]
      <4>1. f \in [{} -> Nat] /\ IsFiniteSet({})
        BY FS_EmptySet
      <4> HIDE DEF f
      <4>2. PICK g : OneLess(f, {}, g)
        BY <4>1, SumOneLess
      <4> QED BY <4>2 DEF OneLess, MinutesOf, f
    <3> QED BY <3>1
  <2>5. ClaimedBy({}) = [a \in Areas |-> 0]
    BY <2>4 DEF ClaimedBy
  <2> QED BY <2>2, <2>3, <2>5 DEF WalkIsWhatIsSaid
<1>3. ASSUME NEW U \in SUBSET S, U # {}, U \ {pick[U]} \in Good PROVE U \in Good
  <2> DEFINE last == LastDue(U)
  <2>1. last \in U /\ \A d \in U \ {last} : EarlierDue(d, last)
    BY <1>3, LastDueIsLast
  <2>2. WalkIsWhatIsSaid(inputs, U \ {last}, walk[U \ {last}])
    BY <1>3
  <2>3. walk[U] = Walked(inputs, walk[U \ {last}], last)
    BY <1>1, <1>3 DEF Walks
  <2> HIDE DEF last, Good
  <2>4. WalkIsWhatIsSaid(inputs, U, Walked(inputs, walk[U \ {last}], last))
    BY <2>1, <2>2, WalkedIsWhatIsSaid
  <2> QED BY <2>3, <2>4 DEF Good
<1>4. \A U \in SUBSET S : U # {} => pick[U] \in U
  BY LastDueIsLast
<1>5. S \in Good
  <2>1. IsFiniteSet(S)
    BY DEF Readable
  <2> HIDE DEF pick, Good, S
  <2> QED BY <1>2, <1>3, <1>4, <2>1, SubsetInduction
<1> QED BY <1>1, <1>5 DEF Walks, WalkIsWhatIsSaid

-----------------------------------------------------------------------------
(* Where there is no more free time and no less is wanted, no figure of the probe improves. *)

Harder(i, F, j, E) ==
    /\ Readable(i, F) /\ Readable(j, E)
    /\ j.scoped = i.scoped
    /\ E \in SUBSET F
    /\ \A r \in i.reservations : \E s \in j.reservations : s.area = r.area /\ r.minutes <= s.minutes
    /\ \A x \in i.demands : \E y \in j.demands :
          y.deadline = x.deadline /\ y.area = x.area /\ x.minutes <= y.minutes

SameDue(x, y) == y.deadline = x.deadline /\ y.area = x.area /\ x.minutes <= y.minutes

LEMMA FlooredGrows ==
    ASSUME NEW x \in Int, NEW y \in Int, x <= y
    PROVE  Floored(x) <= Floored(y)
BY DEF Floored, Larger

LEMMA CompetitionGrows ==
    ASSUME NEW i, NEW F, NEW j, NEW E, Harder(i, F, j, E),
           NEW due \in i.demands, NEW owe \in j.demands, SameDue(due, owe),
           NEW c \in [Areas -> Nat], NEW d \in [Areas -> Nat], \A a \in Areas : c[a] <= d[a]
    PROVE  CompetitionBefore(i, due, c) <= CompetitionBefore(j, owe, d)
<1> DEFINE S == OthersOf(i, due)  T == OthersOf(j, owe)
           f == [r \in S |-> Larger(c[r.area], EarlyFloor(i, r, due.deadline))]
           g == [s \in T |-> Larger(d[s.area], EarlyFloor(j, s, owe.deadline))]
           m == [r \in S |-> CHOOSE s \in T : s.area = r.area /\ r.minutes <= s.minutes]
<1>1. Readable(i, F) /\ Readable(j, E) /\ E \in SUBSET F /\ F \in SUBSET Slots
  BY FormCounts DEF Harder, Readable
<1>2. due.deadline \in Nat /\ due.area \in Areas /\ owe.deadline = due.deadline /\ owe.area = due.area
  BY <1>1, BeforeADeadline DEF SameDue
<1>3. IsFiniteSet(S) /\ IsFiniteSet(T)
  BY <1>1, FS_Subset DEF OthersOf, Readable
<1>4. ASSUME NEW r \in S PROVE m[r] \in T /\ m[r].area = r.area /\ r.minutes <= m[r].minutes
  <2>1. \E s \in T : s.area = r.area /\ r.minutes <= s.minutes
    BY <1>2 DEF OthersOf, Harder
  <2> HIDE DEF T
  <2>2. m[r] = CHOOSE s \in T : s.area = r.area /\ r.minutes <= s.minutes
    OBVIOUS
  <2> HIDE DEF m, S
  <2> QED BY <2>1, <2>2
<1>5. ASSUME NEW r \in S
      PROVE  r \in i.reservations /\ r.area \in Areas /\ r.minutes \in Nat
             /\ EarlyFloor(i, r, due.deadline) \in Nat
             /\ EarlyFloor(i, r, due.deadline)
                  = Floored(r.minutes - Cardinality({t \in F : t >= due.deadline}))
  <2>1. r \in i.reservations /\ r.area \in Areas /\ r.minutes \in Nat
    BY <1>1 DEF OthersOf, Readable
  <2> QED BY <1>1, <1>2, <2>1, EarlyFloorIsCounted
<1>6. ASSUME NEW s \in T
      PROVE  s \in j.reservations /\ s.area \in Areas /\ s.minutes \in Nat
             /\ EarlyFloor(j, s, due.deadline) \in Nat
             /\ EarlyFloor(j, s, due.deadline)
                  = Floored(s.minutes - Cardinality({t \in E : t >= due.deadline}))
  <2>1. s \in j.reservations /\ s.area \in Areas /\ s.minutes \in Nat
    BY <1>1 DEF OthersOf, Readable
  <2> QED BY <1>1, <1>2, <2>1, EarlyFloorIsCounted
<1>7. f \in [S -> Nat]
  <2>1. \A r \in S : f[r] \in Nat
    BY <1>5 DEF Larger
  <2>2. f = [r \in S |-> f[r]]
    OBVIOUS
  <2> HIDE DEF f, S
  <2> QED BY <2>1, <2>2
<1>8. g \in [T -> Nat]
  <2>1. \A s \in T : g[s] \in Nat
    BY <1>2, <1>6 DEF Larger
  <2>2. g = [s \in T |-> g[s]]
    OBVIOUS
  <2> HIDE DEF g, T
  <2> QED BY <2>1, <2>2
<1>9. ASSUME NEW r \in S PROVE f[r] <= g[m[r]]
  <2> DEFINE s == m[r]  lateF == {t \in F : t >= due.deadline}  lateE == {t \in E : t >= due.deadline}
             x == EarlyFloor(i, r, due.deadline)  y == EarlyFloor(j, s, due.deadline)
  <2>1. s \in T /\ s.area = r.area /\ r.minutes <= s.minutes
    BY <1>4
  <2>2. Cardinality(lateE) \in Nat /\ Cardinality(lateF) \in Nat /\ Cardinality(lateE) <= Cardinality(lateF)
    <3>1. lateE \in SUBSET lateF /\ lateF \in SUBSET Slots /\ lateE \in SUBSET Slots
      BY <1>1
    <3> HIDE DEF lateE, lateF
    <3> QED BY <3>1, SlotsWithin, SetsOfSlots
  <2>3. x \in Nat /\ x = Floored(r.minutes - Cardinality(lateF)) /\ r.minutes \in Nat /\ r.area \in Areas
    BY <1>5
  <2>4. y \in Nat /\ y = Floored(s.minutes - Cardinality(lateE)) /\ s.minutes \in Nat
    <3> HIDE DEF s, T
    <3> QED BY <1>6, <2>1
  <2>5. f[r] = Larger(c[r.area], x)
    OBVIOUS
  <2>6. g[s] = Larger(d[s.area], y)
    <3> HIDE DEF s, T
    <3> QED BY <1>2, <2>1
  <2> HIDE DEF s, x, y, lateE, lateF, f, g
  <2>7. x <= y
    <3>1. r.minutes - Cardinality(lateF) \in Int /\ s.minutes - Cardinality(lateE) \in Int
          /\ r.minutes - Cardinality(lateF) <= s.minutes - Cardinality(lateE)
      BY <2>1, <2>2, <2>3, <2>4
    <3> QED BY <2>3, <2>4, <3>1, FlooredGrows
  <2>8. c[r.area] \in Nat /\ d[s.area] \in Nat /\ c[r.area] <= d[s.area]
    BY <2>1, <2>3
  <2>9. f[r] <= g[s]
    BY <2>3, <2>4, <2>5, <2>6, <2>7, <2>8 DEF Larger
  <2> QED BY <2>9 DEF s
<1>10. \A r, s \in S : m[r] = m[s] => r = s
  <2> SUFFICES ASSUME NEW r \in S, NEW s \in S, m[r] = m[s] PROVE r = s
    OBVIOUS
  <2>1. r.area = s.area
    BY <1>4
  <2> QED BY <1>1, <1>5, <2>1 DEF Readable
<1>11. m \in [S -> T]
  <2>1. m = [r \in S |-> m[r]]
    OBVIOUS
  <2> HIDE DEF m, S, T
  <2> QED BY <1>4, <2>1
<1>12. SumFunction(f) \in Nat /\ SumFunction(g) \in Nat /\ SumFunction(f) <= SumFunction(g)
  <2> HIDE DEF f, g, m, S, T
  <2>1. SumFunction(f) \in Nat /\ SumFunction(g) \in Nat
    BY <1>3, <1>7, <1>8, SumIsNatural
  <2>2. SumFunction(f) <= SumFunction(g)
    BY <1>3, <1>7, <1>8, <1>9, <1>10, <1>11, SumGrows
  <2> QED BY <2>1, <2>2
<1>13. CompetitionBefore(i, due, c) = c[due.area] + SumFunction(f)
       /\ CompetitionBefore(j, owe, d) = d[owe.area] + SumFunction(g)
  BY DEF CompetitionBefore
<1> HIDE DEF f, g
<1> QED BY <1>2, <1>12, <1>13

(* What is available of K within J falls with both and with what competes for it. *)
LEMMA LessIsLeft ==
    ASSUME NEW J1 \in SUBSET Slots, NEW K1 \in SUBSET J1, NEW J2 \in SUBSET J1, NEW K2,
           K2 = K1 \cap J2, NEW m1 \in Nat, NEW m2 \in Nat, m1 <= m2
    PROVE  /\ Floored(Cardinality(K1) - Floored(m1 - Cardinality(J1 \ K1))) \in Nat
           /\ Floored(Cardinality(K2) - Floored(m2 - Cardinality(J2 \ K2))) \in Nat
           /\ Floored(Cardinality(K2) - Floored(m2 - Cardinality(J2 \ K2)))
                <= Floored(Cardinality(K1) - Floored(m1 - Cardinality(J1 \ K1)))
<1> DEFINE k1 == Cardinality(K1)  k2 == Cardinality(K2)
           j1 == Cardinality(J1 \ K1)  j2 == Cardinality(J2 \ K2)
           x1 == Floored(m1 - j1)  x2 == Floored(m2 - j2)
<1>1. K1 \in SUBSET Slots /\ K2 \in SUBSET K1 /\ J1 \ K1 \in SUBSET Slots /\ J2 \ K2 \in SUBSET (J1 \ K1)
      /\ K2 \in SUBSET Slots /\ J2 \ K2 \in SUBSET Slots
  OBVIOUS
<1>2. k1 \in Nat /\ k2 \in Nat /\ j1 \in Nat /\ j2 \in Nat /\ k2 <= k1 /\ j2 <= j1
  BY <1>1, SetsOfSlots, SlotsWithin
<1> HIDE DEF k1, k2, j1, j2
<1>3. m1 - j1 \in Int /\ m2 - j2 \in Int /\ m1 - j1 <= m2 - j2
  BY <1>2
<1>4. x1 \in Nat /\ x2 \in Nat /\ x1 <= x2
  BY <1>3, FlooredFacts, FlooredGrows
<1> HIDE DEF x1, x2
<1>5. k1 - x1 \in Int /\ k2 - x2 \in Int /\ k2 - x2 <= k1 - x1
  BY <1>2, <1>4
<1>6. Floored(k1 - x1) \in Nat /\ Floored(k2 - x2) \in Nat /\ Floored(k2 - x2) <= Floored(k1 - x1)
  BY <1>5, FlooredFacts, FlooredGrows
<1> QED BY <1>6 DEF k1, k2, j1, j2, x1, x2

LEMMA GapGrows ==
    ASSUME NEW i, NEW F, NEW j, NEW E, Harder(i, F, j, E),
           NEW due \in i.demands, NEW owe \in j.demands, SameDue(due, owe),
           NEW c \in [Areas -> Nat], NEW d \in [Areas -> Nat], \A a \in Areas : c[a] <= d[a]
    PROVE  /\ GapOf(i, due, c) \in Nat /\ GapOf(j, owe, d) \in Nat
           /\ GapOf(i, due, c) <= GapOf(j, owe, d)
<1> DEFINE J1 == Early(F, due.deadline)  K1 == Early(FreeIn(i, F, due.area), due.deadline)
           J2 == Early(E, owe.deadline)  K2 == Early(FreeIn(j, E, owe.area), owe.deadline)
           m1 == CompetitionBefore(i, due, c)  m2 == CompetitionBefore(j, owe, d)
<1>1. Readable(i, F) /\ Readable(j, E) /\ E \in SUBSET F /\ F \in SUBSET Slots /\ j.scoped = i.scoped
  BY FormCounts DEF Harder, Readable
<1>2. /\ due.minutes \in Nat /\ owe.minutes \in Nat /\ due.minutes <= owe.minutes
      /\ owe.deadline = due.deadline /\ owe.area = due.area
  BY <1>1, BeforeADeadline DEF SameDue
<1>3. J1 \in SUBSET Slots /\ K1 \in SUBSET J1 /\ J2 \in SUBSET J1 /\ K2 = K1 \cap J2
  BY <1>1, <1>2 DEF Early, FreeIn
<1>4. m1 \in Nat /\ m2 \in Nat /\ m1 <= m2
  BY <1>1, CompetitionIsNatural, CompetitionGrows
<1>5. Available(i, due, c) = Floored(Cardinality(K1) - Floored(m1 - Cardinality(J1 \ K1)))
  BY <1>1, AvailableIsCounted
<1>6. Available(j, owe, d) = Floored(Cardinality(K2) - Floored(m2 - Cardinality(J2 \ K2)))
  BY <1>1, AvailableIsCounted
<1> HIDE DEF J1, K1, J2, K2, m1, m2
<1>7. /\ Floored(Cardinality(K1) - Floored(m1 - Cardinality(J1 \ K1))) \in Nat
      /\ Floored(Cardinality(K2) - Floored(m2 - Cardinality(J2 \ K2))) \in Nat
      /\ Floored(Cardinality(K2) - Floored(m2 - Cardinality(J2 \ K2)))
           <= Floored(Cardinality(K1) - Floored(m1 - Cardinality(J1 \ K1)))
  <2>1. J1 \in SUBSET Slots
    BY <1>1 DEF Early, J1
  <2> QED BY <1>3, <1>4, <2>1, LessIsLeft
<1>8. /\ due.minutes - Available(i, due, c) \in Int /\ owe.minutes - Available(j, owe, d) \in Int
      /\ due.minutes - Available(i, due, c) <= owe.minutes - Available(j, owe, d)
  BY <1>2, <1>5, <1>6, <1>7
<1> QED BY <1>8, FlooredFacts, FlooredGrows DEF GapOf

LEMMA MinutesOfGrows ==
    ASSUME NEW S, IsFiniteSet(S), \A x \in S : x.minutes \in Nat,
           NEW T, IsFiniteSet(T), \A y \in T : y.minutes \in Nat,
           NEW m \in [S -> T], \A x, y \in S : m[x] = m[y] => x = y,
           \A x \in S : x.minutes <= m[x].minutes
    PROVE  MinutesOf(S) \in Nat /\ MinutesOf(T) \in Nat /\ MinutesOf(S) <= MinutesOf(T)
<1> DEFINE f == [x \in S |-> x.minutes]  g == [y \in T |-> y.minutes]
<1>1. f \in [S -> Nat] /\ g \in [T -> Nat] /\ \A x \in S : f[x] <= g[m[x]]
  OBVIOUS
<1>2. MinutesOf(S) = SumFunction(f) /\ MinutesOf(T) = SumFunction(g)
  BY DEF MinutesOf
<1> HIDE DEF f, g
<1>3. SumFunction(f) <= SumFunction(g)
  BY <1>1, SumGrows
<1> QED BY <1>1, <1>2, <1>3, SumIsNatural

(* The demands of one set are found among those of another, with no fewer minutes. *)
LEMMA DemandsGrow ==
    ASSUME NEW i, NEW F, NEW j, NEW E, Harder(i, F, j, E),
           NEW S \in SUBSET i.demands, NEW T \in SUBSET j.demands,
           \A x \in S, y \in j.demands : SameDue(x, y) => y \in T
    PROVE  MinutesOf(S) \in Nat /\ MinutesOf(T) \in Nat /\ MinutesOf(S) <= MinutesOf(T)
<1> DEFINE m == [x \in S |-> CHOOSE y \in T : SameDue(x, y)]
<1>1. Readable(i, F) /\ Readable(j, E)
  BY DEF Harder
<1>2. ASSUME NEW x \in S PROVE m[x] \in T /\ SameDue(x, m[x])
  <2>1. \E y \in T : SameDue(x, y)
    BY DEF Harder, SameDue
  <2>2. m[x] = CHOOSE y \in T : SameDue(x, y)
    OBVIOUS
  <2> HIDE DEF m
  <2> QED BY <2>1, <2>2
<1>3. m = [x \in S |-> m[x]]
  OBVIOUS
<1> HIDE DEF m
<1>4. m \in [S -> T] /\ \A x \in S : x.minutes <= m[x].minutes
  BY <1>2, <1>3 DEF SameDue
<1>5. \A x, y \in S : m[x] = m[y] => x = y
  <2> SUFFICES ASSUME NEW x \in S, NEW y \in S, m[x] = m[y] PROVE x = y
    OBVIOUS
  <2>1. SameDue(x, m[x]) /\ SameDue(y, m[y])
    BY <1>2
  <2>2. x.deadline = y.deadline /\ x.area = y.area
    BY <2>1 DEF SameDue
  <2> QED BY <1>1, <2>2 DEF Readable
<1>6. IsFiniteSet(S) /\ \A x \in S : x.minutes \in Nat
  BY <1>1, FS_Subset DEF Readable
<1>7. IsFiniteSet(T) /\ \A x \in T : x.minutes \in Nat
  BY <1>1, FS_Subset DEF Readable
<1> QED BY <1>4, <1>5, <1>6, <1>7, MinutesOfGrows

LEMMA ClaimedByGrows ==
    ASSUME NEW i, NEW F, NEW j, NEW E, Harder(i, F, j, E),
           NEW due \in i.demands, NEW owe \in j.demands, SameDue(due, owe)
    PROVE  /\ ClaimedBy(Sooner(i, due)) \in [Areas -> Nat]
           /\ ClaimedBy(Sooner(j, owe)) \in [Areas -> Nat]
           /\ \A a \in Areas : ClaimedBy(Sooner(i, due))[a] <= ClaimedBy(Sooner(j, owe))[a]
<1>1. Readable(i, F) /\ Readable(j, E)
  BY DEF Harder
<1>2. Sooner(i, due) \in SUBSET i.demands /\ Sooner(j, owe) \in SUBSET j.demands
  BY DEF Sooner
<1>3. ClaimedBy(Sooner(i, due)) \in [Areas -> Nat] /\ ClaimedBy(Sooner(j, owe)) \in [Areas -> Nat]
  BY <1>1, <1>2, ClaimedByIsTyped
<1>4. ASSUME NEW a \in Areas PROVE ClaimedBy(Sooner(i, due))[a] <= ClaimedBy(Sooner(j, owe))[a]
  <2> DEFINE S == {x \in Sooner(i, due) : x.area = a}  T == {y \in Sooner(j, owe) : y.area = a}
  <2>1. S \in SUBSET i.demands /\ T \in SUBSET j.demands
    BY <1>2
  <2>2. ASSUME NEW x \in S, NEW y \in j.demands, SameDue(x, y) PROVE y \in T
    BY <2>2 DEF Sooner, SameDue, EarlierDue
  <2>3. MinutesOf(S) <= MinutesOf(T)
    <3> HIDE DEF S, T
    <3> QED BY <2>1, <2>2, DemandsGrow
  <2> QED BY <2>3 DEF ClaimedBy
<1> QED BY <1>3, <1>4

LEMMA FloorsGapGrows ==
    ASSUME NEW i, NEW F, NEW j, NEW E, Harder(i, F, j, E)
    PROVE  FloorsGap(i) \in Nat /\ FloorsGap(j) \in Nat /\ FloorsGap(i) <= FloorsGap(j)
<1> DEFINE R == i.reservations  S == j.reservations
           m == [r \in R |-> CHOOSE s \in S : s.area = r.area /\ r.minutes <= s.minutes]
<1>1. Readable(i, F) /\ Readable(j, E)
  BY DEF Harder
<1>2. ASSUME NEW r \in R PROVE m[r] \in S /\ m[r].area = r.area /\ r.minutes <= m[r].minutes
  <2>1. \E s \in S : s.area = r.area /\ r.minutes <= s.minutes
    BY DEF Harder
  <2>2. m[r] = CHOOSE s \in S : s.area = r.area /\ r.minutes <= s.minutes
    OBVIOUS
  <2> HIDE DEF m
  <2> QED BY <2>1, <2>2
<1>3. m = [r \in R |-> m[r]]
  OBVIOUS
<1> HIDE DEF m
<1>4. m \in [R -> S] /\ \A r \in R : r.minutes <= m[r].minutes
  BY <1>2, <1>3
<1>5. \A x, y \in R : m[x] = m[y] => x = y
  BY <1>1, <1>2 DEF Readable
<1>6. IsFiniteSet(R) /\ (\A x \in R : x.minutes \in Nat) /\ IsFiniteSet(S) /\ \A x \in S : x.minutes \in Nat
  BY <1>1 DEF Readable
<1>7. MinutesOf(R) \in Nat /\ MinutesOf(S) \in Nat /\ MinutesOf(R) <= MinutesOf(S)
  <2>1. \A x \in R : x.minutes \in Nat
    BY <1>6
  <2>2. \A y \in S : y.minutes \in Nat
    BY <1>6
  <2>3. \A r \in R : r.minutes <= m[r].minutes
    BY <1>4
  <2> HIDE DEF R, S
  <2> QED BY <1>4, <1>5, <1>6, <2>1, <2>2, <2>3, MinutesOfGrows
<1>8. TotalMinutes(i.free) = Cardinality(F) /\ TotalMinutes(j.free) = Cardinality(E)
      /\ Cardinality(F) \in Nat /\ Cardinality(E) \in Nat /\ Cardinality(E) <= Cardinality(F)
  BY <1>1, FormCounts, SlotsWithin DEF Readable, Harder
<1> DEFINE x == MinutesOf(R) - TotalMinutes(i.free)  y == MinutesOf(S) - TotalMinutes(j.free)
<1>9. x \in Int /\ y \in Int /\ x <= y
  BY <1>7, <1>8
<1>10. FloorsGap(i) = Floored(x) /\ FloorsGap(j) = Floored(y)
  BY DEF FloorsGap
<1> HIDE DEF x, y
<1> QED BY <1>9, <1>10, FlooredFacts, FlooredGrows

LEMMA AreaGapGrows ==
    ASSUME NEW i, NEW F, NEW j, NEW E, Harder(i, F, j, E),
           NEW r \in i.reservations, NEW s \in j.reservations, s.area = r.area, r.minutes <= s.minutes
    PROVE  AreaGap(i, r) \in Nat /\ AreaGap(j, s) \in Nat /\ AreaGap(i, r) <= AreaGap(j, s)
<1> DEFINE K1 == FreeIn(i, F, r.area)  K2 == FreeIn(j, E, s.area)
           S == {due \in i.demands : due.area # r.area}  T == {due \in j.demands : due.area # s.area}
           m1 == MinutesOf(S)  m2 == MinutesOf(T)
           x == Floored(Cardinality(K1) - Floored(m1 - Cardinality(F \ K1)))
           y == Floored(Cardinality(K2) - Floored(m2 - Cardinality(E \ K2)))
<1>1. Readable(i, F) /\ Readable(j, E) /\ E \in SUBSET F /\ F \in SUBSET Slots /\ j.scoped = i.scoped
  BY FormCounts DEF Harder, Readable
<1>2. r.minutes \in Nat /\ s.minutes \in Nat
  BY <1>1 DEF Readable
<1>3. K1 \in SUBSET F /\ K2 = K1 \cap E
  BY <1>1 DEF FreeIn
<1>4. m1 \in Nat /\ m2 \in Nat /\ m1 <= m2
  <2>1. S \in SUBSET i.demands /\ T \in SUBSET j.demands
    OBVIOUS
  <2>2. \A z \in S, t \in j.demands : SameDue(z, t) => t \in T
    BY DEF SameDue
  <2> HIDE DEF S, T
  <2> QED BY <2>1, <2>2, DemandsGrow
<1>5. AreaGap(i, r) = Floored(r.minutes - x)
  BY <1>1, AreaGapIsCounted
<1>6. AreaGap(j, s) = Floored(s.minutes - y)
  BY <1>1, AreaGapIsCounted
<1> HIDE DEF K1, K2, m1, m2
<1>7. x \in Nat /\ y \in Nat /\ y <= x
  BY <1>1, <1>3, <1>4, LessIsLeft
<1> HIDE DEF x, y
<1>8. r.minutes - x \in Int /\ s.minutes - y \in Int /\ r.minutes - x <= s.minutes - y
  BY <1>2, <1>7
<1> QED BY <1>5, <1>6, <1>8, FlooredFacts, FlooredGrows

(* The gaps of the walk: one for each demand, of what some earlier claims leave it, and of no *)
(* claims at all where no demand is earlier.                                                  *)
GapsOf(inputs, U, gaps) ==
    /\ IsFiniteSet(gaps)
    /\ gaps \in SUBSET [deadline: Nat, area: Areas, minutes: Nat]
    /\ \A gap \in gaps : \E due \in U, c \in [Areas -> Nat] :
          /\ gap = GapRecord(inputs, due, c)
          /\ (\A x \in U : ~EarlierDue(x, due)) => c = [a \in Areas |-> 0]
    /\ \A due \in U : \E c \in [Areas -> Nat] : GapRecord(inputs, due, c) \in gaps
WalkGives(inputs, U, walk) ==
    /\ walk \in WalkState
    /\ U = {} => walk.claimed = [a \in Areas |-> 0]
    /\ GapsOf(inputs, U, walk.gaps)

LEMMA WalkedGives ==
    ASSUME NEW inputs, NEW F, Readable(inputs, F), NEW U \in SUBSET inputs.demands, NEW last \in U,
           \A d \in U \ {last} : EarlierDue(d, last),
           NEW walk, WalkGives(inputs, U \ {last}, walk)
    PROVE  WalkGives(inputs, U, Walked(inputs, walk, last))
<1> DEFINE new == Walked(inputs, walk, last)  rest == U \ {last}
           c0 == walk.claimed  one == GapRecord(inputs, last, c0)
<1>1. walk \in WalkState /\ c0 \in [Areas -> Nat] /\ GapsOf(inputs, rest, walk.gaps)
  BY DEF WalkGives, WalkState
<1>2. new \in WalkState /\ new.gaps = walk.gaps \cup {one}
  BY <1>1, WalkedIsTyped
<1> HIDE DEF new
<1>3. IsFiniteSet(new.gaps)
  <2>1. IsFiniteSet(walk.gaps)
    BY <1>1 DEF GapsOf
  <2> QED BY <1>2, <2>1, FS_AddElement
<1>4. ASSUME NEW gap \in new.gaps
      PROVE  \E due \in U, c \in [Areas -> Nat] :
                /\ gap = GapRecord(inputs, due, c)
                /\ (\A x \in U : ~EarlierDue(x, due)) => c = [a \in Areas |-> 0]
  <2>1. CASE gap = one
    <3>1. (\A x \in U : ~EarlierDue(x, last)) => c0 = [a \in Areas |-> 0]
      BY DEF WalkGives
    <3> QED BY <1>1, <2>1, <3>1
  <2>2. CASE gap \in walk.gaps
    <3>1. PICK due \in rest, c \in [Areas -> Nat] :
              /\ gap = GapRecord(inputs, due, c)
              /\ (\A x \in rest : ~EarlierDue(x, due)) => c = [a \in Areas |-> 0]
      BY <1>1, <2>2 DEF GapsOf
    <3> QED BY <3>1
  <2> QED BY <1>2, <2>1, <2>2
<1>5. ASSUME NEW due \in U PROVE \E c \in [Areas -> Nat] : GapRecord(inputs, due, c) \in new.gaps
  <2>1. CASE due = last
    BY <1>1, <1>2, <2>1
  <2>2. CASE due # last
    BY <1>1, <1>2, <2>2 DEF GapsOf
  <2> QED BY <2>1, <2>2
<1>6. new.gaps \in SUBSET [deadline: Nat, area: Areas, minutes: Nat]
  BY <1>2 DEF WalkState
<1> QED BY <1>2, <1>3, <1>4, <1>5, <1>6 DEF WalkGives, GapsOf, new

LEMMA TheGaps ==
    ASSUME NEW inputs, NEW F, Readable(inputs, F)
    PROVE  GapsOf(inputs, inputs.demands, DeadlineGaps(inputs))
<1> DEFINE S == inputs.demands
           pick == [U \in SUBSET S |-> LastDue(U)]
<1>1. PICK walk : Walks(inputs, walk)
  BY TheWalk
<1> DEFINE Good == {U \in SUBSET S : WalkGives(inputs, U, walk[U])}
<1>2. {} \in Good
  <2>1. walk[{}] = NothingWalked
    BY <1>1 DEF Walks
  <2>2. walk[{}] \in WalkState /\ walk[{}].gaps = {} /\ walk[{}].claimed = [a \in Areas |-> 0]
    BY <2>1 DEF WalkState, NothingWalked
  <2>3. GapsOf(inputs, {}, {})
    BY FS_EmptySet DEF GapsOf
  <2> QED BY <2>2, <2>3 DEF WalkGives
<1>3. ASSUME NEW U \in SUBSET S, U # {}, U \ {pick[U]} \in Good PROVE U \in Good
  <2> DEFINE last == LastDue(U)
  <2>1. last \in U /\ \A d \in U \ {last} : EarlierDue(d, last)
    BY <1>3, LastDueIsLast
  <2>2. WalkGives(inputs, U \ {last}, walk[U \ {last}])
    BY <1>3
  <2>3. walk[U] = Walked(inputs, walk[U \ {last}], last)
    BY <1>1, <1>3 DEF Walks
  <2> HIDE DEF last, Good
  <2>4. WalkGives(inputs, U, Walked(inputs, walk[U \ {last}], last))
    BY <2>1, <2>2, WalkedGives
  <2> QED BY <2>3, <2>4 DEF Good
<1>4. \A U \in SUBSET S : U # {} => pick[U] \in U
  BY LastDueIsLast
<1>5. S \in Good
  <2>1. IsFiniteSet(S)
    BY DEF Readable
  <2> HIDE DEF pick, Good, S
  <2> QED BY <1>2, <1>3, <1>4, <2>1, SubsetInduction
<1> QED BY <1>1, <1>5 DEF Walks, WalkGives

LEMMA NotRefused ==
    ASSUME NEW inputs, NEW F, Readable(inputs, F)
    PROVE  ~Refuses(ProbeOf(inputs)) <=>
             FloorsGap(inputs) = 0 /\ NoGapIn(DeadlineGaps(inputs)) /\ NoGapIn(AreaGaps(inputs))
<1>1. Harder(inputs, F, inputs, F)
  BY DEF Harder, Readable
<1>2. FloorsGap(inputs) \in Nat
  BY <1>1, FloorsGapGrows
<1>3. \A gap \in DeadlineGaps(inputs) : gap.minutes \in Nat
  BY TheGaps DEF GapsOf
<1>4. \A gap \in AreaGaps(inputs) : gap.minutes \in Nat
  <2>1. \A r \in inputs.reservations : r.minutes \in Nat /\ r.minutes <= r.minutes
    BY DEF Readable
  <2>2. \A r \in inputs.reservations : AreaGap(inputs, r) \in Nat
    BY <1>1, <2>1, AreaGapGrows
  <2> QED BY <2>2 DEF AreaGaps
<1> QED BY <1>2, <1>3, <1>4 DEF Refuses, ProbeOf, NoGapIn

LEMMA HarderStaysRefused ==
    ASSUME NEW i, NEW F, NEW j, NEW E, Harder(i, F, j, E), Refuses(ProbeOf(i))
    PROVE  Refuses(ProbeOf(j))
<1>1. Readable(i, F) /\ Readable(j, E)
  BY DEF Harder
<1> SUFFICES ASSUME ~Refuses(ProbeOf(j)) PROVE ~Refuses(ProbeOf(i))
  OBVIOUS
<1>2. FloorsGap(j) = 0 /\ NoGapIn(DeadlineGaps(j)) /\ NoGapIn(AreaGaps(j))
  BY <1>1, NotRefused
<1>3. FloorsGap(i) = 0
  BY <1>2, FloorsGapGrows
<1>4. NoGapIn(AreaGaps(i))
  <2> SUFFICES ASSUME NEW r \in i.reservations PROVE AreaGap(i, r) = 0
    BY DEF NoGapIn, AreaGaps
  <2>1. PICK s \in j.reservations : s.area = r.area /\ r.minutes <= s.minutes
    BY DEF Harder
  <2>2. AreaGap(j, s) = 0
    <3> DEFINE gap == [area |-> s.area, minutes |-> AreaGap(j, s)]
    <3>1. gap \in AreaGaps(j)
      BY DEF AreaGaps
    <3>2. gap.minutes = 0
      BY <1>2, <3>1 DEF NoGapIn
    <3> QED BY <3>2
  <2> QED BY <2>1, <2>2, AreaGapGrows
<1>5. NoGapIn(DeadlineGaps(i))
  <2>1. Met(j, j.demands)
    BY <1>1, <1>2, NoGapIsMet
  <2> SUFFICES ASSUME NEW due \in i.demands PROVE GapOf(i, due, ClaimedBy(Sooner(i, due))) = 0
    BY <1>1, NoGapIsMet DEF Met, Sooner
  <2>2. PICK owe \in j.demands : SameDue(due, owe)
    BY DEF Harder, SameDue
  <2> DEFINE c == ClaimedBy(Sooner(i, due))  d == ClaimedBy(Sooner(j, owe))
  <2>3. c \in [Areas -> Nat] /\ d \in [Areas -> Nat] /\ \A a \in Areas : c[a] <= d[a]
    BY <2>2, ClaimedByGrows
  <2>4. GapOf(j, owe, d) = 0
    BY <2>1 DEF Met, Sooner
  <2> HIDE DEF c, d
  <2>5. GapOf(i, due, c) \in Nat /\ GapOf(j, owe, d) \in Nat /\ GapOf(i, due, c) <= GapOf(j, owe, d)
    BY <2>2, <2>3, GapGrows
  <2>6. GapOf(i, due, c) = 0
    BY <2>4, <2>5
  <2> QED BY <2>6 DEF c
<1> QED BY <1>1, <1>3, <1>4, <1>5, NotRefused

(* Nor the figures a verdict is compared by: the floors, each Area's, and the first deadline's. *)
LEMMA LargestIsNoSmaller ==
    ASSUME NEW gaps, IsFiniteSet(gaps), \A gap \in gaps : gap.minutes \in Nat,
           NEW one \in gaps
    PROVE  Largest(gaps) \in Nat /\ one.minutes <= Largest(gaps)
<1> DEFINE T == {gap.minutes : gap \in gaps}  f == [gap \in gaps |-> gap.minutes]
<1>1. T = {f[gap] : gap \in gaps} /\ f = [gap \in gaps |-> f[gap]]
  OBVIOUS
<1>2. IsFiniteSet(T)
  <2> HIDE DEF f, T
  <2> QED BY <1>1, ImageIsFinite
<1>3. T \in SUBSET Nat /\ one.minutes \in T
  OBVIOUS
<1>4. Largest(gaps) = Max(T)
  BY DEF Largest
<1> HIDE DEF T
<1>5. \E n \in T : \A m \in T : m <= n
  BY <1>2, <1>3, LargestOfFinite
<1>6. Max(T) \in T /\ \A m \in T : Max(T) >= m
  BY <1>5, <1>3 DEF Max
<1> QED BY <1>3, <1>4, <1>6

LEMMA HarderIsNoSmaller ==
    ASSUME NEW i, NEW F, NEW j, NEW E, Harder(i, F, j, E)
    PROVE  NoSmaller(ProbeOf(i), ProbeOf(j))
<1>1. Readable(i, F) /\ Readable(j, E)
  BY DEF Harder
<1>2. FloorsGap(j) >= FloorsGap(i)
  BY FloorsGapGrows
<1>3. ASSUME NEW gap \in FirstDue(DeadlineGaps(i))
      PROVE  Largest({g \in DeadlineGaps(j) : g.deadline = gap.deadline /\ g.area = gap.area}) >= gap.minutes
  <2>1. gap \in DeadlineGaps(i) /\ \A g \in DeadlineGaps(i) : g = gap \/ EarlierDue(gap, g)
    BY DEF FirstDue
  <2>2. GapsOf(i, i.demands, DeadlineGaps(i)) /\ GapsOf(j, j.demands, DeadlineGaps(j))
    BY <1>1, TheGaps
  <2>3. PICK due \in i.demands, c \in [Areas -> Nat] :
            /\ gap = GapRecord(i, due, c)
            /\ (\A x \in i.demands : ~EarlierDue(x, due)) => c = [a \in Areas |-> 0]
    BY <2>1, <2>2 DEF GapsOf
  <2>4. ASSUME NEW x \in i.demands PROVE ~EarlierDue(x, due)
    <3>1. PICK d \in [Areas -> Nat] : GapRecord(i, x, d) \in DeadlineGaps(i)
      BY <2>2 DEF GapsOf
    <3>2. /\ GapRecord(i, x, d).deadline = x.deadline /\ GapRecord(i, x, d).area = x.area
          /\ gap.deadline = due.deadline /\ gap.area = due.area
      BY <2>3 DEF GapRecord
    <3>3. x.deadline \in Nat /\ due.deadline \in Nat /\ x.area \in Nat /\ due.area \in Nat
      BY <1>1, BeforeADeadline, WeekBounds
    <3>4. (x.deadline = due.deadline /\ x.area = due.area) \/ EarlierDue(due, x)
      BY <2>1, <3>1, <3>2 DEF EarlierDue
    <3> QED BY <3>3, <3>4 DEF EarlierDue
  <2>5. PICK owe \in j.demands : SameDue(due, owe)
    BY DEF Harder, SameDue
  <2>6. PICK d \in [Areas -> Nat] : GapRecord(j, owe, d) \in DeadlineGaps(j)
    BY <2>2 DEF GapsOf
  <2>7. \A a \in Areas : c[a] <= d[a]
    BY <2>3, <2>4
  <2>8. GapOf(i, due, c) \in Nat /\ GapOf(j, owe, d) \in Nat /\ GapOf(i, due, c) <= GapOf(j, owe, d)
    BY <2>5, <2>7, GapGrows
  <2> DEFINE later == {g \in DeadlineGaps(j) : g.deadline = gap.deadline /\ g.area = gap.area}
             one == GapRecord(j, owe, d)
  <2>9. one \in later /\ one.minutes = GapOf(j, owe, d) /\ gap.minutes = GapOf(i, due, c)
    BY <2>3, <2>5, <2>6 DEF GapRecord, SameDue
  <2>10. IsFiniteSet(later)
    <3>1. IsFiniteSet(DeadlineGaps(j)) /\ later \in SUBSET DeadlineGaps(j)
      BY <2>2 DEF GapsOf
    <3> QED BY <3>1, FS_Subset
  <2>11. \A g \in later : g.minutes \in Nat
    BY <2>2 DEF GapsOf
  <2> HIDE DEF later, one
  <2>12. Largest(later) \in Nat /\ one.minutes <= Largest(later)
    BY <2>9, <2>10, <2>11, LargestIsNoSmaller
  <2>13. Largest(later) >= gap.minutes
    BY <2>8, <2>9, <2>12
  <2> QED BY <2>13 DEF later
<1>4. ASSUME NEW gap \in AreaGaps(i)
      PROVE  Largest({g \in AreaGaps(j) : g.area = gap.area}) >= gap.minutes
  <2>1. PICK r \in i.reservations : gap = [area |-> r.area, minutes |-> AreaGap(i, r)]
    BY DEF AreaGaps
  <2>2. PICK s \in j.reservations : s.area = r.area /\ r.minutes <= s.minutes
    BY DEF Harder
  <2>3. AreaGap(i, r) \in Nat /\ AreaGap(j, s) \in Nat /\ AreaGap(i, r) <= AreaGap(j, s)
    BY <2>2, AreaGapGrows
  <2> DEFINE f == [x \in j.reservations |-> [area |-> x.area, minutes |-> AreaGap(j, x)]]
             later == {g \in AreaGaps(j) : g.area = gap.area}
             one == f[s]
  <2>4. AreaGaps(j) = {f[x] : x \in j.reservations} /\ f = [x \in j.reservations |-> f[x]]
    BY DEF AreaGaps
  <2>5. one \in later /\ one.minutes = AreaGap(j, s) /\ gap.minutes = AreaGap(i, r)
    BY <2>1, <2>2 DEF AreaGaps
  <2>6. IsFiniteSet(later)
    <3>1. IsFiniteSet(j.reservations)
      BY <1>1 DEF Readable
    <3>2. IsFiniteSet(AreaGaps(j))
      <4> HIDE DEF f
      <4> QED BY <2>4, <3>1, ImageIsFinite
    <3>3. later \in SUBSET AreaGaps(j)
      OBVIOUS
    <3> QED BY <3>2, <3>3, FS_Subset
  <2>7. \A g \in later : g.minutes \in Nat
    <3>1. Harder(j, E, j, E) /\ \A x \in j.reservations : x.minutes \in Nat /\ x.minutes <= x.minutes
      BY <1>1 DEF Harder, Readable
    <3>2. \A x \in j.reservations : AreaGap(j, x) \in Nat
      BY <3>1, AreaGapGrows
    <3> QED BY <3>2 DEF AreaGaps
  <2> HIDE DEF later, one
  <2>8. Largest(later) \in Nat /\ one.minutes <= Largest(later)
    BY <2>5, <2>6, <2>7, LargestIsNoSmaller
  <2>9. Largest(later) >= gap.minutes
    BY <2>3, <2>5, <2>8
  <2> QED BY <2>9 DEF later
<1>5. Refuses(ProbeOf(i)) => Refuses(ProbeOf(j))
  BY HarderStaysRefused
<1> QED BY <1>2, <1>3, <1>4, <1>5 DEF NoSmaller, ProbeOf

-----------------------------------------------------------------------------
(* Two assemblies of one week: what makes the second harder than the first. *)

Placed(w) == UNION {CoveredBy(Maybe(PlacedAt(w, b))) : b \in Blocks}
ReadAs(w) ==
    /\ w.week \in Declarations /\ w.now \in Nat
    /\ \A b \in Blocks : /\ Maybe(PlacedAt(w, b)) \in SUBSET Interval
                         /\ Attributed(w, b) \in SUBSET Interval
    /\ Readable(ProbeInputs(w), SlotsOf(Free(w)))
    /\ SlotsOf(Free(w))
         = {t \in (0..(End - 1)) \ CoveredBy(w.week.taken) : t >= w.now} \ Placed(w)
    /\ \A c \in Contents : /\ Remaining(w, c) \in Nat /\ Work(w, c).done \in SUBSET Slots
                           /\ Remaining(w, c) = Floored(w.week.estimate[c] - Cardinality(Work(w, c).done))
    /\ \A a \in Areas : /\ AreaSlots(w, a) \in SUBSET Slots
                        /\ MinutesOfArea(w, a) = Cardinality(AreaSlots(w, a))
    /\ \A due \in Demands(w) :
          due.minutes = SumFunction([c \in Owed(w, due.deadline, due.area) |-> Remaining(w, c)])

LEMMA TheAssemblyIsRead == TypeOK => ReadAs(Assembly)
<1> SUFFICES ASSUME TypeOK PROVE ReadAs(Assembly)
  OBVIOUS
<1> DEFINE w == Assembly  F == SlotsOf(Free(w))  inputs == ProbeInputs(w)
<1>1. w.week \in Declarations /\ w.now \in Nat /\ w.week = week /\ w.now = now
  BY WeekDeclares, WeekOfAnAssembly
<1>2. \A b \in Blocks : Maybe(PlacedAt(w, b)) \in SUBSET Interval /\ Attributed(w, b) \in SUBSET Interval
  BY WeekOfAnAssembly, AttributedIntervals
<1>3. Readable(inputs, F)
  <2>1. /\ inputs.free = Free(w) /\ inputs.reservations = Reservations(w)
        /\ inputs.demands = Demands(w) /\ inputs.scoped = week.scoped
    BY WeekDeclares DEF ProbeInputs
  <2>2. Form(inputs.free, F) /\ inputs.scoped \in [Areas -> SUBSET Interval]
    <3>1. Form(Free(w), F)
      BY FreeIsAForm
    <3>2. week.scoped \in [Areas -> SUBSET Interval]
      BY WeekDeclares DEF Declarations
    <3> QED BY <2>1, <3>1, <3>2
  <2>3. /\ inputs.reservations \in SUBSET [area: Areas, minutes: Nat]
        /\ IsFiniteSet(inputs.reservations)
        /\ \A r, s \in inputs.reservations : r.area = s.area => r = s
    BY <2>1, TheReservations
  <2>4. /\ inputs.demands \in SUBSET [deadline: Nat, area: Areas, minutes: Nat]
        /\ IsFiniteSet(inputs.demands)
        /\ \A x, y \in inputs.demands : x.deadline = y.deadline /\ x.area = y.area => x = y
    BY <2>1, TheDemands
  <2> QED BY <2>2, <2>3, <2>4 DEF Readable
<1>4. F = {t \in (0..(End - 1)) \ CoveredBy(w.week.taken) : t >= w.now} \ Placed(w)
  <2>1. IntervalsAreTheirMinutes
    BY TheAlgebraIsThatOfTheMinutes
  <2> DEFINE blocks == UNION {Maybe(PlacedAt(w, b)) : b \in Blocks}
             placed == UNION {SlotsOf(<<i>>) : i \in blocks}
             taken == UNION {SlotsOf(<<i>>) : i \in week.taken}
  <2>2. F = {t \in (0..(End - 1)) \ taken : t >= now} \ placed
    BY <2>1, Zenon DEF IntervalsAreTheirMinutes, Covers
  <2>3. placed = CoveredBy(blocks) /\ taken = CoveredBy(week.taken)
    <3>1. blocks \in SUBSET Interval /\ week.taken \in SUBSET Interval
      BY <1>2, WeekOfAnAssembly
    <3> HIDE DEF blocks
    <3> QED BY <3>1, CoveredOneByOne
  <2>4. CoveredBy(blocks) = Placed(w)
    BY DEF CoveredBy, Placed
  <2> HIDE DEF placed, taken, F, w, blocks
  <2> QED BY <1>1, <2>2, <2>3, <2>4
<1>5. ASSUME NEW c \in Contents
      PROVE  /\ Remaining(w, c) \in Nat /\ Work(w, c).done \in SUBSET Slots
             /\ Remaining(w, c) = Floored(w.week.estimate[c] - Cardinality(Work(w, c).done))
  BY <1>1, RemainingIsNatural, RemainingIsCounted
<1>6. \A a \in Areas : /\ AreaSlots(w, a) \in SUBSET Slots
                       /\ MinutesOfArea(w, a) = Cardinality(AreaSlots(w, a))
  BY MinutesOfAreaAreCounted
<1>7. ASSUME NEW due \in Demands(w)
      PROVE  due.minutes = SumFunction([c \in Owed(w, due.deadline, due.area) |-> Remaining(w, c)])
  BY TheDemands
<1> HIDE DEF w, F, inputs
<1>8. ReadAs(w)
  BY <1>1, <1>2, <1>3, <1>4, <1>5, <1>6, <1>7 DEF ReadAs, F, inputs
<1> QED BY <1>8 DEF w

(* The slots given to an Area and done of a task, one by one. *)
LEMMA SlotsGiven ==
    ASSUME NEW w, ReadAs(w)
    PROVE  /\ \A a \in Areas, t \in Slots : t \in AreaSlots(w, a) <=>
                 \E b \in BlocksIn(a) : \/ t < w.now /\ t \in CoveredBy(Attributed(w, b))
                                        \/ t >= w.now /\ t \in CoveredBy(Maybe(PlacedAt(w, b)))
           /\ \A c \in Contents, t \in Slots : t \in Work(w, c).done <=>
                 t < w.week.deadline[c] /\ \E b \in BlocksOf(c) : t \in CoveredBy(Attributed(w, b))
<1>1. w.now \in Nat
  BY DEF ReadAs
<1>2. ASSUME NEW b \in Blocks
      PROVE  SlotsOf(SetOf(AreaSpan(w, b)))
               = {t \in CoveredBy(Attributed(w, b)) : t < w.now}
                     \cup {t \in CoveredBy(Maybe(PlacedAt(w, b))) : t >= w.now}
  <2> DEFINE x == Attributed(w, b)  y == Maybe(PlacedAt(w, b))
             xs == Before(SetOf(x), w.now)  ys == After(SetOf(y), w.now)
             xt == {t \in CoveredBy(x) : t < w.now}  yt == {t \in CoveredBy(y) : t >= w.now}
  <2>1. x \in SUBSET Interval /\ y \in SUBSET Interval
    BY DEF ReadAs
  <2> HIDE DEF x, y
  <2>2. Form(SetOf(x), CoveredBy(x)) /\ Form(SetOf(y), CoveredBy(y))
    BY <2>1, FormOfASet
  <2>3. Form(xs, xt) /\ Form(ys, yt)
    BY <1>1, <2>2, FormOfBefore, FormOfAfter
  <2> HIDE DEF xs, ys, xt, yt
  <2>4. /\ Members(xs) \in SUBSET Interval /\ CoveredBy(Members(xs)) = xt
        /\ Members(ys) \in SUBSET Interval /\ CoveredBy(Members(ys)) = yt
    BY <2>3, FormMembers
  <2>5. Form(SetOf(Members(xs) \cup Members(ys)), CoveredBy(Members(xs) \cup Members(ys)))
    BY <2>4, FormOfASet
  <2>6. CoveredBy(Members(xs) \cup Members(ys)) = xt \cup yt
    BY <2>4 DEF CoveredBy
  <2>7. AreaSpan(w, b) = Members(xs) \cup Members(ys)
    BY DEF AreaSpan, xs, ys, x, y
  <2> QED BY <2>5, <2>6, <2>7 DEF Form, xt, yt, x, y
<1>3. \A a \in Areas, t \in Slots : t \in AreaSlots(w, a) <=>
          \E b \in BlocksIn(a) : \/ t < w.now /\ t \in CoveredBy(Attributed(w, b))
                                 \/ t >= w.now /\ t \in CoveredBy(Maybe(PlacedAt(w, b)))
  <2> SUFFICES ASSUME NEW a \in Areas, NEW t \in Slots
               PROVE  t \in AreaSlots(w, a) <=>
                        \E b \in BlocksIn(a) : \/ t < w.now /\ t \in CoveredBy(Attributed(w, b))
                                               \/ t >= w.now /\ t \in CoveredBy(Maybe(PlacedAt(w, b)))
    OBVIOUS
  <2>1. t \in AreaSlots(w, a) <=> \E b \in BlocksIn(a) : t \in SlotsOf(SetOf(AreaSpan(w, b)))
    BY DEF AreaSlots
  <2>2. \A b \in BlocksIn(a) : t \in SlotsOf(SetOf(AreaSpan(w, b))) <=>
            \/ t < w.now /\ t \in CoveredBy(Attributed(w, b))
            \/ t >= w.now /\ t \in CoveredBy(Maybe(PlacedAt(w, b)))
    BY <1>2 DEF BlocksIn
  <2> QED BY <2>1, <2>2
<1>4. \A c \in Contents, t \in Slots : t \in Work(w, c).done <=>
          t < w.week.deadline[c] /\ \E b \in BlocksOf(c) : t \in CoveredBy(Attributed(w, b))
  <2> SUFFICES ASSUME NEW c \in Contents, NEW t \in Slots
               PROVE  t \in Work(w, c).done <=>
                        t < w.week.deadline[c] /\ \E b \in BlocksOf(c) : t \in CoveredBy(Attributed(w, b))
    OBVIOUS
  <2> DEFINE given == UNION {Attributed(w, b) : b \in BlocksOf(c)}
  <2>1. given \in SUBSET Interval
    BY DEF ReadAs, BlocksOf
  <2>2. SlotsOf(DoneOf(w, BlocksOf(c))) = CoveredBy(given)
    <3>1. Form(SetOf(given), CoveredBy(given))
      BY <2>1, FormOfASet
    <3> QED BY <3>1 DEF Form, DoneOf
  <2>3. t \in CoveredBy(given) <=> \E b \in BlocksOf(c) : t \in CoveredBy(Attributed(w, b))
    BY DEF CoveredBy
  <2>4. Work(w, c).done = {u \in SlotsOf(DoneOf(w, BlocksOf(c))) : u < w.week.deadline[c]}
    BY DEF Work
  <2> QED BY <2>2, <2>3, <2>4
<1> QED BY <1>3, <1>4

LEMMA DemandsAreOwed ==
    ASSUME NEW w
    PROVE  /\ \A x \in Demands(w) : \E c \in Contents :
                 /\ w.week.estimate[c] > 0 /\ Remaining(w, c) > 0
                 /\ x.deadline = w.week.deadline[c] /\ x.area = AreaOf[c]
           /\ \A c \in Contents : w.week.estimate[c] > 0 /\ Remaining(w, c) > 0 =>
                 \E y \in Demands(w) : y.deadline = w.week.deadline[c] /\ y.area = AreaOf[c]
<1> DEFINE owed == {d \in Contents : w.week.estimate[d] > 0 /\ Remaining(w, d) > 0}
           sum(d) == SumFunction([e \in {u \in owed : DueWith(w, d, u)} |-> Remaining(w, e)])
           demand(d) == [deadline |-> w.week.deadline[d], area |-> AreaOf[d], minutes |-> sum(d)]
<1>1. Demands(w) = {demand(d) : d \in owed}
  BY DEF Demands
<1>2. \A d : demand(d).deadline = w.week.deadline[d] /\ demand(d).area = AreaOf[d]
  OBVIOUS
<1>3. \A d : d \in owed <=> d \in Contents /\ w.week.estimate[d] > 0 /\ Remaining(w, d) > 0
  OBVIOUS
<1> HIDE DEF demand, owed
<1>4. ASSUME NEW x \in Demands(w)
      PROVE  \E c \in Contents : /\ w.week.estimate[c] > 0 /\ Remaining(w, c) > 0
                                 /\ x.deadline = w.week.deadline[c] /\ x.area = AreaOf[c]
  <2>1. PICK d \in owed : x = demand(d)
    BY <1>1
  <2> QED BY <1>2, <1>3, <2>1
<1>5. ASSUME NEW c \in Contents, w.week.estimate[c] > 0, Remaining(w, c) > 0
      PROVE  \E y \in Demands(w) : y.deadline = w.week.deadline[c] /\ y.area = AreaOf[c]
  <2>1. demand(c) \in Demands(w)
    BY <1>1, <1>3, <1>5
  <2> QED BY <1>2, <2>1
<1> QED BY <1>4, <1>5

LEMMA LessIsHarder ==
    ASSUME NEW w, ReadAs(w), NEW v, ReadAs(v), v.week = w.week,
           SlotsOf(Free(v)) \in SUBSET SlotsOf(Free(w)),
           \A a \in Areas : AreaSlots(v, a) \in SUBSET AreaSlots(w, a),
           \A c \in Contents : Work(v, c).done \in SUBSET Work(w, c).done
    PROVE  Harder(ProbeInputs(w), SlotsOf(Free(w)), ProbeInputs(v), SlotsOf(Free(v)))
<1> DEFINE i == ProbeInputs(w)  j == ProbeInputs(v)
<1>1. /\ i.reservations = Reservations(w) /\ i.demands = Demands(w) /\ i.scoped = w.week.scoped
      /\ j.reservations = Reservations(v) /\ j.demands = Demands(v) /\ j.scoped = w.week.scoped
  BY DEF ProbeInputs
<1>2. Readable(i, SlotsOf(Free(w))) /\ Readable(j, SlotsOf(Free(v)))
  BY DEF ReadAs
<1>3. /\ \A c \in Contents : w.week.estimate[c] \in Nat
      /\ \A a \in Areas : w.week.floor[a] \in Nat
  BY DEF ReadAs, Declarations
<1>4. ASSUME NEW c \in Contents
      PROVE  Remaining(w, c) \in Nat /\ Remaining(v, c) \in Nat /\ Remaining(w, c) <= Remaining(v, c)
  <2> DEFINE x == Cardinality(Work(w, c).done)  y == Cardinality(Work(v, c).done)
  <2>1. /\ Remaining(w, c) = Floored(w.week.estimate[c] - x)
        /\ Remaining(v, c) = Floored(w.week.estimate[c] - y)
        /\ Remaining(w, c) \in Nat /\ Remaining(v, c) \in Nat
    BY DEF ReadAs
  <2>2. x \in Nat /\ y \in Nat /\ y <= x
    <3>1. Work(w, c).done \in SUBSET Slots /\ Work(v, c).done \in SUBSET Slots
      BY DEF ReadAs
    <3> QED BY <3>1, SetsOfSlots, SlotsWithin
  <2> HIDE DEF x, y
  <2>3. w.week.estimate[c] - x \in Int /\ w.week.estimate[c] - y \in Int
        /\ w.week.estimate[c] - x <= w.week.estimate[c] - y
    BY <1>3, <2>2
  <2> QED BY <2>1, <2>3, FlooredGrows
<1>5. ASSUME NEW r \in Reservations(w)
      PROVE  \E s \in Reservations(v) : s.area = r.area /\ r.minutes <= s.minutes
  <2>1. PICK a \in Areas : r = [area |-> a, minutes |-> Floored(w.week.floor[a] - MinutesOfArea(w, a))]
    BY DEF Reservations
  <2> DEFINE x == MinutesOfArea(w, a)  y == MinutesOfArea(v, a)
             s == [area |-> a, minutes |-> Floored(w.week.floor[a] - y)]
  <2>2. s \in Reservations(v)
    BY DEF Reservations
  <2>3. x \in Nat /\ y \in Nat /\ y <= x
    <3>1. /\ AreaSlots(w, a) \in SUBSET Slots /\ x = Cardinality(AreaSlots(w, a))
          /\ AreaSlots(v, a) \in SUBSET Slots /\ y = Cardinality(AreaSlots(v, a))
      BY DEF ReadAs
    <3> HIDE DEF x, y
    <3> QED BY <3>1, SetsOfSlots, SlotsWithin
  <2>4. r.area = a /\ r.minutes = Floored(w.week.floor[a] - x)
    BY <2>1
  <2>5. s.area = a /\ s.minutes = Floored(w.week.floor[a] - y)
    OBVIOUS
  <2> HIDE DEF x, y, s
  <2>6. w.week.floor[a] - x \in Int /\ w.week.floor[a] - y \in Int
        /\ w.week.floor[a] - x <= w.week.floor[a] - y
    BY <1>3, <2>3
  <2>7. r.minutes <= s.minutes
    BY <2>4, <2>5, <2>6, FlooredGrows
  <2> QED BY <2>2, <2>4, <2>5, <2>7
<1>6. ASSUME NEW x \in Demands(w)
      PROVE  \E y \in Demands(v) :
                 y.deadline = x.deadline /\ y.area = x.area /\ x.minutes <= y.minutes
  <2>1. PICK c \in Contents :
            /\ w.week.estimate[c] > 0 /\ Remaining(w, c) > 0
            /\ x.deadline = w.week.deadline[c] /\ x.area = AreaOf[c]
    BY DemandsAreOwed
  <2>2. w.week.estimate[c] > 0 /\ Remaining(v, c) > 0
    BY <1>4, <2>1
  <2>3. PICK y \in Demands(v) : y.deadline = x.deadline /\ y.area = x.area
    BY <2>1, <2>2, DemandsAreOwed
  <2> DEFINE S == Owed(w, x.deadline, x.area)  T == Owed(v, x.deadline, x.area)
             f == [d \in S |-> Remaining(w, d)]  g == [d \in T |-> Remaining(v, d)]
             m == [d \in S |-> d]
  <2>4. x.minutes = SumFunction(f)
    BY DEF ReadAs
  <2>5. y.minutes = SumFunction(g)
    BY <2>3 DEF ReadAs
  <2>6. S \in SUBSET Contents /\ T \in SUBSET Contents /\ S \in SUBSET T
    BY <1>4 DEF Owed
  <2>7. f \in [S -> Nat] /\ g \in [T -> Nat] /\ \A d \in S : f[d] <= g[m[d]]
    <3> HIDE DEF S, T
    <3>1. f \in [S -> Nat]
      BY <1>4, <2>6
    <3>2. g \in [T -> Nat]
      BY <1>4, <2>6
    <3>3. ASSUME NEW d \in S PROVE f[d] <= g[m[d]]
      BY <1>4, <2>6
    <3> QED BY <3>1, <3>2, <3>3
  <2>8. IsFiniteSet(S) /\ IsFiniteSet(T)
    BY <2>6, WeekBounds, FS_Subset
  <2>9. m \in [S -> T] /\ \A d, e \in S : m[d] = m[e] => d = e
    <3> HIDE DEF S, T
    <3> QED BY <2>6
  <2> HIDE DEF f, g, m, S, T
  <2>10. SumFunction(f) <= SumFunction(g)
    BY <2>7, <2>8, <2>9, SumGrows
  <2> QED BY <2>3, <2>4, <2>5, <2>10
<1> HIDE DEF i, j
<1>7. Harder(i, SlotsOf(Free(w)), j, SlotsOf(Free(v)))
  BY <1>1, <1>2, <1>5, <1>6 DEF Harder
<1> QED BY <1>7 DEF i, j

(* What is not pinned or planned elsewhere leaves every figure as it was. *)
LEMMA SamePlacesSameVerdict ==
    ASSUME NEW w, NEW v, v.week = w.week, v.now = w.now, v.outcomes = w.outcomes,
           \A b \in Blocks : PlacedAt(v, b) = PlacedAt(w, b)
    PROVE  VerdictOf(v) = VerdictOf(w)
<1>1. \A b \in Blocks : Attributed(v, b) = Attributed(w, b)
  BY DEF Attributed
<1>2. \A b \in Blocks : AreaSpan(v, b) = AreaSpan(w, b)
  BY <1>1 DEF AreaSpan
<1>3. Free(v) = Free(w)
  <2>1. UNION {Maybe(PlacedAt(v, b)) : b \in Blocks} = UNION {Maybe(PlacedAt(w, b)) : b \in Blocks}
    OBVIOUS
  <2> QED BY <2>1 DEF Free, Discretionary, Committed
<1>4. Reservations(v) = Reservations(w)
  <2>1. ASSUME NEW a \in Areas PROVE MinutesOfArea(v, a) = MinutesOfArea(w, a)
    <3>1. UNION {AreaSpan(v, b) : b \in BlocksIn(a)} = UNION {AreaSpan(w, b) : b \in BlocksIn(a)}
      BY <1>2 DEF BlocksIn
    <3> QED BY <3>1 DEF MinutesOfArea
  <2> QED BY <2>1 DEF Reservations
<1>5. ASSUME NEW c \in Contents PROVE Remaining(v, c) = Remaining(w, c)
  <2>1. UNION {Attributed(v, b) : b \in BlocksOf(c)} = UNION {Attributed(w, b) : b \in BlocksOf(c)}
    BY <1>1 DEF BlocksOf
  <2> QED BY <2>1 DEF Remaining, DoneOf
<1>6. Demands(v) = Demands(w)
  <2> DEFINE owed(u) == {c \in Contents : u.week.estimate[c] > 0 /\ Remaining(u, c) > 0}
             f(u, c) == [d \in {x \in owed(u) : DueWith(u, c, x)} |-> Remaining(u, d)]
  <2>1. owed(v) = owed(w)
    BY <1>5
  <2>2. ASSUME NEW c \in owed(w) PROVE f(v, c) = f(w, c)
    <3>1. {x \in owed(v) : DueWith(v, c, x)} = {x \in owed(w) : DueWith(w, c, x)}
      BY <2>1 DEF DueWith
    <3>2. \A d \in {x \in owed(w) : DueWith(w, c, x)} : Remaining(v, d) = Remaining(w, d)
      BY <1>5
    <3> HIDE DEF owed
    <3> QED BY <3>1, <3>2
  <2>3. /\ Demands(v) = {[deadline |-> w.week.deadline[c], area |-> AreaOf[c],
                          minutes |-> SumFunction(f(v, c))] : c \in owed(v)}
        /\ Demands(w) = {[deadline |-> w.week.deadline[c], area |-> AreaOf[c],
                          minutes |-> SumFunction(f(w, c))] : c \in owed(w)}
    BY DEF Demands
  <2> HIDE DEF owed, f
  <2> QED BY <2>1, <2>2, <2>3
<1> QED BY <1>3, <1>4, <1>6 DEF VerdictOf, ProbeInputs

(* A slot still to come that is given to a block is one the block stands on, unless an outcome *)
(* says otherwise.                                                                            *)
NotAhead(w) ==
    \A b \in Blocks : w.outcomes[b].state \in {"partial", "moved"} =>
        \A t \in CoveredBy(Attributed(w, b)) : t < w.now

LEMMA AheadIsPlaced ==
    ASSUME NEW w, ReadAs(w), NotAhead(w), NEW b \in Blocks,
           NEW t \in CoveredBy(Attributed(w, b)), t >= w.now
    PROVE  t \in CoveredBy(Maybe(PlacedAt(w, b)))
<1>1. t \in Nat /\ w.now \in Nat
  BY SlotBound DEF CoveredBy, Slots, ReadAs
<1>2. w.outcomes[b].state \notin {"partial", "moved"}
  BY <1>1 DEF NotAhead
<1>3. Attributed(w, b) = {} \/ Attributed(w, b) = Maybe(PlacedAt(w, b))
  BY <1>2 DEF Attributed, Maybe
<1>4. CoveredBy({}) = {}
  BY DEF CoveredBy
<1> QED BY <1>3, <1>4

(* An hour that goes by counts only where a block stood, unless an outcome claimed it before. *)
LEMMA WaitingIsHarder ==
    ASSUME NEW w, ReadAs(w), NEW v, ReadAs(v), v.week = w.week, v.outcomes = w.outcomes,
           v.now = w.now + 1, \A b \in Blocks : PlacedAt(v, b) = PlacedAt(w, b), NotAhead(w)
    PROVE  Harder(ProbeInputs(w), SlotsOf(Free(w)), ProbeInputs(v), SlotsOf(Free(v)))
<1>1. w.now \in Nat /\ Slots \in SUBSET Nat
  BY DEF ReadAs, Slots
<1>2. \A b \in Blocks : Attributed(v, b) = Attributed(w, b)
  BY DEF Attributed
<1>3. SlotsOf(Free(v)) \in SUBSET SlotsOf(Free(w))
  <2>1. Placed(v) = Placed(w)
    BY DEF Placed
  <2>2. SlotsOf(Free(w)) = {t \in (0..(End - 1)) \ CoveredBy(w.week.taken) : t >= w.now} \ Placed(w)
    BY DEF ReadAs
  <2>3. SlotsOf(Free(v)) = {t \in (0..(End - 1)) \ CoveredBy(w.week.taken) : t >= w.now + 1} \ Placed(w)
    BY <2>1 DEF ReadAs
  <2>4. 0..(End - 1) \in SUBSET Nat
    BY WeekBounds
  <2> QED BY <1>1, <2>2, <2>3, <2>4
<1>4. ASSUME NEW b \in Blocks, NEW t \in CoveredBy(Attributed(w, b)), t >= w.now
      PROVE  t \in CoveredBy(Maybe(PlacedAt(w, b)))
  BY <1>4, AheadIsPlaced
<1>5. ASSUME NEW a \in Areas, NEW t \in AreaSlots(v, a) PROVE t \in AreaSlots(w, a)
  <2>1. t \in Slots /\ t \in Nat
    BY <1>1 DEF ReadAs
  <2>2. PICK b \in BlocksIn(a) : \/ t < w.now + 1 /\ t \in CoveredBy(Attributed(w, b))
                                 \/ t >= w.now + 1 /\ t \in CoveredBy(Maybe(PlacedAt(w, b)))
    BY <1>2, <2>1, SlotsGiven DEF BlocksIn
  <2>3. \/ t < w.now /\ t \in CoveredBy(Attributed(w, b))
        \/ t >= w.now /\ t \in CoveredBy(Maybe(PlacedAt(w, b)))
    BY <1>1, <1>4, <2>1, <2>2 DEF BlocksIn
  <2> QED BY <2>1, <2>3, SlotsGiven
<1>6. ASSUME NEW c \in Contents, NEW t \in Work(v, c).done PROVE t \in Work(w, c).done
  <2>1. t \in Slots
    BY DEF ReadAs
  <2>2. t < w.week.deadline[c] /\ \E b \in BlocksOf(c) : t \in CoveredBy(Attributed(w, b))
    BY <1>2, <2>1, SlotsGiven DEF BlocksOf
  <2> QED BY <2>1, <2>2, SlotsGiven
<1>7. \A a \in Areas : AreaSlots(v, a) \in SUBSET AreaSlots(w, a)
  BY <1>5
<1>8. \A c \in Contents : Work(v, c).done \in SUBSET Work(w, c).done
  BY <1>6
<1> QED BY <1>3, <1>7, <1>8, LessIsHarder

LEMMA LessDoneIsHarder ==
    ASSUME NEW w, ReadAs(w), NEW v, ReadAs(v), v.week = w.week, v.now = w.now,
           \A b \in Blocks : PlacedAt(v, b) = PlacedAt(w, b),
           \A b \in Blocks : Attributed(v, b) \in SUBSET Attributed(w, b)
    PROVE  Harder(ProbeInputs(w), SlotsOf(Free(w)), ProbeInputs(v), SlotsOf(Free(v)))
<1>1. SlotsOf(Free(v)) \in SUBSET SlotsOf(Free(w))
  <2>1. Placed(v) = Placed(w)
    BY DEF Placed
  <2> QED BY <2>1 DEF ReadAs
<1>2. \A b \in Blocks : CoveredBy(Attributed(v, b)) \in SUBSET CoveredBy(Attributed(w, b))
  BY DEF CoveredBy
<1>3. ASSUME NEW a \in Areas, NEW t \in AreaSlots(v, a) PROVE t \in AreaSlots(w, a)
  <2>1. t \in Slots
    BY DEF ReadAs
  <2>2. PICK b \in BlocksIn(a) : \/ t < w.now /\ t \in CoveredBy(Attributed(v, b))
                                 \/ t >= w.now /\ t \in CoveredBy(Maybe(PlacedAt(w, b)))
    BY <2>1, SlotsGiven DEF BlocksIn
  <2>3. \/ t < w.now /\ t \in CoveredBy(Attributed(w, b))
        \/ t >= w.now /\ t \in CoveredBy(Maybe(PlacedAt(w, b)))
    BY <1>2, <2>2 DEF BlocksIn
  <2> QED BY <2>1, <2>3, SlotsGiven
<1>4. ASSUME NEW c \in Contents, NEW t \in Work(v, c).done PROVE t \in Work(w, c).done
  <2>1. t \in Slots
    BY DEF ReadAs
  <2>2. t < w.week.deadline[c] /\ \E b \in BlocksOf(c) : t \in CoveredBy(Attributed(v, b))
    BY <2>1, SlotsGiven
  <2>3. \E b \in BlocksOf(c) : t \in CoveredBy(Attributed(w, b))
    BY <1>2, <2>2 DEF BlocksOf
  <2> QED BY <2>1, <2>2, <2>3, SlotsGiven
<1>5. \A a \in Areas : AreaSlots(v, a) \in SUBSET AreaSlots(w, a)
  BY <1>3
<1>6. \A c \in Contents : Work(v, c).done \in SUBSET Work(w, c).done
  BY <1>4
<1> QED BY <1>1, <1>5, <1>6, LessIsHarder

-----------------------------------------------------------------------------
(* Totals that fit can be given out: each want, the earliest deadlines first, takes as many   *)
(* slots before its deadline as the wants due no later have left.                             *)

SumOver(U, rem) == SumFunction([x \in U |-> rem[x]])
GivenOut(S, rem, dl, F, D) ==
    /\ \A x \in S : D[x] \in SUBSET Early(F, dl[x]) /\ Cardinality(D[x]) = rem[x]
    /\ \A x, y \in S : x # y => D[x] \cap D[y] = {}

LEMMA SetOfSize ==
    ASSUME NEW S, IsFiniteSet(S), NEW n \in Nat, n <= Cardinality(S)
    PROVE  \E T \in SUBSET S : Cardinality(T) = n
<1>1. Cardinality(S) \in Nat /\ ExistsBijection(1..Cardinality(S), S)
  BY FS_CardinalityType
<1>2. PICK f : f \in Bijection(1..Cardinality(S), S)
  BY <1>1 DEF ExistsBijection
<1>3. /\ f \in [1..Cardinality(S) -> S]
      /\ \A k, m \in 1..Cardinality(S) : f[k] = f[m] => k = m
  BY <1>2 DEF Bijection, Injection, IsInjective
<1> DEFINE T == {f[k] : k \in 1..n}  g == [k \in 1..n |-> f[k]]
<1>4. \A k \in 1..n : k \in 1..Cardinality(S)
  BY <1>1
<1>5. T \in SUBSET S
  BY <1>3, <1>4
<1>6. g \in Bijection(1..n, T)
  <2>1. g \in [1..n -> T]
    OBVIOUS
  <2>2. \A k, m \in 1..n : g[k] = g[m] => k = m
    BY <1>3, <1>4
  <2>3. \A t \in T : \E k \in 1..n : g[k] = t
    OBVIOUS
  <2> HIDE DEF g, T
  <2> QED BY <2>1, <2>2, <2>3 DEF Bijection, Injection, Surjection, IsInjective
<1>7. IsFiniteSet(1..n) /\ Cardinality(1..n) = n
  BY FS_Interval
<1>8. ExistsBijection(1..n, T)
  BY <1>6 DEF ExistsBijection
<1> HIDE DEF T
<1>9. Cardinality(T) = n
  BY <1>7, <1>8, FS_Bijection
<1> QED BY <1>5, <1>9

LEMMA SumOverOneMore ==
    ASSUME NEW S, IsFiniteSet(S), NEW rem \in [S -> Nat],
           NEW U \in SUBSET S, NEW c \in U
    PROVE  /\ SumOver(U \ {c}, rem) \in Nat
           /\ SumOver(U, rem) = rem[c] + SumOver(U \ {c}, rem)
<1> DEFINE rest == U \ {c}  f == [x \in U |-> rem[x]]  g == [x \in rest |-> rem[x]]
<1>1. IsFiniteSet(U) /\ IsFiniteSet(rest)
  <2>1. U \in SUBSET S /\ rest \in SUBSET S
    OBVIOUS
  <2> HIDE DEF rest
  <2> QED BY <2>1, FS_Subset
<1>2. f \in [U -> Nat] /\ g \in [rest -> Nat]
  OBVIOUS
<1>3. U = rest \cup {c} /\ c \notin rest /\ f[c] = rem[c]
  OBVIOUS
<1>7. \A y \in rest : g[y] = f[y]
  OBVIOUS
<1>4. SumOver(U, rem) = SumFunction(f) /\ SumOver(rest, rem) = SumFunction(g)
  BY DEF SumOver
<1> HIDE DEF f, g, rest
<1>5. SumFunction(f) = f[c] + SumFunction(g)
  BY <1>1, <1>2, <1>3, <1>7, SumOneMore
<1>6. SumFunction(g) \in Nat
  BY <1>1, <1>2, SumIsNatural
<1> QED BY <1>3, <1>4, <1>5, <1>6 DEF rest

LEMMA EarliestFirst ==
    ASSUME NEW S, IsFiniteSet(S), NEW F \in SUBSET Slots,
           NEW rem \in [S -> Nat], NEW dl \in [S -> Nat],
           \A U \in SUBSET S, c \in S :
               c \in U /\ (\A x \in U : dl[x] <= dl[c])
                   => SumOver(U, rem) <= Cardinality(Early(F, dl[c]))
    PROVE  \E D : GivenOut(S, rem, dl, F, D)
<1> DEFINE pick == [U \in SUBSET S |-> CHOOSE x \in U : \A y \in U : dl[y] <= dl[x]]
           used(U, D) == UNION {D[x] : x \in U}
           Good == {U \in SUBSET S : \E D : /\ GivenOut(U, rem, dl, F, D)
                                            /\ Cardinality(used(U, D)) = SumOver(U, rem)}
<1>1. ASSUME NEW U \in SUBSET S, U # {}
      PROVE  pick[U] \in U /\ \A y \in U : dl[y] <= dl[pick[U]]
  <2> DEFINE f == [x \in U |-> dl[x]]
  <2>1. IsFiniteSet(U) /\ f \in [U -> Nat]
    BY FS_Subset
  <2>2. \E x \in U : \A y \in U : f[y] <= f[x]
    <3> HIDE DEF f
    <3> QED BY <1>1, <2>1, LargestOfAFigure
  <2>3. \E x \in U : \A y \in U : dl[y] <= dl[x]
    BY <2>2
  <2>4. pick[U] = CHOOSE x \in U : \A y \in U : dl[y] <= dl[x]
    OBVIOUS
  <2> HIDE DEF pick
  <2> QED BY <2>3, <2>4
<1>2. {} \in Good
  <2> DEFINE D == [x \in {} |-> {}]
  <2>1. GivenOut({}, rem, dl, F, D)
    BY DEF GivenOut
  <2>2. used({}, D) = {} /\ Cardinality({}) = 0
    BY FS_EmptySet
  <2>3. SumOver({}, rem) = 0
    <3> DEFINE f == [x \in {} |-> rem[x]]
    <3>1. f \in [{} -> Nat] /\ IsFiniteSet({})
      BY FS_EmptySet
    <3> HIDE DEF f
    <3>2. PICK g : OneLess(f, {}, g)
      BY <3>1, SumOneLess
    <3> QED BY <3>2 DEF OneLess, SumOver, f
  <2>4. Cardinality(used({}, D)) = SumOver({}, rem)
    BY <2>2, <2>3
  <2> HIDE DEF D, used
  <2> QED BY <2>1, <2>4
<1>3. ASSUME NEW U \in SUBSET S, U # {}, U \ {pick[U]} \in Good PROVE U \in Good
  <2> DEFINE c == pick[U]  rest == U \ {c}  early == Early(F, dl[c])
  <2>1. c \in U /\ \A y \in U : dl[y] <= dl[c]
    BY <1>1, <1>3
  <2>2. PICK D : GivenOut(rest, rem, dl, F, D) /\ Cardinality(used(rest, D)) = SumOver(rest, rem)
    BY <1>3
  <2> HIDE DEF c, Good
  <2> DEFINE W == used(rest, D)
  <2>3. W \in SUBSET early /\ early \in SUBSET Slots
    <3>1. early \in SUBSET Slots
      BY DEF Early
    <3>2. ASSUME NEW x \in rest PROVE D[x] \in SUBSET early
      <4>1. D[x] \in SUBSET Early(F, dl[x])
        BY <2>2 DEF GivenOut
      <4>2. dl[x] \in Nat /\ dl[c] \in Nat /\ dl[x] <= dl[c]
        BY <2>1
      <4>3. \A t \in F : t \in Nat
        BY SlotBound DEF Slots
      <4> QED BY <4>1, <4>2, <4>3 DEF Early
    <3> QED BY <3>1, <3>2
  <2>4. SumOver(U, rem) = rem[c] + SumOver(rest, rem) /\ SumOver(rest, rem) \in Nat
    BY <2>1, SumOverOneMore
  <2>5. SumOver(U, rem) <= Cardinality(early)
    BY <2>1
  <2>6. Cardinality(W) = SumOver(rest, rem)
    BY <2>2
  <2>7. rem[c] \in Nat
    BY <2>1
  <2> HIDE DEF W, early, used
  <2>8. /\ early \ W \in SUBSET Slots /\ W \cap (early \ W) = {} /\ W \cup (early \ W) = early
        /\ W \in SUBSET Slots
    BY <2>3
  <2>9. /\ Cardinality(early) = Cardinality(W) + Cardinality(early \ W)
        /\ Cardinality(W) \in Nat /\ Cardinality(early \ W) \in Nat /\ IsFiniteSet(early \ W)
    BY <2>8, SlotsApart, SetsOfSlots
  <2>10. rem[c] <= Cardinality(early \ W)
    BY <2>4, <2>5, <2>6, <2>7, <2>9
  <2>11. PICK T \in SUBSET (early \ W) : Cardinality(T) = rem[c]
    BY <2>7, <2>9, <2>10, SetOfSize
  <2> DEFINE E == [x \in U |-> IF x = c THEN T ELSE D[x]]
  <2>12. \A x \in rest : E[x] = D[x] /\ D[x] \in SUBSET W
    <3>1. \A x \in rest : D[x] \in SUBSET used(rest, D)
      BY DEF used
    <3> QED BY <3>1 DEF W
  <2>13. E[c] = T
    BY <2>1
  <2>14. GivenOut(U, rem, dl, F, E)
    <3> HIDE DEF E
    <3>1. ASSUME NEW x \in U PROVE E[x] \in SUBSET Early(F, dl[x]) /\ Cardinality(E[x]) = rem[x]
      <4>1. CASE x = c
        BY <2>11, <2>13, <4>1 DEF early
      <4>2. CASE x # c
        BY <2>2, <2>12, <4>2 DEF GivenOut
      <4> QED BY <4>1, <4>2
    <3>2. ASSUME NEW x \in U, NEW y \in U, x # y PROVE E[x] \cap E[y] = {}
      <4>1. CASE x = c
        <5>1. E[y] \in SUBSET W
          BY <2>12, <3>2, <4>1
        <5> QED BY <2>11, <2>13, <4>1, <5>1
      <4>2. CASE y = c
        <5>1. E[x] \in SUBSET W
          BY <2>12, <3>2, <4>2
        <5> QED BY <2>11, <2>13, <4>2, <5>1
      <4>3. CASE x # c /\ y # c
        BY <2>2, <2>12, <3>2, <4>3 DEF GivenOut
      <4> QED BY <4>1, <4>2, <4>3
    <3> QED BY <3>1, <3>2 DEF GivenOut
  <2>15. used(U, E) = W \cup T
    <3> DEFINE before == UNION {E[x] : x \in rest}  all == UNION {E[x] : x \in U}
    <3>1. W = before
      BY <2>12 DEF used, W
    <3>2. \A t : t \in all <=> \E x \in U : t \in E[x]
      OBVIOUS
    <3>3. \A t : t \in before <=> \E x \in rest : t \in E[x]
      OBVIOUS
    <3>4. \A x : x \in U <=> x \in rest \/ x = c
      BY <2>1
    <3>5. used(U, E) = all
      BY DEF used
    <3> HIDE DEF E, rest, before, all
    <3>6. \A t : t \in all <=> t \in before \/ t \in E[c]
      BY <3>2, <3>3, <3>4, Zenon
    <3> QED BY <2>13, <3>1, <3>5, <3>6
  <2>16. Cardinality(W \cup T) = Cardinality(W) + Cardinality(T)
    <3>1. T \in SUBSET Slots /\ W \cap T = {}
      BY <2>8, <2>11
    <3> QED BY <2>8, <3>1, SlotsApart
  <2> HIDE DEF E, rest, c
  <2>17. Cardinality(used(U, E)) = SumOver(U, rem)
    BY <2>4, <2>6, <2>7, <2>9, <2>11, <2>15, <2>16
  <2> QED BY <2>14, <2>17 DEF Good
<1>4. S \in Good
  <2>1. \A U \in SUBSET S : U # {} => pick[U] \in U
    BY <1>1
  <2>2. \A U \in SUBSET S : U # {} /\ U \ {pick[U]} \in Good => U \in Good
    <3> HIDE DEF Good, pick
    <3> QED BY <1>3
  <2> HIDE DEF pick, Good
  <2> QED BY <1>2, <2>1, <2>2, SubsetInduction
<1> QED BY <1>4

-----------------------------------------------------------------------------
(* Where one Area alone wants time, what the totals leave can be given out. *)

Alone(w, a) ==
    /\ \A b \in Areas \ {a} : w.week.floor[b] = 0
    /\ \A c \in Contents : w.week.estimate[c] > 0 => AreaOf[c] = a
    /\ \A b \in Areas : w.week.scoped[b] = {}

LEMMA MinutesOfAreOver ==
    ASSUME NEW S, NEW U \in SUBSET S, NEW f, \A x \in S : f[x] = x.minutes
    PROVE  SumOver(U, f) = MinutesOf(U)
<1>1. [x \in U |-> f[x]] = [x \in U |-> x.minutes]
  OBVIOUS
<1> QED BY <1>1 DEF SumOver, MinutesOf

(* A sum over fewer is no larger. *)
LEMMA SumOverFewer ==
    ASSUME NEW S, IsFiniteSet(S), NEW rem \in [S -> Nat], NEW T \in SUBSET S, NEW U \in SUBSET T
    PROVE  SumOver(U, rem) \in Nat /\ SumOver(T, rem) \in Nat /\ SumOver(U, rem) <= SumOver(T, rem)
<1> DEFINE f == [x \in U |-> rem[x]]  g == [x \in T |-> rem[x]]  m == [x \in U |-> x]
<1>1. IsFiniteSet(T) /\ IsFiniteSet(U)
  BY FS_Subset
<1>2. f \in [U -> Nat] /\ g \in [T -> Nat] /\ m \in [U -> T]
  OBVIOUS
<1>3. \A x, y \in U : m[x] = m[y] => x = y
  OBVIOUS
<1>4. \A x \in U : f[x] <= g[m[x]]
  OBVIOUS
<1>5. SumOver(U, rem) = SumFunction(f) /\ SumOver(T, rem) = SumFunction(g)
  BY DEF SumOver
<1> HIDE DEF f, g, m
<1>6. SumFunction(f) \in Nat /\ SumFunction(g) \in Nat
  BY <1>1, <1>2, SumIsNatural
<1>7. SumFunction(f) <= SumFunction(g)
  BY <1>1, <1>2, <1>3, <1>4, SumGrows
<1> QED BY <1>5, <1>6, <1>7

(* The minutes due up to one deadline fit in the free slots before it. *)
LEMMA DuesFit ==
    ASSUME NEW w, ReadAs(w), NEW a \in Areas, Alone(w, a), ~Refuses(VerdictOf(w)),
           NEW due \in Demands(w), NEW U \in SUBSET Demands(w), due \in U,
           \A x \in U : x.deadline <= due.deadline
    PROVE  MinutesOf(U) \in Nat /\ MinutesOf(U) <= Cardinality(Early(SlotsOf(Free(w)), due.deadline))
<1> DEFINE i == ProbeInputs(w)  F == SlotsOf(Free(w))  owes == Demands(w)
           earlier == Sooner(i, due)  upto == earlier \cup {due}
           claimed == ClaimedBy(earlier)
           J == Early(F, due.deadline)  K == Early(FreeIn(i, F, due.area), due.deadline)
           comp == CompetitionBefore(i, due, claimed)
<1>1. Readable(i, F) /\ F \in SUBSET Slots /\ i.demands = owes /\ i.scoped = w.week.scoped
  BY FormCounts DEF ReadAs, Readable, ProbeInputs
<1>2. Met(i, owes)
  BY <1>1, NotRefused, NoGapIsMet DEF VerdictOf
<1>3. \A x \in owes : x.area = a /\ x.deadline \in Nat /\ x.minutes \in Nat
  <2>1. \A x \in owes : x.deadline \in Nat /\ x.minutes \in Nat
    BY <1>1, BeforeADeadline
  <2>2. \A x \in owes : x.area = a
    BY DemandsAreOwed DEF Alone
  <2> QED BY <2>1, <2>2
<1>4. \A x \in owes : x.deadline = due.deadline => x = due
  BY <1>1, <1>3 DEF Readable
<1>5. earlier \in SUBSET owes /\ due \notin earlier /\ upto \in SUBSET owes /\ IsFiniteSet(owes)
  BY <1>1, <1>3, WeekBounds DEF Sooner, EarlierDue, Readable
<1>6. U \in SUBSET upto
  <2> SUFFICES ASSUME NEW x \in U, x # due PROVE x \in earlier
    OBVIOUS
  <2>1. x.deadline \in Nat /\ due.deadline \in Nat /\ x.deadline <= due.deadline
        /\ x.deadline # due.deadline
    BY <1>3, <1>4
  <2>2. x.deadline < due.deadline
    BY <2>1
  <2> QED BY <1>1, <2>2 DEF Sooner, EarlierDue
<1>7. MinutesOf(U) \in Nat /\ MinutesOf(upto) \in Nat /\ MinutesOf(U) <= MinutesOf(upto)
  <2> DEFINE f == [x \in owes |-> x.minutes]
  <2>1. f \in [owes -> Nat]
    BY <1>3
  <2>2. \A x \in owes : f[x] = x.minutes
    OBVIOUS
  <2> HIDE DEF f, upto, owes
  <2>3. SumOver(U, f) = MinutesOf(U) /\ SumOver(upto, f) = MinutesOf(upto)
    BY <1>5, <1>6, <2>2, MinutesOfAreOver DEF owes
  <2> QED BY <1>5, <1>6, <2>1, <2>3, SumOverFewer
<1>8. MinutesOf(earlier) \in Nat /\ MinutesOf(upto) = due.minutes + MinutesOf(earlier)
  <2>1. IsFiniteSet(earlier) /\ \A x \in earlier : x.minutes \in Nat
    BY <1>3, <1>5, FS_Subset
  <2>2. due.minutes \in Nat
    BY <1>3
  <2> HIDE DEF earlier
  <2> QED BY <1>5, <2>1, <2>2, MinutesOfOneMore DEF upto
<1>9. claimed \in [Areas -> Nat] /\ claimed[due.area] = MinutesOf(earlier)
  <2>1. claimed \in [Areas -> Nat]
    BY <1>1, <1>5, ClaimedByIsTyped
  <2>2. {x \in earlier : x.area = due.area} = earlier
    BY <1>3, <1>5
  <2> QED BY <1>3, <2>2, <2>1 DEF ClaimedBy
<1>10. comp \in Nat /\ comp >= MinutesOf(earlier)
  <2> DEFINE S == OthersOf(i, due)
             f == [r \in S |-> Larger(claimed[r.area], EarlyFloor(i, r, due.deadline))]
  <2>1. IsFiniteSet(S)
    BY <1>1, FS_Subset DEF OthersOf, Readable
  <2>2. f \in [S -> Nat]
    <3>1. ASSUME NEW r \in S PROVE Larger(claimed[r.area], EarlyFloor(i, r, due.deadline)) \in Nat
      <4>1. r \in i.reservations /\ r.area \in Areas
        BY <1>1 DEF OthersOf, Readable
      <4>2. EarlyFloor(i, r, due.deadline) \in Nat
        BY <1>1, <1>3, <4>1, EarlyFloorIsCounted
      <4> QED BY <1>9, <4>1, <4>2 DEF Larger
    <3> HIDE DEF S
    <3> QED BY <3>1
  <2>3. comp = claimed[due.area] + SumFunction(f)
    BY DEF CompetitionBefore
  <2> HIDE DEF f, S
  <2>4. SumFunction(f) \in Nat
    BY <2>1, <2>2, SumIsNatural
  <2> HIDE DEF comp, claimed, earlier
  <2> QED BY <1>8, <1>9, <2>3, <2>4
<1>11. K = J /\ J \in SUBSET Slots
  <2>1. w.week.scoped[due.area] = {}
    BY <1>3 DEF Alone
  <2>2. CoveredBy({}) = {}
    BY DEF CoveredBy
  <2> QED BY <1>1, <2>1, <2>2 DEF FreeIn, Early
<1>12. GapOf(i, due, claimed) = 0
  BY <1>1, <1>2 DEF Met, Sooner
<1>13. Available(i, due, claimed) = Floored(Cardinality(K) - Floored(comp - Cardinality(J \ K)))
       /\ Available(i, due, claimed) \in Nat
  <2> HIDE DEF claimed
  <2> QED BY ZenonT(30), <1>1, <1>9, AvailableIsCounted
<1>14. J \ K = {} /\ Cardinality({}) = 0
  BY <1>11, FS_EmptySet
<1>15. Cardinality(J) \in Nat
  BY <1>11, SetsOfSlots
<1>16. due.minutes > 0
  <2> DEFINE those == Owed(w, due.deadline, due.area)
             f == [c \in those |-> Remaining(w, c)]
  <2>1. due.minutes = SumFunction(f)
    BY DEF ReadAs
  <2>2. PICK c \in Contents :
            /\ w.week.estimate[c] > 0 /\ Remaining(w, c) > 0
            /\ due.deadline = w.week.deadline[c] /\ due.area = AreaOf[c]
    BY DemandsAreOwed
  <2>3. c \in those /\ those \in SUBSET Contents
    BY <2>2 DEF Owed
  <2>4. IsFiniteSet(those)
    <3> HIDE DEF those
    <3> QED BY <2>3, WeekBounds, FS_Subset
  <2>5. f \in [those -> Nat] /\ f[c] > 0
    <3>1. \A d \in those : Remaining(w, d) \in Nat
      BY <2>3 DEF ReadAs
    <3> HIDE DEF those
    <3> QED BY <2>2, <2>3, <3>1
  <2>6. SumOver(those, f) = SumFunction(f)
    <3>1. f = [x \in those |-> f[x]]
      OBVIOUS
    <3> HIDE DEF f, those
    <3> QED BY <3>1 DEF SumOver
  <2> HIDE DEF f, those
  <2>7. SumOver(those \ {c}, f) \in Nat /\ SumOver(those, f) = f[c] + SumOver(those \ {c}, f)
    BY <2>3, <2>4, <2>5, SumOverOneMore
  <2>8. f[c] \in Nat
    BY <2>3, <2>5
  <2> QED BY <2>1, <2>5, <2>6, <2>7, <2>8
<1> DEFINE j == Cardinality(J)
<1>17. Floored(due.minutes - Floored(j - Floored(comp - 0))) = 0
  BY <1>11, <1>12, <1>13, <1>14 DEF GapOf
<1>18. due.minutes \in Nat
  BY <1>3
<1> HIDE DEF comp, J, K, earlier, upto, claimed, F, i, owes
<1>19. due.minutes + comp <= j
  <2>1. Floored(comp - 0) = comp
    BY <1>10, FlooredFacts
  <2>2. j - comp \in Int
    BY <1>10, <1>15
  <2>3. Floored(j - comp) \in Nat
    BY <2>2, FlooredFacts
  <2>4. due.minutes - Floored(j - comp) \in Int
    BY <1>18, <2>3
  <2>5. due.minutes - Floored(j - comp) <= 0
    BY <1>17, <2>1, <2>4, FlooredFacts
  <2>6. j - comp >= 0
    BY <1>16, <1>18, <2>2, <2>3, <2>5, FlooredFacts
  <2>7. Floored(j - comp) = j - comp
    BY <2>2, <2>6, FlooredFacts
  <2> QED BY <1>10, <1>15, <1>18, <2>5, <2>7
<1>20. MinutesOf(U) <= j
  BY <1>7, <1>8, <1>10, <1>15, <1>18, <1>19
<1> QED BY <1>7, <1>20 DEF J, F

(* Each task's remaining minutes can be given it before its deadline, no slot twice. *)
Unmet(w) == {c \in Contents : w.week.estimate[c] > 0 /\ Remaining(w, c) > 0}
Hands(w, P) ==
    /\ \A c \in Unmet(w) : /\ P[c] \in SUBSET Early(SlotsOf(Free(w)), w.week.deadline[c])
                           /\ Cardinality(P[c]) = Remaining(w, c)
    /\ \A c, d \in Unmet(w) : c # d => P[c] \cap P[d] = {}

LEMMA TheDuesAreHanded ==
    ASSUME NEW w, ReadAs(w), NEW a \in Areas, Alone(w, a), ~Refuses(VerdictOf(w))
    PROVE  \E P : Hands(w, P)
<1> DEFINE F == SlotsOf(Free(w))  owes == Demands(w)
           min == [x \in owes |-> x.minutes]  dl == [x \in owes |-> x.deadline]
<1>1. /\ F \in SUBSET Slots /\ IsFiniteSet(owes)
      /\ \A x \in owes : x.deadline \in Nat /\ x.area \in Areas /\ x.minutes \in Nat
      /\ \A x, y \in owes : x.deadline = y.deadline /\ x.area = y.area => x = y
  BY FormCounts DEF ReadAs, Readable, ProbeInputs
<1>2. PICK D : GivenOut(owes, min, dl, F, D)
  <2>1. min \in [owes -> Nat] /\ dl \in [owes -> Nat]
    BY <1>1
  <2>2. ASSUME NEW U \in SUBSET owes, NEW due \in owes, due \in U, \A x \in U : dl[x] <= dl[due]
        PROVE  SumOver(U, min) <= Cardinality(Early(F, dl[due]))
    <3>1. \A x \in U : x.deadline <= due.deadline
      BY <2>2
    <3>2. MinutesOf(U) <= Cardinality(Early(F, due.deadline))
      BY <2>2, <3>1, DuesFit
    <3>3. \A x \in owes : min[x] = x.minutes
      OBVIOUS
    <3>4. dl[due] = due.deadline
      OBVIOUS
    <3> HIDE DEF min, owes, F, dl
    <3>5. SumOver(U, min) = MinutesOf(U)
      BY <3>3, MinutesOfAreOver
    <3> QED BY <3>2, <3>4, <3>5
  <2>3. \A U \in SUBSET owes, due \in owes :
            due \in U /\ (\A x \in U : dl[x] <= dl[due])
                => SumOver(U, min) <= Cardinality(Early(F, dl[due]))
    <3> HIDE DEF min, owes, F, dl
    <3> QED BY <2>2
  <2> HIDE DEF min, owes, F, dl
  <2> QED BY <1>1, <2>1, <2>3, EarliestFirst
<1>3. ASSUME NEW due \in owes
      PROVE  /\ D[due] \in SUBSET Early(F, due.deadline) /\ D[due] \in SUBSET Slots
             /\ Cardinality(D[due]) = due.minutes
  BY <1>1, <1>2 DEF GivenOut, Early
<1>4. \A x, y \in owes : x # y => D[x] \cap D[y] = {}
  BY <1>2 DEF GivenOut
<1> DEFINE those(due) == Owed(w, due.deadline, due.area)
           rem == [c \in Contents |-> Remaining(w, c)]
           by == [c \in Contents |-> w.week.deadline[c]]
           splits(due, P) == GivenOut(those(due), rem, by, D[due], P)
<1>5. rem \in [Contents -> Nat] /\ by \in [Contents -> Nat]
  BY DEF ReadAs, Declarations
<1>6. ASSUME NEW due \in owes PROVE \E P : splits(due, P)
  <2> DEFINE S == those(due)  f == [c \in S |-> rem[c]]  g == [c \in S |-> by[c]]
  <2>1. S \in SUBSET Contents /\ \A c \in S : by[c] = due.deadline
    BY DEF Owed
  <2>2. IsFiniteSet(S)
    <3> HIDE DEF S
    <3> QED BY <2>1, WeekBounds, FS_Subset
  <2>3. f \in [S -> Nat] /\ g \in [S -> Nat]
    <3> HIDE DEF S, rem, by
    <3> QED BY <1>5, <2>1
  <2>4. SumOver(S, f) = due.minutes
    <3>1. due.minutes = SumFunction([c \in S |-> Remaining(w, c)])
      BY DEF ReadAs
    <3>2. [c \in S |-> f[c]] = [c \in S |-> Remaining(w, c)]
      <4>1. \A c \in S : f[c] = Remaining(w, c)
        BY <2>1
      <4> HIDE DEF f, S
      <4> QED BY <4>1
    <3> HIDE DEF f, S
    <3> QED BY <3>1, <3>2 DEF SumOver
  <2>5. Early(D[due], due.deadline) = D[due]
    BY <1>3 DEF Early
  <2>6. ASSUME NEW U \in SUBSET S, NEW c \in S
        PROVE  SumOver(U, f) <= Cardinality(Early(D[due], g[c]))
    <3>1. g[c] = due.deadline
      BY <2>1
    <3>2. S \in SUBSET S
      OBVIOUS
    <3> HIDE DEF S, f, g, owes, F
    <3>3. SumOver(U, f) <= SumOver(S, f)
      BY <2>2, <2>3, <3>2, SumOverFewer
    <3> QED BY <1>3, <2>4, <2>5, <3>1, <3>3
  <2>7. \E P : GivenOut(S, f, g, D[due], P)
    <3>1. D[due] \in SUBSET Slots
      BY <1>3
    <3>2. \A U \in SUBSET S, c \in S :
              c \in U /\ (\A x \in U : g[x] <= g[c])
                  => SumOver(U, f) <= Cardinality(Early(D[due], g[c]))
      <4> HIDE DEF S, f, g
      <4> QED BY <2>6
    <3> HIDE DEF S, f, g
    <3> QED BY <2>2, <2>3, <3>1, <3>2, EarliestFirst
  <2>8. \A c \in S : f[c] = rem[c] /\ g[c] = by[c]
    OBVIOUS
  <2>9. PICK P : GivenOut(S, f, g, D[due], P)
    BY <2>7
  <2>10. GivenOut(S, rem, by, D[due], P)
    <3> HIDE DEF S, f, g, rem, by
    <3> QED BY <2>8, <2>9 DEF GivenOut
  <2> QED BY <2>10
<1> DEFINE Q == [due \in owes |-> CHOOSE P : splits(due, P)]
           of == [c \in Unmet(w) |->
                     CHOOSE due \in owes : due.deadline = w.week.deadline[c] /\ due.area = AreaOf[c]]
           R == [c \in Unmet(w) |-> Q[of[c]][c]]
<1>7. \A due \in owes : splits(due, Q[due])
  <2> HIDE DEF splits, owes
  <2> QED BY <1>6
<1>8. ASSUME NEW c \in Unmet(w)
      PROVE  /\ c \in Contents /\ of[c] \in owes /\ c \in those(of[c])
             /\ of[c].deadline = w.week.deadline[c] /\ R[c] = Q[of[c]][c]
  <2>1. c \in Contents /\ w.week.estimate[c] > 0 /\ Remaining(w, c) > 0
    BY DEF Unmet
  <2>2. \E due \in owes : due.deadline = w.week.deadline[c] /\ due.area = AreaOf[c]
    BY <2>1, DemandsAreOwed
  <2>3. of[c] = CHOOSE due \in owes : due.deadline = w.week.deadline[c] /\ due.area = AreaOf[c]
    OBVIOUS
  <2>4. R[c] = Q[of[c]][c]
    OBVIOUS
  <2> HIDE DEF of, R, Q, owes
  <2>5. of[c] \in owes /\ of[c].deadline = w.week.deadline[c] /\ of[c].area = AreaOf[c]
    BY <2>2, <2>3
  <2> QED BY <2>1, <2>4, <2>5 DEF Owed
<1> HIDE DEF of, R, Q, owes
<1>9. ASSUME NEW c \in Unmet(w)
      PROVE  /\ R[c] \in SUBSET Early(F, w.week.deadline[c]) /\ R[c] \in SUBSET D[of[c]]
             /\ Cardinality(R[c]) = Remaining(w, c)
  <2> DEFINE due == of[c]
  <2>1. due \in owes /\ c \in those(due) /\ R[c] = Q[due][c] /\ c \in Contents
        /\ due.deadline = w.week.deadline[c]
    BY <1>8
  <2>2. GivenOut(those(due), rem, by, D[due], Q[due])
    BY <1>7, <2>1
  <2> HIDE DEF due, those
  <2>3. R[c] \in SUBSET Early(D[due], by[c]) /\ Cardinality(R[c]) = rem[c]
    BY <2>1, <2>2 DEF GivenOut
  <2>4. D[due] \in SUBSET Early(F, due.deadline)
    BY <1>3, <2>1
  <2> QED BY <2>1, <2>3, <2>4 DEF Early, due
<1>10. ASSUME NEW c \in Unmet(w), NEW d \in Unmet(w), c # d PROVE R[c] \cap R[d] = {}
  <2>1. CASE of[c] = of[d]
    <3> DEFINE due == of[c]
    <3>1. due \in owes /\ c \in those(due) /\ d \in those(due) /\ R[c] = Q[due][c] /\ R[d] = Q[due][d]
      BY <1>8, <2>1
    <3>2. GivenOut(those(due), rem, by, D[due], Q[due])
      BY <1>7, <3>1
    <3> HIDE DEF due, those
    <3> QED BY <1>10, <3>1, <3>2 DEF GivenOut
  <2>2. CASE of[c] # of[d]
    <3>1. D[of[c]] \cap D[of[d]] = {}
      BY <1>4, <1>8, <2>2
    <3> QED BY <1>9, <3>1
  <2> QED BY <2>1, <2>2
<1>11. Hands(w, R)
  BY <1>9, <1>10 DEF Hands
<1> QED BY <1>11

LEMMA OneAreaIsExact ==
    ASSUME NEW w, ReadAs(w), NotAhead(w), NEW a \in Areas, Alone(w, a),
           NEW c0 \in Contents, AreaOf[c0] = a, ~Refuses(VerdictOf(w))
    PROVE  Holds(w)
<1> DEFINE F == SlotsOf(Free(w))  i == ProbeInputs(w)
<1>1. /\ F \in SUBSET Slots /\ Readable(i, F) /\ i.reservations = Reservations(w) /\ i.free = Free(w)
      /\ w.now \in Nat
  BY FormCounts DEF ReadAs, Readable, ProbeInputs
<1>2. /\ \A c \in Contents : w.week.estimate[c] \in Nat /\ AreaOf[c] \in Areas
      /\ \A b \in Areas : w.week.floor[b] \in Nat
  BY WeekBounds DEF ReadAs, Declarations
<1>3. PICK P : Hands(w, P)
  BY TheDuesAreHanded
<1> DEFINE to == [t \in F |-> IF \E c \in Unmet(w) : t \in P[c]
                              THEN CHOOSE c \in Unmet(w) : t \in P[c] ELSE c0]
<1>4. ASSUME NEW t \in F
      PROVE  /\ to[t] \in Contents /\ to[t] # NULL /\ AreaOf[to[t]] = a
             /\ \A c \in Unmet(w) : t \in P[c] => to[t] = c
  <2>1. NULL \notin Contents
    BY WeekBounds
  <2>2. \A c \in Unmet(w) : c \in Contents /\ AreaOf[c] = a
    BY DEF Unmet, Alone
  <2>3. CASE \E c \in Unmet(w) : t \in P[c]
    <3>1. to[t] = CHOOSE c \in Unmet(w) : t \in P[c]
      BY <2>3
    <3> HIDE DEF to
    <3>2. to[t] \in Unmet(w) /\ t \in P[to[t]]
      BY <2>3, <3>1
    <3>3. \A c \in Unmet(w) : t \in P[c] => to[t] = c
      BY <1>3, <3>2 DEF Hands
    <3> QED BY <2>1, <2>2, <3>2, <3>3
  <2>4. CASE ~\E c \in Unmet(w) : t \in P[c]
    <3>1. to[t] = c0
      BY <2>4
    <3> HIDE DEF to
    <3> QED BY <2>1, <2>4, <3>1
  <2> QED BY <2>3, <2>4
<1>5. to \in [F -> Contents \cup {NULL}]
  <2>1. to = [t \in F |-> to[t]]
    OBVIOUS
  <2> HIDE DEF to, F
  <2> QED BY <1>4, <2>1
<1> HIDE DEF to
(* No free slot is counted already. *)
<1>6. ASSUME NEW t \in F PROVE t \in Slots /\ t \in Nat /\ t >= w.now
                               /\ \A b \in Blocks : t \notin CoveredBy(Maybe(PlacedAt(w, b)))
  BY <1>1, SlotBound DEF ReadAs, Placed, Slots
<1>7. ASSUME NEW c \in Contents PROVE Work(w, c).done \cap F = {}
  <2> SUFFICES ASSUME NEW t \in F, t \in Work(w, c).done PROVE FALSE
    OBVIOUS
  <2>1. PICK b \in BlocksOf(c) : t \in CoveredBy(Attributed(w, b))
    BY <1>6, SlotsGiven
  <2>2. b \in Blocks
    BY DEF BlocksOf
  <2> QED BY <1>6, <2>1, <2>2, AheadIsPlaced
<1>8. AreaSlots(w, a) \cap F = {}
  <2> SUFFICES ASSUME NEW t \in F, t \in AreaSlots(w, a) PROVE FALSE
    OBVIOUS
  <2>1. PICK b \in BlocksIn(a) : \/ t < w.now /\ t \in CoveredBy(Attributed(w, b))
                                 \/ t >= w.now /\ t \in CoveredBy(Maybe(PlacedAt(w, b)))
    BY <1>6, SlotsGiven
  <2>2. b \in Blocks
    BY DEF BlocksIn
  <2> QED BY <1>1, <1>6, <2>1, <2>2
(* What every task is given. *)
<1>9. ASSUME NEW c \in Contents
      PROVE  LET x == Work(w, c)
                 given == {t \in F : to[t] = x.content}
             IN  /\ given \subseteq x.open
                 /\ Cardinality(x.done \cup {t \in given : t < w.week.deadline[x.content]}) >= x.wants
  <2> DEFINE done == Work(w, c).done
             given == {t \in F : to[t] = c}
             got == {t \in given : t < w.week.deadline[c]}
  <2>1. /\ Work(w, c).content = c /\ Work(w, c).wants = w.week.estimate[c]
        /\ Work(w, c).open = F \ SlotsOf(SetOf(w.week.scoped[AreaOf[c]]))
    BY DEF Work
  <2>2. SlotsOf(SetOf(w.week.scoped[AreaOf[c]])) = {}
    <3>1. w.week.scoped[AreaOf[c]] = {} /\ {} \in SUBSET Interval
      BY <1>2 DEF Alone
    <3>2. SlotsOf(SetOf({})) = CoveredBy({})
      BY <3>1, FormOfASet DEF Form
    <3> QED BY <3>1, <3>2 DEF CoveredBy
  <2>3. done \in SUBSET Slots /\ got \in SUBSET Slots /\ done \cap got = {}
    BY <1>1, <1>7 DEF ReadAs
  <2>4. Remaining(w, c) \in Nat
        /\ Remaining(w, c) = Floored(w.week.estimate[c] - Cardinality(done))
    BY DEF ReadAs
  <2>5. Remaining(w, c) <= Cardinality(got) \/ w.week.estimate[c] = 0
    <3>1. CASE c \in Unmet(w)
      <4>1. P[c] \in SUBSET Early(F, w.week.deadline[c]) /\ Cardinality(P[c]) = Remaining(w, c)
        BY <1>3, <3>1 DEF Hands
      <4>2. P[c] \in SUBSET got
        BY <1>4, <3>1, <4>1 DEF Early
      <4>3. Cardinality(P[c]) <= Cardinality(got)
        BY <2>3, <4>2, SlotsWithin
      <4> QED BY <4>1, <4>3
    <3>2. CASE c \notin Unmet(w)
      <4>1. w.week.estimate[c] = 0 \/ Remaining(w, c) = 0
        BY <1>2, <2>4, <3>2 DEF Unmet
      <4>2. Cardinality(got) \in Nat
        BY <2>3, SetsOfSlots
      <4> QED BY <4>1, <4>2
    <3> QED BY <3>1, <3>2
  <2> HIDE DEF done, got
  <2>6. /\ Cardinality(done \cup got) = Cardinality(done) + Cardinality(got)
        /\ Cardinality(done) \in Nat /\ Cardinality(got) \in Nat
    BY <2>3, SlotsApart, SetsOfSlots
  <2>7. Cardinality(done \cup got) >= w.week.estimate[c]
    <3>1. w.week.estimate[c] - Cardinality(done) \in Int /\ w.week.estimate[c] \in Nat
      BY <1>2, <2>6
    <3>2. Remaining(w, c) >= w.week.estimate[c] - Cardinality(done)
      BY <2>4, <3>1, FlooredFacts
    <3> QED BY <2>4, <2>5, <2>6, <3>1, <3>2
  <2> QED BY <2>1, <2>2, <2>7 DEF done, got
(* What every Area is given. *)
<1>10. ASSUME NEW b \in Areas
       PROVE  Cardinality(AreaSlots(w, b) \cup {t \in F : to[t] # NULL /\ AreaOf[to[t]] = b})
                  >= w.week.floor[b]
  <2> DEFINE had == AreaSlots(w, b)  got == {t \in F : to[t] # NULL /\ AreaOf[to[t]] = b}
  <2>1. had \in SUBSET Slots /\ got \in SUBSET Slots /\ had \cup got \in SUBSET Slots
    BY <1>1 DEF ReadAs
  <2>2. CASE b # a
    <3>1. w.week.floor[b] = 0
      BY <2>2 DEF Alone
    <3>2. Cardinality(had \cup got) \in Nat
      BY <2>1, SetsOfSlots
    <3> QED BY <3>1, <3>2
  <2>3. CASE b = a
    <3> DEFINE r == [area |-> a, minutes |-> Floored(w.week.floor[a] - MinutesOfArea(w, a))]
               rest == Reservations(w) \ {r}
    <3>1. got = F
      BY <1>4, <2>3
    <3>2. r \in Reservations(w)
      BY DEF Reservations
    <3>3. FloorsGap(i) = 0
      BY <1>1, NotRefused DEF VerdictOf
    <3>4. IsFiniteSet(Reservations(w)) /\ \A x \in Reservations(w) : x.minutes \in Nat
      BY <1>1 DEF Readable
    <3>5. MinutesOf(rest) \in Nat /\ MinutesOf(Reservations(w)) = r.minutes + MinutesOf(rest)
      <4>1. IsFiniteSet(rest) /\ (\A x \in rest : x.minutes \in Nat) /\ r \notin rest /\ r.minutes \in Nat
            /\ Reservations(w) = rest \cup {r}
        BY <3>2, <3>4, FS_Subset
      <4>2. \A x \in rest : x.minutes \in Nat
        BY <4>1
      <4> HIDE DEF rest, r
      <4>3. MinutesOf(rest) \in Nat
            /\ \A x : x \notin rest /\ x.minutes \in Nat
                 => MinutesOf(rest \cup {x}) = x.minutes + MinutesOf(rest)
        BY <4>1, <4>2, MinutesOfOneMore
      <4> QED BY <4>1, <4>3
    <3>6. r.minutes = Floored(w.week.floor[a] - Cardinality(had)) /\ r.minutes \in Nat
      <4>1. MinutesOfArea(w, a) = Cardinality(had)
        BY <2>3 DEF ReadAs
      <4>2. r.minutes = Floored(w.week.floor[a] - MinutesOfArea(w, a))
        OBVIOUS
      <4> HIDE DEF r, had
      <4> QED BY <3>2, <3>4, <4>1, <4>2
    <3>7. TotalMinutes(i.free) = Cardinality(F) /\ Cardinality(F) \in Nat
      BY <1>1, FormCounts DEF Readable
    <3>8. MinutesOf(Reservations(w)) - Cardinality(F) \in Int
          /\ Floored(MinutesOf(Reservations(w)) - Cardinality(F)) = 0
      <4>1. MinutesOf(Reservations(w)) \in Nat
        <5> HIDE DEF r, rest
        <5> QED BY <3>5, <3>6
      <4>2. Floored(MinutesOf(Reservations(w)) - Cardinality(F)) = 0
        BY <1>1, <3>3, <3>7 DEF FloorsGap
      <4> QED BY <3>7, <4>1, <4>2
    <3>9. Cardinality(had) \in Nat /\ Cardinality(had \cup F) = Cardinality(had) + Cardinality(F)
      BY <1>1, <1>8, <2>1, <2>3, SlotsApart, SetsOfSlots
    <3> HIDE DEF r, rest, had
    <3>10. MinutesOf(Reservations(w)) <= Cardinality(F)
      <4>1. MinutesOf(Reservations(w)) - Cardinality(F) <= 0
        BY <3>8, FlooredFacts
      <4> QED BY <3>5, <3>6, <3>7, <4>1
    <3>11. w.week.floor[a] - Cardinality(had) \in Int /\ w.week.floor[a] \in Nat
      BY <1>2, <3>9
    <3>12. w.week.floor[a] - Cardinality(had) <= r.minutes
      BY <3>6, <3>11, FlooredFacts
    <3>13. Cardinality(had \cup F) >= w.week.floor[a]
      BY <3>5, <3>6, <3>7, <3>9, <3>10, <3>11, <3>12
    <3> QED BY <2>3, <3>1, <3>13 DEF had
  <2> QED BY <2>2, <2>3
<1>11. \A x \in {Work(w, c) : c \in Contents} :
           LET given == {t \in F : to[t] = x.content}
           IN  /\ given \subseteq x.open
               /\ Cardinality(x.done \cup {t \in given : t < w.week.deadline[x.content]}) >= x.wants
  BY <1>9
<1>12. \A f \in {[area |-> b, slots |-> AreaSlots(w, b)] : b \in Areas} :
           Cardinality(f.slots \cup {t \in F : to[t] # NULL /\ AreaOf[to[t]] = f.area})
               >= w.week.floor[f.area]
  BY <1>10
<1> QED BY <1>5, <1>11, <1>12 DEF Holds

=============================================================================
