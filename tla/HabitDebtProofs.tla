--------------------------- MODULE HabitDebtProofs --------------------------
(***************************************************************************)
(* What the walk of a log computes, for every log: a natural number, and   *)
(* the most misses that any later part of the log leaves uncredited.       *)
(* The prover has no induction rule to instantiate, so each induction is a *)
(* least counterexample among the naturals.                                *)
(***************************************************************************)
EXTENDS HabitDebt, FiniteSetTheorems, WellFoundedInduction, TLAPS

LEMMA LeastOfNaturals ==
    ASSUME NEW S \in SUBSET Nat, S # {}
    PROVE  \E n \in S : \A m \in S : n <= m
<1>1. PICK n \in S : \A m \in S : ~(<<m, n>> \in OpToRel(<, Nat))
  BY NatLessThanWellFounded, WFMin
<1>2. \A m \in S : ~(m < n)
  BY <1>1 DEF OpToRel
<1> QED BY <1>2

-----------------------------------------------------------------------------
(* The walk exists: rows in order, each once. *)

(* Before() compares one number of each row. *)
Rank(log, b) == 2 * Due[b] + (IF IsMiss(log[b]) THEN 0 ELSE 1)

LEMMA BeforeIsByRank ==
    ASSUME NEW log, NEW b \in Blocks, NEW c \in Blocks
    PROVE  /\ Rank(log, b) \in Nat
           /\ Before(log, b, c) <=> Rank(log, b) < Rank(log, c)
<1>1. Due[b] \in Nat /\ Due[c] \in Nat
  BY DebtSets
<1> QED BY <1>1 DEF Before, Rank

InOrder(log, walk, n) ==
    \A i, j \in 1..n : i < j => walk[i] # walk[j] /\ ~Before(log, walk[j], walk[i])
Walkable(log, rows, n) == \E walk \in [1..n -> rows] : InOrder(log, walk, n)

(* A first row, and the walk of the others after it. *)
LEMMA WalkAfterAFirst ==
    ASSUME NEW log, NEW rows \in SUBSET Blocks, NEW first \in rows, NEW n \in Nat,
           \A b \in rows : Rank(log, first) <= Rank(log, b),
           Walkable(log, rows \ {first}, n)
    PROVE  Walkable(log, rows, n + 1)
<1>1. PICK others \in [1..n -> rows \ {first}] : InOrder(log, others, n)
  BY DEF Walkable
<1> DEFINE walk == [i \in 1..(n + 1) |-> IF i = 1 THEN first ELSE others[i - 1]]
<1>2. \A i \in 1..(n + 1) : i = 1 \/ i - 1 \in 1..n
  OBVIOUS
<1>3. walk \in [1..(n + 1) -> rows]
  BY <1>1, <1>2
<1>4. ASSUME NEW i \in 1..(n + 1), NEW j \in 1..(n + 1), i < j
      PROVE  walk[i] # walk[j] /\ ~Before(log, walk[j], walk[i])
  <2>1. j # 1 /\ j - 1 \in 1..n /\ walk[j] = others[j - 1] /\ others[j - 1] \in rows \ {first}
    BY <1>1, <1>2, <1>4
  <2>2. CASE i = 1
    <3>1. walk[i] = first /\ walk[j] \in rows /\ walk[j] # first
      BY <2>1, <2>2
    <3>2. ~Before(log, walk[j], first)
      <4>1. Rank(log, first) \in Nat /\ Rank(log, walk[j]) \in Nat
        BY <3>1, BeforeIsByRank
      <4>2. Rank(log, first) <= Rank(log, walk[j])
        BY <3>1
      <4> HIDE DEF walk
      <4> QED BY <3>1, <4>1, <4>2, BeforeIsByRank
    <3> QED BY <3>1, <3>2
  <2>3. CASE i # 1
    <3>1. walk[i] = others[i - 1] /\ i - 1 \in 1..n /\ i - 1 < j - 1
      BY <1>2, <1>4, <2>3
    <3> QED BY <1>1, <2>1, <3>1 DEF InOrder
  <2> QED BY <2>2, <2>3
<1>5. InOrder(log, walk, n + 1)
  BY <1>4 DEF InOrder
<1> QED BY <1>3, <1>5 DEF Walkable

LEMMA EverySetIsWalked ==
    ASSUME NEW log, NEW rows \in SUBSET Blocks
    PROVE  IsFiniteSet(rows) /\ Cardinality(rows) \in Nat /\ Walkable(log, rows, Cardinality(rows))
<1> DEFINE bad == {n \in Nat : \E T \in SUBSET Blocks : Cardinality(T) = n /\ ~Walkable(log, T, n)}
<1>1. \A T \in SUBSET Blocks : IsFiniteSet(T) /\ Cardinality(T) \in Nat
  BY DebtSets, FS_Subset, FS_CardinalityType
<1>2. ASSUME bad # {} PROVE FALSE
  <2>1. PICK n \in bad : \A m \in bad : n <= m
    <3>1. bad \in SUBSET Nat
      OBVIOUS
    <3> HIDE DEF bad
    <3> QED BY <1>2, <3>1, LeastOfNaturals
  <2>2. PICK T \in SUBSET Blocks : Cardinality(T) = n /\ ~Walkable(log, T, n)
    BY <2>1
  <2>3. n \in Nat
    BY <2>1
  <2>4. CASE T = {}
    <3>1. n = 0
      BY <2>2, <2>4, FS_EmptySet
    <3>2. 1..n = {} /\ [x \in {} |-> x] \in [{} -> T]
      BY <3>1
    <3>3. InOrder(log, [x \in {} |-> x], n)
      BY <3>2 DEF InOrder
    <3>4. Walkable(log, T, n)
      BY <3>2, <3>3 DEF Walkable
    <3> QED BY <2>2, <3>4
  <2>5. CASE T # {}
    <3> DEFINE ranks == {Rank(log, b) : b \in T}
    <3>1. ranks \in SUBSET Nat /\ ranks # {}
      BY <2>5, BeforeIsByRank
    <3>2. PICK least \in ranks : \A r \in ranks : least <= r
      <4> HIDE DEF ranks
      <4> QED BY <3>1, LeastOfNaturals
    <3>3. PICK first \in T : least = Rank(log, first)
      BY <3>2
    <3>4. \A b \in T : Rank(log, first) <= Rank(log, b)
      BY <3>2, <3>3
    <3>5. Cardinality(T \ {first}) = n - 1
      BY <1>1, <2>2, FS_RemoveElement
    <3>6. n - 1 \in Nat
      BY <1>1, <3>5
    <3>7. Walkable(log, T \ {first}, n - 1)
      <4>1. n - 1 \notin bad
        BY <2>1, <2>3
      <4>2. T \ {first} \in SUBSET Blocks
        OBVIOUS
      <4> QED BY <3>5, <3>6, <4>1, <4>2
    <3>8. Walkable(log, T, n - 1 + 1)
      <4> DEFINE m == n - 1
      <4> HIDE DEF m
      <4>1. m \in Nat /\ Walkable(log, T \ {first}, m)
        BY <3>6, <3>7 DEF m
      <4>2. Walkable(log, T, m + 1)
        BY <3>4, <4>1, WalkAfterAFirst
      <4> QED BY <4>2 DEF m
    <3>9. n - 1 + 1 = n
      BY <2>3
    <3> QED BY <2>2, <3>8, <3>9
  <2> QED BY <2>4, <2>5
<1>3. Cardinality(rows) \in Nat
  BY <1>1
<1>4. Walkable(log, rows, Cardinality(rows))
  BY <1>2, <1>3
<1> QED BY <1>1, <1>4

RowsOf(log, at) == Misses(log, at) \cup Credits(log, at)

LEMMA WalkFacts ==
    ASSUME NEW log, NEW at
    PROVE  LET rows == RowsOf(log, at)
               walk == DueOldestFirst(log, at)
               n == Cardinality(rows)
           IN  /\ rows \in SUBSET Blocks /\ IsFiniteSet(rows) /\ n \in Nat
               /\ walk \in [1..n -> rows] /\ InOrder(log, walk, n)
               /\ walk \in Seq(rows) /\ Len(walk) = n
<1> DEFINE rows == RowsOf(log, at)
           walk == DueOldestFirst(log, at)
           n == Cardinality(rows)
<1>1. rows \in SUBSET Blocks
  BY DebtSets DEF RowsOf, Misses, Credits
<1>2. IsFiniteSet(rows) /\ n \in Nat /\ Walkable(log, rows, n)
  BY <1>1, EverySetIsWalked
<1>3. walk \in [1..n -> rows] /\ InOrder(log, walk, n)
  <2>1. walk = CHOOSE x \in [1..n -> rows] : InOrder(log, x, n)
    BY DEF DueOldestFirst, RowsOf, InOrder
  <2> HIDE DEF walk
  <2> QED BY <1>2, <2>1 DEF Walkable
<1>4. walk \in Seq(rows) /\ Len(walk) = n
  <2> HIDE DEF walk, n, rows
  <2> QED BY <1>2, <1>3
<1> QED BY <1>1, <1>2, <1>3, <1>4

-----------------------------------------------------------------------------
(* The charge after each row of a walk: the recursive function exists. *)

ChargesUpTo(log, walk, g, n) ==
    g = [k \in 0..n |-> IF k = 0 THEN 0 ELSE Charge(g[k - 1], IsMiss(log[walk[k]]))]

LEMMA ChargesOneRowMore ==
    ASSUME NEW log, NEW walk, NEW n \in Nat, NEW g, ChargesUpTo(log, walk, g, n)
    PROVE  \E h : ChargesUpTo(log, walk, h, n + 1)
<1> DEFINE next == Charge(g[n], IsMiss(log[walk[n + 1]]))
           h == [k \in 0..(n + 1) |-> IF k = n + 1 THEN next ELSE g[k]]
           again == [k \in 0..(n + 1) |-> IF k = 0 THEN 0 ELSE Charge(h[k - 1], IsMiss(log[walk[k]]))]
<1>1. ASSUME NEW k \in 0..(n + 1) PROVE h[k] = again[k]
  <2>1. CASE k = 0
    <3>1. k \in 0..n /\ k # n + 1
      BY <2>1
    <3>2. g[k] = 0
      BY <2>1, <3>1 DEF ChargesUpTo
    <3> QED BY <2>1, <3>1, <3>2
  <2>2. CASE k \in 1..n
    <3>1. k \in 0..n /\ k - 1 \in 0..n /\ k # n + 1 /\ k - 1 # n + 1 /\ k # 0
      BY <2>2
    <3>2. g[k] = Charge(g[k - 1], IsMiss(log[walk[k]]))
      BY <3>1 DEF ChargesUpTo
    <3>3. h[k] = g[k] /\ h[k - 1] = g[k - 1]
      BY <3>1
    <3> QED BY <3>1, <3>2, <3>3
  <2>3. CASE k = n + 1
    <3>1. n \in 0..n /\ n \in 0..(n + 1) /\ n # n + 1 /\ k # 0 /\ k - 1 = n
      BY <2>3
    <3>2. h[n] = g[n] /\ h[k] = next
      BY <2>3, <3>1
    <3> HIDE DEF h
    <3> QED BY <2>3, <3>1, <3>2
  <2> QED BY <2>1, <2>2, <2>3
<1>2. h = again
  <2>1. h = [k \in 0..(n + 1) |-> h[k]] /\ again = [k \in 0..(n + 1) |-> again[k]]
    OBVIOUS
  <2> HIDE DEF h, again
  <2> QED BY <1>1, <2>1
<1>3. ChargesUpTo(log, walk, h, n + 1)
  BY <1>2 DEF ChargesUpTo
<1> QED BY <1>3

LEMMA ChargesExist ==
    ASSUME NEW log, NEW walk, NEW n \in Nat
    PROVE  \E g : ChargesUpTo(log, walk, g, n)
<1> DEFINE bad == {k \in Nat : ~\E g : ChargesUpTo(log, walk, g, k)}
<1> SUFFICES ASSUME bad # {} PROVE FALSE
  OBVIOUS
<1>1. PICK k \in bad : \A m \in bad : k <= m
  <2>1. bad \in SUBSET Nat
    OBVIOUS
  <2> HIDE DEF bad
  <2> QED BY <2>1, LeastOfNaturals
<1>2. CASE k = 0
  <2> DEFINE g == [x \in 0..0 |-> 0]
  <2>1. g = [x \in 0..0 |-> IF x = 0 THEN 0 ELSE Charge(g[x - 1], IsMiss(log[walk[x]]))]
    OBVIOUS
  <2>2. ChargesUpTo(log, walk, g, 0)
    BY <2>1 DEF ChargesUpTo
  <2> QED BY <1>2, <2>2
<1>3. CASE k # 0
  <2> DEFINE m == k - 1
  <2>1. m \in Nat /\ m < k /\ m + 1 = k
    BY <1>3
  <2>2. \E g : ChargesUpTo(log, walk, g, m)
    BY <1>1, <2>1
  <2> HIDE DEF m
  <2>3. \E g : ChargesUpTo(log, walk, g, m + 1)
    BY <2>1, <2>2, ChargesOneRowMore
  <2> QED BY <2>1, <2>3
<1> QED BY <1>2, <1>3

LEMMA ChargesOfAWalk ==
    ASSUME NEW log, NEW walk, Len(walk) \in Nat
    PROVE  LET charged == ChargedAlong(log, walk)
           IN  /\ charged[0] = 0
               /\ \A k \in 0..(Len(walk) - 1) :
                    charged[k + 1] = Charge(charged[k], IsMiss(log[walk[k + 1]]))
<1> DEFINE charged == ChargedAlong(log, walk)
           n == Len(walk)
<1>1. charged = CHOOSE g : ChargesUpTo(log, walk, g, n)
  BY DEF ChargedAlong, ChargesUpTo
<1>2. ChargesUpTo(log, walk, charged, n)
  <2>1. \E g : ChargesUpTo(log, walk, g, n)
    BY ChargesExist
  <2> HIDE DEF charged
  <2> QED BY <1>1, <2>1
<1>3. charged = [k \in 0..n |-> IF k = 0 THEN 0 ELSE Charge(charged[k - 1], IsMiss(log[walk[k]]))]
  BY <1>2 DEF ChargesUpTo
<1> HIDE DEF charged
<1>4. charged[0] = 0
  BY <1>3
<1>5. ASSUME NEW k \in 0..(n - 1) PROVE charged[k + 1] = Charge(charged[k], IsMiss(log[walk[k + 1]]))
  <2>1. k + 1 \in 0..n /\ k + 1 # 0 /\ k + 1 - 1 = k
    OBVIOUS
  <2> QED BY <1>3, <2>1
<1> QED BY <1>4, <1>5 DEF charged

-----------------------------------------------------------------------------
(* The misses of some rows of a walk, less the credits among them. *)

MissesAt(log, walk, S) == {j \in S : IsMiss(log[walk[j]])}
CreditsAt(log, walk, S) == {j \in S : ~IsMiss(log[walk[j]])}
Uncredited(log, walk, S) == Cardinality(MissesAt(log, walk, S)) - Cardinality(CreditsAt(log, walk, S))

LEMMA RowsAreFinite ==
    ASSUME NEW log, NEW walk, NEW S, IsFiniteSet(S)
    PROVE  /\ IsFiniteSet(MissesAt(log, walk, S)) /\ Cardinality(MissesAt(log, walk, S)) \in Nat
           /\ IsFiniteSet(CreditsAt(log, walk, S)) /\ Cardinality(CreditsAt(log, walk, S)) \in Nat
           /\ Uncredited(log, walk, S) \in Int
<1> DEFINE M == MissesAt(log, walk, S)  C == CreditsAt(log, walk, S)
<1>1. M \in SUBSET S /\ C \in SUBSET S
  BY DEF MissesAt, CreditsAt
<1> HIDE DEF M, C
<1>2. IsFiniteSet(M) /\ IsFiniteSet(C) /\ Cardinality(M) \in Nat /\ Cardinality(C) \in Nat
  BY <1>1, FS_Subset, FS_CardinalityType
<1> QED BY <1>2 DEF M, C, Uncredited

LEMMA OneRowMore ==
    ASSUME NEW log, NEW walk, NEW S, IsFiniteSet(S), NEW at, at \notin S
    PROVE  Uncredited(log, walk, S \cup {at}) =
             Uncredited(log, walk, S) + (IF IsMiss(log[walk[at]]) THEN 1 ELSE -1)
<1> DEFINE M == MissesAt(log, walk, S)  C == CreditsAt(log, walk, S)
           N == MissesAt(log, walk, S \cup {at})  D == CreditsAt(log, walk, S \cup {at})
<1>1. IsFiniteSet(M) /\ IsFiniteSet(C) /\ Cardinality(M) \in Nat /\ Cardinality(C) \in Nat
  BY RowsAreFinite
<1>2. at \notin M /\ at \notin C
  BY DEF MissesAt, CreditsAt
<1>3. CASE IsMiss(log[walk[at]])
  <2>1. N = M \cup {at} /\ D = C
    BY <1>3 DEF MissesAt, CreditsAt
  <2> HIDE DEF M, C, N, D
  <2>2. Cardinality(M \cup {at}) = Cardinality(M) + 1
    BY <1>1, <1>2, FS_AddElement
  <2>3. Cardinality(N) - Cardinality(D) = Cardinality(M) - Cardinality(C) + 1
    BY <1>1, <2>1, <2>2
  <2> QED BY <1>3, <2>3 DEF M, C, N, D, Uncredited
<1>4. CASE ~IsMiss(log[walk[at]])
  <2>1. N = M /\ D = C \cup {at}
    BY <1>4 DEF MissesAt, CreditsAt
  <2> HIDE DEF M, C, N, D
  <2>2. Cardinality(C \cup {at}) = Cardinality(C) + 1
    BY <1>1, <1>2, FS_AddElement
  <2>3. Cardinality(N) - Cardinality(D) = Cardinality(M) - Cardinality(C) + -1
    BY <1>1, <2>1, <2>2
  <2> QED BY <1>4, <2>3 DEF M, C, N, D, Uncredited
<1> QED BY <1>3, <1>4

LEMMA NoRowIsUncredited ==
    ASSUME NEW log, NEW walk
    PROVE  Uncredited(log, walk, {}) = 0
<1>1. MissesAt(log, walk, {}) = {} /\ CreditsAt(log, walk, {}) = {}
  BY DEF MissesAt, CreditsAt
<1>2. Cardinality({}) = 0 /\ 0 - 0 = 0
  BY FS_EmptySet
<1> QED BY <1>1, <1>2 DEF Uncredited

(* The charge after k rows is the most that any later part of them leaves, from a miss on. *)
ChargeIsTheMost(log, walk, k, charge) ==
    /\ charge \in Nat
    /\ \A i \in 1..k : Uncredited(log, walk, i..k) <= charge
    /\ charge = 0 \/ \E i \in 1..k : IsMiss(log[walk[i]]) /\ Uncredited(log, walk, i..k) = charge

LEMMA ChargeStaysTheMost ==
    ASSUME NEW log, NEW walk, NEW k \in Nat, NEW charge, ChargeIsTheMost(log, walk, k, charge)
    PROVE  ChargeIsTheMost(log, walk, k + 1, Charge(charge, IsMiss(log[walk[k + 1]])))
<1> DEFINE miss == IsMiss(log[walk[k + 1]])
           now == Charge(charge, miss)
           U(i) == Uncredited(log, walk, i..k)
           V(i) == Uncredited(log, walk, i..(k + 1))
           step == IF miss THEN 1 ELSE -1
<1>1. charge \in Nat /\ step \in Int
  BY DEF ChargeIsTheMost
<1>2. ASSUME NEW i \in 1..(k + 1) PROVE V(i) = U(i) + step /\ U(i) \in Int
  <2> DEFINE S == i..k  at == k + 1
  <2>1. at \notin S /\ i..(k + 1) = S \cup {at}
    OBVIOUS
  <2>2. IsFiniteSet(S)
    BY FS_Interval
  <2> HIDE DEF S, at
  <2>3. /\ Uncredited(log, walk, S) \in Int
        /\ Uncredited(log, walk, S \cup {at}) = Uncredited(log, walk, S) + (IF IsMiss(log[walk[at]]) THEN 1 ELSE -1)
    BY <2>1, <2>2, RowsAreFinite, OneRowMore
  <2> QED BY <2>1, <2>3 DEF S, at
<1>3. V(k + 1) = step
  <2>1. k + 1 \in 1..(k + 1) /\ (k + 1)..k = {}
    OBVIOUS
  <2>2. U(k + 1) = 0
    BY <2>1, NoRowIsUncredited
  <2>3. V(k + 1) = U(k + 1) + step
    BY <1>2, <2>1
  <2> HIDE DEF U, V, step
  <2> QED BY <1>1, <2>2, <2>3
<1>4. \A i \in 1..k : U(i) <= charge
  BY DEF ChargeIsTheMost
<1>5. charge = 0 \/ \E i \in 1..k : IsMiss(log[walk[i]]) /\ U(i) = charge
  BY DEF ChargeIsTheMost
<1>6. now \in Nat /\ step <= now /\ charge + step <= now
  BY <1>1 DEF Charge
<1>7. ASSUME NEW i \in 1..(k + 1) PROVE V(i) <= now
  <2>1. CASE i = k + 1
    BY <1>3, <1>6, <2>1
  <2>2. CASE i \in 1..k
    <3>1. V(i) = U(i) + step /\ U(i) \in Int /\ U(i) <= charge
      BY <1>2, <1>4, <2>2
    <3> HIDE DEF U, V, step, now
    <3> QED BY <1>1, <1>6, <3>1
  <2> QED BY <2>1, <2>2
<1>8. now = 0 \/ \E i \in 1..(k + 1) : IsMiss(log[walk[i]]) /\ V(i) = now
  <2>1. CASE miss /\ charge = 0
    <3>1. now = 1 /\ step = 1 /\ k + 1 \in 1..(k + 1)
      BY <2>1 DEF Charge
    <3> QED BY <1>3, <2>1, <3>1
  <2>2. CASE ~miss /\ charge = 0
    BY <2>2 DEF Charge
  <2>3. CASE charge # 0
    <3>1. PICK i \in 1..k : IsMiss(log[walk[i]]) /\ U(i) = charge
      BY <1>5, <2>3
    <3>2. i \in 1..(k + 1) /\ V(i) = U(i) + step
      BY <1>2
    <3>3. now = charge + step
      BY <1>1, <2>3 DEF Charge
    <3> HIDE DEF U, V, step, now
    <3> QED BY <3>1, <3>2, <3>3
  <2> QED BY <2>1, <2>2, <2>3
<1> HIDE DEF now, V
<1>9. ChargeIsTheMost(log, walk, k + 1, now)
  BY <1>6, <1>7, <1>8 DEF ChargeIsTheMost, V
<1> QED BY <1>9 DEF now

LEMMA ChargeOfAWalk ==
    ASSUME NEW log, NEW walk, Len(walk) \in Nat, NEW n \in 0..Len(walk)
    PROVE  ChargeIsTheMost(log, walk, n, ChargedAlong(log, walk)[n])
<1> DEFINE charged == ChargedAlong(log, walk)
           bad == {k \in 0..Len(walk) : ~ChargeIsTheMost(log, walk, k, charged[k])}
<1> SUFFICES ASSUME bad # {} PROVE FALSE
  OBVIOUS
<1>1. PICK k \in bad : \A m \in bad : k <= m
  <2>1. bad \in SUBSET Nat
    OBVIOUS
  <2> HIDE DEF bad
  <2> QED BY <2>1, LeastOfNaturals
<1>2. charged[0] = 0 /\ \A m \in 0..(Len(walk) - 1) : charged[m + 1] = Charge(charged[m], IsMiss(log[walk[m + 1]]))
  BY ChargesOfAWalk
<1> HIDE DEF charged
<1>3. CASE k = 0
  BY <1>1, <1>2, <1>3 DEF ChargeIsTheMost
<1>4. CASE k # 0
  <2> DEFINE m == k - 1
  <2>1. m \in Nat /\ m \in 0..(Len(walk) - 1) /\ m \in 0..Len(walk) /\ m < k /\ m + 1 = k
    BY <1>4
  <2>2. ChargeIsTheMost(log, walk, m, charged[m])
    BY <1>1, <2>1
  <2> HIDE DEF m
  <2>3. ChargeIsTheMost(log, walk, m + 1, charged[m + 1])
    BY <1>2, <2>1, <2>2, ChargeStaysTheMost
  <2> QED BY <2>1, <2>3
<1> QED BY <1>3, <1>4

-----------------------------------------------------------------------------
(* From a miss on, the later part of the log is the walk's from the first row of its rank. *)

Later(log, b, c) == ~Before(log, c, b)
LeftBy(log, at, b) ==
    Cardinality({m \in Misses(log, at) : Later(log, b, m)})
      - Cardinality({k \in Credits(log, at) : Later(log, b, k)})

LEMMA AWalkTakesEveryRow ==
    ASSUME NEW walk, NEW n \in Nat, NEW rows, IsFiniteSet(rows), Cardinality(rows) = n,
           walk \in [1..n -> rows], \A i, j \in 1..n : i < j => walk[i] # walk[j]
    PROVE  walk \in Injection(1..n, rows) /\ walk \in Surjection(1..n, rows)
<1>1. walk \in Injection(1..n, rows)
  BY DEF Injection, IsInjective
<1>2. walk \in Surjection(1..n, rows)
  <2> DEFINE all == 1..n
  <2>1. Cardinality(all) = n
    BY FS_Interval
  <2> HIDE DEF all
  <2>2. walk \in Injection(all, rows)
    BY <1>1 DEF all
  <2>3. walk \in Surjection(all, rows)
    BY <2>1, <2>2, FS_Injection
  <2> QED BY <2>3 DEF all
<1> QED BY <1>1, <1>2

(* A set of rows is as large as the set of its places in the walk. *)
LEMMA AsManyPlaces ==
    ASSUME NEW walk, NEW n \in Nat, NEW rows, IsFiniteSet(rows), Cardinality(rows) = n,
           walk \in [1..n -> rows], \A i, j \in 1..n : i < j => walk[i] # walk[j],
           NEW T \in SUBSET rows, NEW places, places = {j \in 1..n : walk[j] \in T}
    PROVE  Cardinality(T) = Cardinality(places)
<1>1. walk \in Injection(1..n, rows) /\ walk \in Surjection(1..n, rows)
  BY AWalkTakesEveryRow
<1> DEFINE part == [j \in places |-> walk[j]]
<1>2. part \in Bijection(places, T)
  <2>1. part \in [places -> T]
    OBVIOUS
  <2>2. \A i, j \in places : i # j => part[i] # part[j]
    BY <1>1 DEF Injection
  <2>3. \A b \in T : \E j \in places : part[j] = b
    BY <1>1 DEF Surjection
  <2> QED BY <2>1, <2>2, <2>3 DEF Bijection, Injection, Surjection, IsInjective
<1>3. IsFiniteSet(places)
  <2> DEFINE all == 1..n
  <2>1. places \in SUBSET all /\ IsFiniteSet(all)
    BY FS_Interval
  <2> HIDE DEF all
  <2> QED BY <2>1, FS_Subset
<1> HIDE DEF part
<1>4. ExistsBijection(places, T)
  BY <1>2 DEF ExistsBijection
<1> QED BY <1>3, <1>4, FS_Bijection

LEMMA RanksOfAWalk ==
    ASSUME NEW log, NEW at, NEW n, n = Cardinality(RowsOf(log, at)),
           NEW walk, walk = DueOldestFirst(log, at)
    PROVE  \E rank \in [1..n -> Nat] :
               /\ \A j \in 1..n : rank[j] = Rank(log, walk[j])
               /\ \A j, k \in 1..n : Later(log, walk[j], walk[k]) <=> rank[j] <= rank[k]
               /\ \A j, k \in 1..n : j <= k => rank[j] <= rank[k]
<1> DEFINE rows == RowsOf(log, at)
           rank == [j \in 1..n |-> Rank(log, walk[j])]
<1>1. rows \in SUBSET Blocks /\ n \in Nat /\ walk \in [1..n -> rows] /\ InOrder(log, walk, n)
  BY WalkFacts
<1>2. \A j \in 1..n : walk[j] \in Blocks
  BY <1>1
<1>3. \A j \in 1..n : rank[j] = Rank(log, walk[j]) /\ rank[j] \in Nat
  BY <1>2, BeforeIsByRank
<1>4. rank \in [1..n -> Nat]
  BY <1>3
<1> HIDE DEF rank
<1>5. ASSUME NEW j \in 1..n, NEW k \in 1..n
      PROVE  Later(log, walk[j], walk[k]) <=> rank[j] <= rank[k]
  <2>1. walk[j] \in Blocks /\ walk[k] \in Blocks
    BY <1>2
  <2>2. Before(log, walk[k], walk[j]) <=> rank[k] < rank[j]
    BY <1>3, <2>1, BeforeIsByRank
  <2>3. rank[j] \in Nat /\ rank[k] \in Nat
    BY <1>3
  <2>4. rank[j] <= rank[k] <=> ~(rank[k] < rank[j])
    BY <2>3
  <2> QED BY <2>2, <2>4 DEF Later
<1>6. ASSUME NEW j \in 1..n, NEW k \in 1..n, j <= k PROVE rank[j] <= rank[k]
  <2>1. CASE j = k
    BY <1>3, <2>1
  <2>2. CASE j # k
    <3>1. j < k
      BY <1>6, <2>2
    <3>2. Later(log, walk[j], walk[k])
      BY <1>1, <3>1 DEF InOrder, Later
    <3> QED BY <1>5, <3>2
  <2> QED BY <2>1, <2>2
<1> QED BY <1>3, <1>4, <1>5, <1>6

LEMMA LeftByIsALaterPart ==
    ASSUME NEW log, NEW at, NEW n, n = Cardinality(RowsOf(log, at)),
           NEW walk, walk = DueOldestFirst(log, at),
           NEW i \in 1..n, IsMiss(log[walk[i]])
    PROVE  \E f \in 1..i : /\ LeftBy(log, at, walk[i]) = Uncredited(log, walk, f..n)
                           /\ \A j \in f..(i - 1) : IsMiss(log[walk[j]])
<1> DEFINE rows == RowsOf(log, at)
           b == walk[i]
           later == {j \in 1..n : Later(log, b, walk[j])}
<1>1. /\ rows \in SUBSET Blocks /\ IsFiniteSet(rows) /\ n \in Nat /\ Cardinality(rows) = n
      /\ walk \in [1..n -> rows] /\ InOrder(log, walk, n)
  BY WalkFacts
<1>2. PICK rank \in [1..n -> Nat] :
        /\ \A j \in 1..n : rank[j] = Rank(log, walk[j])
        /\ \A j, k \in 1..n : Later(log, walk[j], walk[k]) <=> rank[j] <= rank[k]
        /\ \A j, k \in 1..n : j <= k => rank[j] <= rank[k]
  BY RanksOfAWalk
<1>3. i \in later /\ later \in SUBSET Nat
  BY <1>1, <1>2
<1>4. PICK f \in later : \A j \in later : f <= j
  <2> HIDE DEF later
  <2> QED BY <1>3, LeastOfNaturals
<1>5. f \in 1..n /\ f <= i /\ rank[i] <= rank[f]
  BY <1>2, <1>3, <1>4
<1>6. later = f..n
  <2>1. ASSUME NEW j \in later PROVE j \in f..n
    BY <1>1, <1>4
  <2>2. ASSUME NEW j \in f..n PROVE j \in later
    <3>1. j \in 1..n /\ f <= j
      BY <1>1, <1>5
    <3>2. rank[f] <= rank[j] /\ rank[i] \in Nat /\ rank[f] \in Nat /\ rank[j] \in Nat
      BY <1>2, <1>5, <3>1
    <3>3. rank[i] <= rank[j]
      BY <1>5, <3>2
    <3> QED BY <1>2, <3>1, <3>3
  <2> HIDE DEF later
  <2> QED BY <2>1, <2>2
<1>7. ASSUME NEW j \in f..(i - 1) PROVE IsMiss(log[walk[j]])
  <2>1. j \in 1..n /\ j <= i /\ f <= j
    BY <1>1, <1>5
  <2>2. /\ rank[j] <= rank[i] /\ rank[f] <= rank[j] /\ rank[i] <= rank[f]
        /\ rank[j] \in Nat /\ rank[i] \in Nat /\ rank[f] \in Nat
    BY <1>2, <1>5, <2>1
  <2>3. rank[j] = rank[i]
    BY <2>2
  <2>4. Due[walk[j]] \in Nat /\ Due[walk[i]] \in Nat
    BY <1>1, <2>1, DebtSets
  <2>5. rank[i] = 2 * Due[walk[i]]
    BY <1>2, <2>4 DEF Rank
  <2>6. ~IsMiss(log[walk[j]]) => rank[j] = 2 * Due[walk[j]] + 1
    BY <1>2, <2>1 DEF Rank
  <2>7. \A x, y \in Nat : 2 * x # 2 * y + 1
    OBVIOUS
  <2> QED BY <2>3, <2>4, <2>5, <2>6, <2>7
<1>8. LeftBy(log, at, b) = Uncredited(log, walk, f..n)
  <2> DEFINE M == {m \in Misses(log, at) : Later(log, b, m)}
             C == {k \in Credits(log, at) : Later(log, b, k)}
  <2>1. M \in SUBSET rows /\ C \in SUBSET rows
    BY DEF RowsOf
  <2>2. MissesAt(log, walk, f..n) = {j \in 1..n : walk[j] \in M}
    <3>1. \A r \in rows : r \in Misses(log, at) <=> IsMiss(log[r])
      BY DEF RowsOf, Misses, Credits, IsMiss, IsCompletion
    <3>2. MissesAt(log, walk, later) = {j \in 1..n : walk[j] \in M}
      BY <1>1, <3>1 DEF MissesAt
    <3> QED BY <1>6, <3>2
  <2>3. CreditsAt(log, walk, f..n) = {j \in 1..n : walk[j] \in C}
    <3>1. \A r \in rows : r \in Credits(log, at) <=> ~IsMiss(log[r])
      BY DEF RowsOf, Misses, Credits, IsMiss, IsCompletion
    <3>2. CreditsAt(log, walk, later) = {j \in 1..n : walk[j] \in C}
      BY <1>1, <3>1 DEF CreditsAt
    <3> QED BY <1>6, <3>2
  <2>4. \A j, k \in 1..n : j < k => walk[j] # walk[k]
    BY <1>1 DEF InOrder
  <2> DEFINE P == MissesAt(log, walk, f..n)
             Q == CreditsAt(log, walk, f..n)
  <2>5. P = {j \in 1..n : walk[j] \in M} /\ Q = {j \in 1..n : walk[j] \in C}
    BY <2>2, <2>3
  <2> HIDE DEF M, C, P, Q, rows
  <2>6. Cardinality(M) = Cardinality(P)
    BY SMTT(30), <1>1, <2>1, <2>4, <2>5, AsManyPlaces
  <2>7. Cardinality(C) = Cardinality(Q)
    BY SMTT(30), <1>1, <2>1, <2>4, <2>5, AsManyPlaces
  <2> QED BY <2>6, <2>7 DEF M, C, P, Q, LeftBy, Uncredited
<1>9. f \in 1..i
  BY <1>5
<1> QED BY <1>7, <1>8, <1>9

-----------------------------------------------------------------------------
(* What the walk computes. *)

(* The charge of a log is the most misses that any later part of it leaves uncredited,        *)
(* whatever its rows, its ties and the instant it is read at (syncr_domain/debt.py).          *)
THEOREM TheWalkIsTheLargestUncredited ==
    ASSUME NEW log, NEW at
    PROVE  ChargedMisses(log, at) \in Nat /\ ChargedMisses(log, at) = LargestUncredited(log, at)
<1> DEFINE rows == RowsOf(log, at)
           walk == DueOldestFirst(log, at)
           n == Cardinality(rows)
           charge == ChargedAlong(log, walk)[n]
           misses == Misses(log, at)
           Fits(x) == /\ \A b \in misses : LeftBy(log, at, b) <= x
                      /\ x = 0 \/ \E b \in misses : LeftBy(log, at, b) = x
<1>1. /\ rows \in SUBSET Blocks /\ IsFiniteSet(rows) /\ n \in Nat
      /\ walk \in [1..n -> rows] /\ InOrder(log, walk, n)
      /\ Len(walk) = n
  BY WalkFacts
<1>2. ChargedMisses(log, at) = charge
  BY <1>1 DEF ChargedMisses
<1>3. ChargeIsTheMost(log, walk, n, charge)
  <2>1. n \in 0..Len(walk) /\ Len(walk) \in Nat
    BY <1>1
  <2> QED BY <2>1, ChargeOfAWalk
<1> HIDE DEF charge
<1>4. /\ charge \in Nat
      /\ \A i \in 1..n : Uncredited(log, walk, i..n) <= charge
      /\ charge = 0 \/ \E i \in 1..n : IsMiss(log[walk[i]]) /\ Uncredited(log, walk, i..n) = charge
  BY <1>3 DEF ChargeIsTheMost
<1>5. \A b \in misses : \E i \in 1..n : walk[i] = b /\ IsMiss(log[walk[i]])
  <2>1. misses \in SUBSET rows /\ \A b \in misses : IsMiss(log[b])
    BY DEF RowsOf, Misses
  <2>2. walk \in Surjection(1..n, rows)
    BY <1>1, AWalkTakesEveryRow DEF InOrder
  <2> HIDE DEF walk, misses, rows
  <2> QED BY <2>1, <2>2 DEF Surjection
<1>6. ASSUME NEW b \in misses PROVE LeftBy(log, at, b) <= charge
  <2>1. PICK i \in 1..n : walk[i] = b /\ IsMiss(log[walk[i]])
    BY <1>5
  <2>2. PICK f \in 1..i : LeftBy(log, at, walk[i]) = Uncredited(log, walk, f..n)
    BY <2>1, LeftByIsALaterPart
  <2>3. f \in 1..n
    BY <1>1
  <2> HIDE DEF walk, n
  <2> QED BY <1>4, <2>1, <2>2, <2>3
<1>7. charge = 0 \/ \E b \in misses : LeftBy(log, at, b) = charge
  <2> SUFFICES ASSUME charge # 0 PROVE \E b \in misses : LeftBy(log, at, b) = charge
    OBVIOUS
  <2>1. PICK i \in 1..n : IsMiss(log[walk[i]]) /\ Uncredited(log, walk, i..n) = charge
    BY <1>4
  <2>2. PICK f \in 1..i : /\ LeftBy(log, at, walk[i]) = Uncredited(log, walk, f..n)
                          /\ \A j \in f..(i - 1) : IsMiss(log[walk[j]])
    BY <2>1, LeftByIsALaterPart
  <2>3. ASSUME f # i PROVE FALSE
    <3> DEFINE j == i - 1  S == i..n
    <3>1. j \in f..(i - 1) /\ j \in 1..n
      BY <1>1, <2>3
    <3>2. IsMiss(log[walk[j]])
      BY <2>2, <3>1
    <3>3. j..n = S \cup {j} /\ j \notin S
      BY <1>1, <2>3
    <3>4. IsFiniteSet(S)
      BY <1>1, FS_Interval
    <3> HIDE DEF j, S, walk, n
    <3>5. Uncredited(log, walk, S \cup {j}) = Uncredited(log, walk, S) + 1
      BY <3>2, <3>3, <3>4, OneRowMore
    <3>6. Uncredited(log, walk, j..n) = charge + 1
      BY <2>1, <3>3, <3>5 DEF S
    <3>7. Uncredited(log, walk, j..n) <= charge
      BY <1>4, <3>1
    <3> QED BY <1>4, <3>6, <3>7
  <2>4. LeftBy(log, at, walk[i]) = charge
    BY <2>1, <2>2, <2>3
  <2>5. walk[i] \in misses
    BY <1>1, <2>1 DEF RowsOf, Misses, Credits, IsMiss, IsCompletion
  <2> QED BY <2>4, <2>5
<1>8. Fits(charge)
  BY <1>6, <1>7
<1>9. charge \in 0..Cardinality(Blocks)
  <2>1. Cardinality(rows) <= Cardinality(Blocks) /\ Cardinality(Blocks) \in Nat
    BY <1>1, DebtSets, FS_Subset, FS_CardinalityType
  <2>2. charge <= n
    <3>1. CASE charge = 0
      BY <1>1, <3>1
    <3>2. CASE charge # 0
      <4>1. PICK i \in 1..n : Uncredited(log, walk, i..n) = charge
        BY <1>4, <3>2
      <4> DEFINE S == i..n  all == 1..n
                 M == MissesAt(log, walk, S)  C == CreditsAt(log, walk, S)
      <4>2. IsFiniteSet(all) /\ Cardinality(all) = n
        <5> HIDE DEF n
        <5> QED BY <1>1, FS_Interval
      <4>3. M \in SUBSET all /\ IsFiniteSet(S)
        <5> HIDE DEF n
        <5> QED BY <1>1, FS_Interval DEF MissesAt
      <4> HIDE DEF S, all, n
      <4>4. Cardinality(M) \in Nat /\ Cardinality(C) \in Nat
        BY <4>3, RowsAreFinite
      <4>5. charge = Cardinality(M) - Cardinality(C)
        BY <4>1 DEF Uncredited, S
      <4> HIDE DEF M, C
      <4>6. Cardinality(M) <= Cardinality(all)
        BY <4>2, <4>3, FS_Subset
      <4> QED BY <1>1, <4>2, <4>4, <4>5, <4>6
    <3> QED BY <3>1, <3>2
  <2> QED BY <1>1, <1>4, <2>1, <2>2
<1>10. ASSUME NEW x \in 0..Cardinality(Blocks), Fits(x) PROVE x = charge
  <2>1. x \in Nat
    BY <1>9
  <2>2. \A b \in misses : LeftBy(log, at, b) <= x /\ LeftBy(log, at, b) <= charge
    BY <1>8, <1>10
  <2>3. x = 0 \/ x <= charge
    BY <1>10, <2>2
  <2>4. charge = 0 \/ charge <= x
    BY <1>8, <2>2
  <2> QED BY <1>4, <2>1, <2>3, <2>4
<1>11. LargestUncredited(log, at) = CHOOSE x \in 0..Cardinality(Blocks) : Fits(x)
  BY DEF LargestUncredited, LeftBy, Later
<1>12. LargestUncredited(log, at) = charge
  <2> HIDE DEF Fits
  <2> QED BY <1>8, <1>9, <1>10, <1>11
<1> QED BY <1>2, <1>4, <1>12

=============================================================================
