-------------------------- MODULE CircuitTheorems --------------------------
(***************************************************************************)
(* What the proofs of several components rest on.  Facts about finite sets *)
(* of integers that the library does not state: extrema, ranks, growth and *)
(* exhaustion of a finite set in steps; sums, which do not depend on the   *)
(* order in which they are taken; congruence modulo n; the quotient of a   *)
(* division.                                                               *)
(*                                                                         *)
(* Facts about slices and queries that hold for every field, circuit and   *)
(* propagation result: a slice never loses a genuine divergence, and the   *)
(* slice cut at constants alone invents none; and about circuits with      *)
(* memory: the candidates of a search, and the blocks that follow a run.   *)
(***************************************************************************)
EXTENDS Circuit, Candidates, FiniteSetTheorems, TLAPS

(* Every rank below the cardinality is the rank of an element. *)
LEMMA RankExists ==
  ASSUME NEW S \in SUBSET Int, IsFiniteSet(S), NEW k \in 0..Cardinality(S)-1
  PROVE  \E v \in S : Cardinality({u \in S : u < v}) = k
<1> DEFINE n == Cardinality(S)
           Below(v) == {u \in S : u < v}
           Ranks == (0..n-1) \ {k}
           f == [v \in S |-> Cardinality(Below(v))]
<1>0. \A v \in S : v \in Int
  OBVIOUS
<1>1. n \in Nat
  BY FS_CardinalityType
<1>2. ASSUME NEW v \in S PROVE IsFiniteSet(Below(v)) /\ Cardinality(Below(v)) \in 0..n-1
  <2>1. Below(v) \in SUBSET S /\ Below(v) # S
    OBVIOUS
  <2>2. IsFiniteSet(Below(v)) /\ Cardinality(Below(v)) <= n /\ Cardinality(Below(v)) # n
    BY <2>1, FS_Subset
  <2>3. Cardinality(Below(v)) \in Nat
    BY <2>2, FS_CardinalityType
  <2> QED BY <1>1, <2>2, <2>3
<1>3. ASSUME NEW u \in S, NEW v \in S, u < v PROVE Cardinality(Below(u)) < Cardinality(Below(v))
  <2>1. u \notin Below(u) /\ \A x \in Below(u) \cup {u} : x \in S /\ x < v
    BY <1>0, <1>3
  <2>0. Below(u) \cup {u} \in SUBSET Below(v)
    BY <2>1
  <2>2. Cardinality(Below(u) \cup {u}) = Cardinality(Below(u)) + 1
    BY <1>2, <2>1, FS_AddElement
  <2>3. Cardinality(Below(u) \cup {u}) <= Cardinality(Below(v))
    BY <1>2, <2>0, FS_Subset
  <2> QED BY <1>1, <1>2, <2>2, <2>3
<1>4. SUFFICES ASSUME \A v \in S : Cardinality(Below(v)) # k PROVE FALSE
  OBVIOUS
<1>5. IsFiniteSet(Ranks) /\ Cardinality(Ranks) = n - 1
  <2>1. IsFiniteSet(0..n-1) /\ Cardinality(0..n-1) = n
    BY <1>1, FS_Interval
  <2> QED BY <2>1, FS_RemoveElement
<1>6. f \in [S -> Ranks]
  BY <1>2, <1>4
<1>7. \E x, y \in S : x # y /\ f[x] = f[y]
  <2> HIDE DEF f, Ranks
  <2>1. Cardinality(Ranks) < Cardinality(S)
    BY <1>1, <1>5
  <2> QED BY <1>5, <1>6, <2>1, FS_PigeonHole
<1>8. PICK x \in S, y \in S : x # y /\ f[x] = f[y]
  BY <1>7
<1>9. x < y \/ y < x
  BY <1>0, <1>8
<1>10. Cardinality(Below(x)) = Cardinality(Below(y))
  BY <1>8
<1> QED BY <1>2, <1>3, <1>9, <1>10

LEMMA MaxExists ==
  ASSUME NEW S \in SUBSET Int, IsFiniteSet(S), S # {}
  PROVE  Max(S) \in S /\ \A u \in S : u <= Max(S)
<1> DEFINE n == Cardinality(S)
<1>1. n \in Nat \ {0}
  BY FS_CardinalityType, FS_EmptySet
<1>2. PICK v \in S : Cardinality({u \in S : u < v}) = n - 1
  BY <1>1, RankExists
<1>3. IsFiniteSet(S \ {v}) /\ Cardinality(S \ {v}) = n - 1
  BY FS_RemoveElement
<1>4. {u \in S : u < v} \in SUBSET (S \ {v})
  OBVIOUS
<1>5. {u \in S : u < v} = S \ {v}
  BY <1>2, <1>3, <1>4, FS_Subset
<1>6. \A u \in S : v >= u
  BY <1>5
<1> QED BY <1>6 DEF Max

LEMMA MinExists ==
  ASSUME NEW S \in SUBSET Int, IsFiniteSet(S), S # {}
  PROVE  Min(S) \in S /\ \A u \in S : Min(S) <= u
<1>1. Cardinality(S) \in Nat \ {0}
  BY FS_CardinalityType, FS_EmptySet
<1>2. PICK v \in S : Cardinality({u \in S : u < v}) = 0
  BY <1>1, RankExists
<1>3. IsFiniteSet({u \in S : u < v})
  <2>1. {u \in S : u < v} \in SUBSET S
    OBVIOUS
  <2> QED BY <2>1, FS_Subset
<1>4. {u \in S : u < v} = {}
  BY <1>2, <1>3, FS_EmptySet
<1>5. \A u \in S : v <= u
  BY <1>4
<1> QED BY <1>5 DEF Min
LEMMA PairExtrema ==
  ASSUME NEW a \in Int, NEW b \in Int
  PROVE  /\ Max({a, b}) \in {a, b} /\ Max({a, b}) >= a /\ Max({a, b}) >= b
         /\ Min({a, b}) \in {a, b} /\ Min({a, b}) <= a /\ Min({a, b}) <= b
<1>1. {a, b} \in SUBSET Int /\ {a, b} # {} /\ {a, b} = {a} \cup {b}
  OBVIOUS
<1>2. IsFiniteSet({a, b})
  <2>1. IsFiniteSet({a})
    BY FS_Singleton
  <2>2. IsFiniteSet({a} \cup {b})
    BY <2>1, FS_AddElement
  <2> QED BY <1>1, <2>2
<1> QED BY <1>1, <1>2, MaxExists, MinExists

LEMMA ImageFinite ==
  ASSUME NEW S, IsFiniteSet(S), NEW f, DOMAIN f = S
  PROVE  IsFiniteSet({f[x] : x \in S})
<1> DEFINE T == {f[x] : x \in S}
           g == [x \in S |-> f[x]]
<1>1. g \in Surjection(S, T)
  BY DEF Surjection
<1> HIDE DEF g, T
<1>2. IsFiniteSet(T)
  BY <1>1, FS_Surjection
<1> QED BY <1>2 DEF T

-----------------------------------------------------------------------------
(* Induction over a finite set: a family of its subsets that has the empty one
   and grows by any element has the set itself.                               *)
LEMMA FiniteGrowth ==
  ASSUME NEW S, IsFiniteSet(S), NEW G \in SUBSET SUBSET S, {} \in G,
         \A T \in G : \A x \in S \ T : T \cup {x} \in G
  PROVE  S \in G
<1> DEFINE n == Cardinality(S)
           C == {k \in 0..n : \E T \in G : Cardinality(T) = k}
<1>1. n \in Nat
  BY FS_CardinalityType
<1>2. \A T \in G : IsFiniteSet(T) /\ Cardinality(T) \in 0..n
  <2> SUFFICES ASSUME NEW T \in G PROVE IsFiniteSet(T) /\ Cardinality(T) \in 0..n
    OBVIOUS
  <2>1. T \in SUBSET S
    OBVIOUS
  <2>2. IsFiniteSet(T) /\ Cardinality(T) <= n
    BY <2>1, FS_Subset
  <2> QED BY <1>1, <2>2, FS_CardinalityType
<1>3. C \in SUBSET Int /\ IsFiniteSet(C)
  <2>1. IsFiniteSet(0..n)
    BY <1>1, FS_Interval
  <2>2. C \in SUBSET (0..n)
    OBVIOUS
  <2> QED BY <1>1, <2>1, <2>2, FS_Subset
<1>4. 0 \in C
  BY <1>1, FS_EmptySet
<1>5. Max(C) \in C /\ \A k \in C : k <= Max(C)
  BY <1>3, <1>4, MaxExists
<1>6. PICK T \in G : Cardinality(T) = Max(C)
  BY <1>5
<1>7. CASE T = S
  BY <1>7
<1>8. CASE T # S
  <2>1. PICK x \in S \ T : T \cup {x} \in G
    BY <1>8
  <2>2. Cardinality(T \cup {x}) = Cardinality(T) + 1
    BY <1>2, <2>1, FS_AddElement
  <2>3. Cardinality(T \cup {x}) \in C
    BY <1>2, <2>1
  <2> QED BY <1>1, <1>3, <1>5, <1>6, <2>2, <2>3
<1> QED BY <1>7, <1>8

(* Induction over the numbers up to a bound. *)
LEMMA CountingUp ==
  ASSUME NEW n \in Nat, NEW K, 0 \in K, \A k \in 0..n-1 : k \in K => k + 1 \in K
  PROVE  \A k \in 0..n : k \in K
<1> DEFINE B == {k \in 0..n : k \notin K}
<1>1. SUFFICES ASSUME B # {} PROVE FALSE
  OBVIOUS
<1>2. B \in SUBSET Int /\ IsFiniteSet(B)
  <2>1. IsFiniteSet(0..n)
    BY FS_Interval
  <2>2. B \in SUBSET (0..n)
    OBVIOUS
  <2> QED BY <2>1, <2>2, FS_Subset
<1>3. Min(B) \in B /\ \A k \in B : Min(B) <= k
  BY <1>1, <1>2, MinExists
<1>4. Min(B) \in 1..n
  BY <1>3
<1>5. Min(B) - 1 \in 0..n-1 /\ Min(B) - 1 \notin B
  BY <1>3, <1>4
<1>6. Min(B) - 1 \in K
  BY <1>5
<1> QED BY <1>3, <1>4, <1>5, <1>6

-----------------------------------------------------------------------------
(* Sums of integers over a finite set.  SumFunctionOnSet takes the elements in
   some order; the lemmas below say that the order does not matter.           *)
AnElement(S) == CHOOSE x \in S : TRUE

AddsUp(g, f, D) ==
  g = [s \in D |-> IF s = {} THEN 0 ELSE f[AnElement(s)] + g[s \ {AnElement(s)}]]

Adds(g, f, S) == AddsUp(g, f, SUBSET S)

LEMMA SumMeans ==
  \A f, S : SumFunctionOnSet(f, S) = (CHOOSE g : AddsUp(g, f, SUBSET S))[S]
BY Zenon DEF SumFunctionOnSet, FoldFunctionOnSet, MapThenFoldSet, AddsUp, AnElement

(* Taking an element away makes a subset smaller. *)
LEMMA OneLess ==
  ASSUME NEW S, IsFiniteSet(S), NEW s \in SUBSET S, s # {}
  PROVE  /\ s \ {AnElement(s)} \in SUBSET S /\ AnElement(s) \in s
         /\ IsFiniteSet(s) /\ Cardinality(s) \in 1..Cardinality(S)
         /\ Cardinality(s \ {AnElement(s)}) = Cardinality(s) - 1
<1>1. AnElement(s) \in s
  BY DEF AnElement
<1>2. IsFiniteSet(s) /\ Cardinality(s) <= Cardinality(S)
  BY FS_Subset
<1>3. Cardinality(s) \in Nat /\ Cardinality(S) \in Nat /\ Cardinality(s) # 0
  BY <1>2, FS_CardinalityType, FS_EmptySet
<1>4. Cardinality(s \ {AnElement(s)}) = Cardinality(s) - 1
  BY <1>1, <1>2, FS_RemoveElement
<1> QED BY <1>1, <1>2, <1>3, <1>4

LEMMA SumExists ==
  ASSUME NEW S, IsFiniteSet(S), NEW f
  PROVE  \E g : AddsUp(g, f, SUBSET S)
<1> DEFINE n == Cardinality(S)
           Small(k) == {s \in SUBSET S : Cardinality(s) <= k}
           K == {k \in 0..n : \E g : AddsUp(g, f, Small(k))}
<1>1. n \in Nat /\ \A s \in SUBSET S : Cardinality(s) \in 0..n
  <2>1. n \in Nat
    BY FS_CardinalityType
  <2>2. ASSUME NEW s \in SUBSET S PROVE Cardinality(s) \in 0..n
    <3>1. IsFiniteSet(s) /\ Cardinality(s) <= n
      BY FS_Subset
    <3> QED BY <2>1, <3>1, FS_CardinalityType
  <2> QED BY <2>1, <2>2
<1>2. 0 \in K
  <2> DEFINE g == [s \in Small(0) |-> 0]
  <2>1. \A s \in Small(0) : s = {}
    <3> SUFFICES ASSUME NEW s \in Small(0) PROVE s = {}
      OBVIOUS
    <3>1. Cardinality(s) = 0 /\ IsFiniteSet(s)
      BY <1>1, FS_Subset
    <3> QED BY <3>1, FS_EmptySet
  <2>2. g = [s \in Small(0) |-> IF s = {} THEN 0 ELSE f[AnElement(s)] + g[s \ {AnElement(s)}]]
    BY <2>1
  <2>3. AddsUp(g, f, Small(0))
    BY <2>2 DEF AddsUp
  <2> HIDE DEF g, Small
  <2>4. \E h : AddsUp(h, f, Small(0))
    BY <2>3
  <2> QED BY <1>1, <2>4
<1>3. ASSUME NEW k \in 0..n-1, k \in K PROVE k + 1 \in K
  <2>1. PICK g : AddsUp(g, f, Small(k))
    BY <1>3
  <2> DEFINE value(s) == IF s = {} THEN 0 ELSE f[AnElement(s)] + g[s \ {AnElement(s)}]
             h == [s \in Small(k + 1) |-> value(s)]
  <2>2. \A s \in Small(k) : g[s] = value(s)
    BY <2>1 DEF AddsUp
  <2>3. ASSUME NEW s \in Small(k + 1), s # {} PROVE s \ {AnElement(s)} \in Small(k)
    BY <1>1, <2>3, OneLess
  <2>4. ASSUME NEW s \in Small(k) PROVE s \in Small(k + 1) /\ h[s] = g[s]
    <3>1. s \in Small(k + 1)
      BY <1>1
    <3> QED BY <3>1, <2>2
  <2>5. \A s \in Small(k + 1) : h[s] = IF s = {} THEN 0 ELSE f[AnElement(s)] + h[s \ {AnElement(s)}]
    <3> SUFFICES ASSUME NEW s \in Small(k + 1)
                 PROVE  h[s] = IF s = {} THEN 0 ELSE f[AnElement(s)] + h[s \ {AnElement(s)}]
      OBVIOUS
    <3>1. h[s] = value(s)
      OBVIOUS
    <3> HIDE DEF h, Small
    <3> QED BY <2>3, <2>4, <3>1
  <2>6. h = [s \in Small(k + 1) |-> h[s]]
    OBVIOUS
  <2> HIDE DEF h, Small
  <2>7. h = [s \in Small(k + 1) |-> IF s = {} THEN 0 ELSE f[AnElement(s)] + h[s \ {AnElement(s)}]]
    BY <2>5, <2>6
  <2>8. AddsUp(h, f, Small(k + 1))
    BY <2>7 DEF AddsUp
  <2> QED BY <1>1, <2>8
<1>4. n \in K
  <2> HIDE DEF K
  <2>1. \A k \in 0..n : k \in K
    BY <1>1, <1>2, <1>3, CountingUp
  <2> QED BY <1>1, <2>1
<1>5. Small(n) = SUBSET S
  BY <1>1
<1> QED BY <1>4, <1>5

(* Two such functions agree where both are defined. *)
SameAt(T, f, e) == \A x \in T : f[x] = e[x]

LEMMA SumAgrees ==
  ASSUME NEW S, IsFiniteSet(S), NEW T, T \subseteq S, NEW f, NEW e, SameAt(T, f, e),
         NEW g, Adds(g, f, S), NEW h, Adds(h, e, T)
  PROVE  g[T] = h[T]
<1> DEFINE n == Cardinality(T)
           K == {k \in 0..n : \A s \in SUBSET T : Cardinality(s) = k => g[s] = h[s]}
<1>1. IsFiniteSet(T) /\ n \in Nat
  BY FS_Subset, FS_CardinalityType
<1>2. 0 \in K
  <2> SUFFICES ASSUME NEW s \in SUBSET T, Cardinality(s) = 0 PROVE g[s] = h[s]
    BY <1>1
  <2>1. s = {} /\ s \in SUBSET S
    BY <1>1, FS_Subset, FS_EmptySet
  <2>2. g[s] = 0
    BY <2>1 DEF Adds, AddsUp
  <2>3. h[s] = 0
    BY <2>1 DEF Adds, AddsUp
  <2> QED BY <2>2, <2>3
<1>3. ASSUME NEW k \in 0..n-1, k \in K PROVE k + 1 \in K
  <2> SUFFICES ASSUME NEW s \in SUBSET T, Cardinality(s) = k + 1 PROVE g[s] = h[s]
    BY <1>1
  <2>0. k + 1 # 0
    BY <1>1
  <2>1. s # {}
    BY <2>0, FS_EmptySet, Zenon
  <2>2. AnElement(s) \in T /\ s \ {AnElement(s)} \in SUBSET T /\ Cardinality(s \ {AnElement(s)}) = k
    BY <1>1, <2>1, OneLess
  <2>3. g[s \ {AnElement(s)}] = h[s \ {AnElement(s)}]
    BY <1>3, <2>2
  <2>4. s \in SUBSET S
    OBVIOUS
  <2>5. g[s] = f[AnElement(s)] + g[s \ {AnElement(s)}]
    BY <2>1, <2>4 DEF Adds, AddsUp
  <2>6. h[s] = e[AnElement(s)] + h[s \ {AnElement(s)}]
    BY <2>1 DEF Adds, AddsUp
  <2> QED BY <2>2, <2>3, <2>5, <2>6 DEF SameAt
<1>4. n \in K
  <2> HIDE DEF K
  <2>1. \A k \in 0..n : k \in K
    BY <1>1, <1>2, <1>3, CountingUp
  <2> QED BY <1>1, <2>1
<1> QED BY <1>4

LEMMA SumUnfold ==
  ASSUME NEW S, IsFiniteSet(S), NEW f
  PROVE  /\ SumFunctionOnSet(f, {}) = 0
         /\ S # {} => SumFunctionOnSet(f, S) = f[AnElement(S)] + SumFunctionOnSet(f, S \ {AnElement(S)})
<1> DEFINE adder(T) == CHOOSE g : AddsUp(g, f, SUBSET T)
<1>1. \A T : SumFunctionOnSet(f, T) = adder(T)[T]
  BY SumMeans
<1>2. ASSUME NEW T, IsFiniteSet(T) PROVE AddsUp(adder(T), f, SUBSET T)
  BY <1>2, SumExists
<1> HIDE DEF adder
<1>3. AddsUp(adder(S), f, SUBSET S)
  BY <1>2
<1>4. AddsUp(adder({}), f, SUBSET {})
  BY <1>2, FS_EmptySet
<1>5. SumFunctionOnSet(f, {}) = 0
  BY <1>1, <1>4 DEF AddsUp
<1>6. ASSUME S # {} PROVE SumFunctionOnSet(f, S) = f[AnElement(S)] + SumFunctionOnSet(f, S \ {AnElement(S)})
  <2> DEFINE T == S \ {AnElement(S)}
  <2>1. T \in SUBSET S /\ S \in SUBSET S
    OBVIOUS
  <2>2. IsFiniteSet(T)
    BY <2>1, FS_Subset
  <2>3. AddsUp(adder(T), f, SUBSET T)
    BY <1>2, <2>2
  <2>4. adder(S)[S] = f[AnElement(S)] + adder(S)[T]
    BY <1>3, <1>6, <2>1 DEF AddsUp
  <2> HIDE DEF T
  <2>5. adder(S)[T] = adder(T)[T]
    <3>1. SameAt(T, f, f)
      BY DEF SameAt
    <3>2. Adds(adder(S), f, S) /\ Adds(adder(T), f, T)
      BY <1>3, <2>3 DEF Adds
    <3> QED BY <2>1, <3>1, <3>2, SumAgrees
  <2>6. SumFunctionOnSet(f, S) = f[AnElement(S)] + SumFunctionOnSet(f, T)
    BY <1>1, <2>4, <2>5
  <2> QED BY <2>6 DEF T
<1> QED BY <1>5, <1>6

LEMMA SumEmpty == \A f : SumFunctionOnSet(f, {}) = 0
BY SumUnfold, FS_EmptySet

(* Only the values on the set matter. *)
LEMMA SumSame ==
  ASSUME NEW S, IsFiniteSet(S), NEW f, NEW e, SameAt(S, f, e)
  PROVE  SumFunctionOnSet(f, S) = SumFunctionOnSet(e, S)
<1> DEFINE g == CHOOSE g : AddsUp(g, f, SUBSET S)
           h == CHOOSE h : AddsUp(h, e, SUBSET S)
<1>1. AddsUp(g, f, SUBSET S) /\ AddsUp(h, e, SUBSET S)
  BY SumExists
<1>2. SumFunctionOnSet(f, S) = g[S] /\ SumFunctionOnSet(e, S) = h[S]
  BY SumMeans
<1> HIDE DEF g, h
<1>3. Adds(g, f, S) /\ Adds(h, e, S)
  BY <1>1 DEF Adds
<1> QED BY <1>2, <1>3, SumAgrees

(* The sum of integers is one, and any element may be taken out first. *)
LEMMA SumTypeAt ==
  ASSUME NEW S, IsFiniteSet(S), NEW f, \A x \in S : f[x] \in Int
  PROVE  SumFunctionOnSet(f, S) \in Int
<1> DEFINE n == Cardinality(S)
           K == {k \in 0..n : \A s \in SUBSET S : Cardinality(s) = k => SumFunctionOnSet(f, s) \in Int}
<1>1. n \in Nat /\ \A s \in SUBSET S : IsFiniteSet(s)
  BY FS_Subset, FS_CardinalityType
<1>2. 0 \in K
  BY <1>1, FS_EmptySet, SumUnfold
<1>3. ASSUME NEW k \in 0..n-1, k \in K PROVE k + 1 \in K
  <2> SUFFICES ASSUME NEW s \in SUBSET S, Cardinality(s) = k + 1 PROVE SumFunctionOnSet(f, s) \in Int
    BY <1>1
  <2>0. k + 1 # 0
    BY <1>1
  <2>1. s # {}
    BY <2>0, FS_EmptySet, Zenon
  <2>2. AnElement(s) \in S /\ s \ {AnElement(s)} \in SUBSET S /\ Cardinality(s \ {AnElement(s)}) = k
    BY <1>1, <2>1, OneLess
  <2>3. SumFunctionOnSet(f, s \ {AnElement(s)}) \in Int
    BY <1>3, <2>2
  <2>4. SumFunctionOnSet(f, s) = f[AnElement(s)] + SumFunctionOnSet(f, s \ {AnElement(s)})
    BY <1>1, <2>1, SumUnfold
  <2> QED BY <2>2, <2>3, <2>4
<1>4. n \in K
  <2> HIDE DEF K
  <2>1. \A k \in 0..n : k \in K
    BY <1>1, <1>2, <1>3, CountingUp
  <2> QED BY <1>1, <2>1
<1> QED BY <1>4

LEMMA SumAdd ==
  ASSUME NEW S, IsFiniteSet(S), NEW f, NEW x, x \notin S, \A y \in S \cup {x} : f[y] \in Int
  PROVE  /\ SumFunctionOnSet(f, S) \in Int
         /\ SumFunctionOnSet(f, S \cup {x}) = SumFunctionOnSet(f, S) + f[x]
<1> DEFINE W == S \cup {x}
           n == Cardinality(W)
           K == {k \in 0..n : \A s \in SUBSET W : \A y \in W \ s : Cardinality(s) = k =>
                   SumFunctionOnSet(f, s \cup {y}) = SumFunctionOnSet(f, s) + f[y]}
<1>1. IsFiniteSet(W) /\ n \in Nat
  BY FS_AddElement, FS_CardinalityType
<1>2. \A s \in SUBSET W : IsFiniteSet(s) /\ Cardinality(s) \in 0..n /\ SumFunctionOnSet(f, s) \in Int
  <2> SUFFICES ASSUME NEW s \in SUBSET W
               PROVE  IsFiniteSet(s) /\ Cardinality(s) \in 0..n /\ SumFunctionOnSet(f, s) \in Int
    OBVIOUS
  <2>1. IsFiniteSet(s) /\ Cardinality(s) <= n
    BY <1>1, FS_Subset
  <2>2. Cardinality(s) \in Nat
    BY <2>1, FS_CardinalityType
  <2>3. SumFunctionOnSet(f, s) \in Int
    BY <2>1, SumTypeAt
  <2> QED BY <1>1, <2>1, <2>2, <2>3
<1>3. 0 \in K
  <2> SUFFICES ASSUME NEW s \in SUBSET W, NEW y \in W \ s, Cardinality(s) = 0
               PROVE  SumFunctionOnSet(f, s \cup {y}) = SumFunctionOnSet(f, s) + f[y]
    BY <1>1
  <2>1. s = {}
    BY <1>2, FS_EmptySet
  <2>2. s \cup {y} = {y} /\ {y} # {} /\ {y} \ {y} = {}
    BY <2>1
  <2>3. AnElement({y}) = y
    BY DEF AnElement
  <2>4. IsFiniteSet({y})
    BY FS_Singleton
  <2>5. SumFunctionOnSet(f, {y}) = f[y] + SumFunctionOnSet(f, {}) /\ SumFunctionOnSet(f, {}) = 0
    BY <2>2, <2>3, <2>4, SumUnfold
  <2>6. f[y] \in Int
    OBVIOUS
  <2> QED BY <2>1, <2>2, <2>5, <2>6
<1>4. ASSUME NEW k \in 0..n-1, k \in K PROVE k + 1 \in K
  <2> SUFFICES ASSUME NEW s \in SUBSET W, NEW y \in W \ s, Cardinality(s) = k + 1
               PROVE  SumFunctionOnSet(f, s \cup {y}) = SumFunctionOnSet(f, s) + f[y]
    BY <1>1
  <2> DEFINE t == s \cup {y}
             e == AnElement(t)
  <2>1. t \in SUBSET W /\ t # {} /\ e \in t /\ f[e] \in Int /\ f[y] \in Int
    BY DEF AnElement
  <2>2. SumFunctionOnSet(f, t) = f[e] + SumFunctionOnSet(f, t \ {e})
    BY <1>2, <2>1, SumUnfold
  <2>3. CASE e = y
    <3>1. t \ {e} = s
      BY <2>3
    <3>2. SumFunctionOnSet(f, s) \in Int
      BY <1>2
    <3> HIDE DEF t, e
    <3>3. SumFunctionOnSet(f, t) = f[y] + SumFunctionOnSet(f, s)
      BY <2>2, <2>3, <3>1, Zenon
    <3>4. SumFunctionOnSet(f, t) = SumFunctionOnSet(f, s) + f[y]
      BY <2>1, <3>2, <3>3
    <3> QED BY <3>4 DEF t
  <2>4. CASE e # y
    <3> DEFINE r == s \ {e}
    <3>1. e \in s /\ r \in SUBSET W /\ t \ {e} = r \cup {y} /\ y \in W \ r /\ e \in W \ r /\ r \cup {e} = s
      BY <2>1, <2>4
    <3>2. Cardinality(r) = k
      <4>1. Cardinality(r) = Cardinality(s) - 1
        BY <1>2, <3>1, FS_RemoveElement
      <4> QED BY <1>1, <4>1
    <3> HIDE DEF t, e, r
    <3>3. SumFunctionOnSet(f, r \cup {y}) = SumFunctionOnSet(f, r) + f[y]
      BY <1>4, <3>1, <3>2
    <3>4. SumFunctionOnSet(f, s) = SumFunctionOnSet(f, r) + f[e]
      BY <1>4, <3>1, <3>2
    <3>5. SumFunctionOnSet(f, r) \in Int
      BY <1>2, <3>1
    <3>6. SumFunctionOnSet(f, t) = f[e] + (SumFunctionOnSet(f, r) + f[y])
      BY <2>2, <3>1, <3>3
    <3>7. SumFunctionOnSet(f, t) = SumFunctionOnSet(f, s) + f[y]
      BY <2>1, <3>4, <3>5, <3>6
    <3> QED BY <3>7 DEF t
  <2> QED BY <2>3, <2>4
<1>5. Cardinality(S) \in K
  <2> HIDE DEF K
  <2>1. \A k \in 0..n : k \in K
    BY <1>1, <1>3, <1>4, CountingUp
  <2> QED BY <1>2, <2>1
<1>6. S \in SUBSET W /\ x \in W \ S
  OBVIOUS
<1> QED BY <1>2, <1>5, <1>6

IntegerAt(S, f) == \A x \in S : f[x] \in Int

LEMMA SumType ==
  ASSUME NEW S, IsFiniteSet(S), NEW f, IntegerAt(S, f)
  PROVE  SumFunctionOnSet(f, S) \in Int
BY SumTypeAt DEF IntegerAt

LEMMA SumTake ==
  ASSUME NEW S, IsFiniteSet(S), NEW f, IntegerAt(S, f), NEW x \in S
  PROVE  /\ SumFunctionOnSet(f, S \ {x}) \in Int
         /\ SumFunctionOnSet(f, S) = f[x] + SumFunctionOnSet(f, S \ {x})
<1> DEFINE T == S \ {x}
<1>1. T \cup {x} = S /\ x \notin T /\ \A y \in T \cup {x} : f[y] \in Int
  BY DEF IntegerAt
<1>2. IsFiniteSet(T)
  BY FS_RemoveElement
<1>3. f[x] \in Int
  BY DEF IntegerAt
<1> HIDE DEF T
<1>4. SumFunctionOnSet(f, T) \in Int /\ SumFunctionOnSet(f, T \cup {x}) = SumFunctionOnSet(f, T) + f[x]
  BY <1>1, <1>2, SumAdd
<1>5. SumFunctionOnSet(f, S) = SumFunctionOnSet(f, T) + f[x]
  BY <1>1, <1>4, Zenon
<1>6. SumFunctionOnSet(f, S) = f[x] + SumFunctionOnSet(f, T)
  BY <1>3, <1>4, <1>5
<1> QED BY <1>4, <1>6 DEF T

(* One more element of a part of the set. *)
AddsTo(S, T, x) == T \in SUBSET S /\ x \in S \ T

LEMMA SumGrow ==
  ASSUME NEW S, IsFiniteSet(S), NEW f, IntegerAt(S, f), NEW T, NEW x, AddsTo(S, T, x)
  PROVE  /\ SumFunctionOnSet(f, T) \in Int /\ f[x] \in Int /\ f[x] + SumFunctionOnSet(f, T) \in Int
         /\ SumFunctionOnSet(f, T \cup {x}) = f[x] + SumFunctionOnSet(f, T)
<1>1. IsFiniteSet(T) /\ x \notin T /\ \A y \in T \cup {x} : f[y] \in Int
  BY FS_Subset DEF IntegerAt, AddsTo
<1>2. SumFunctionOnSet(f, T) \in Int /\ SumFunctionOnSet(f, T \cup {x}) = SumFunctionOnSet(f, T) + f[x]
  BY <1>1, SumAdd
<1> QED BY <1>1, <1>2

LEMMA SumSplit ==
  ASSUME NEW S, IsFiniteSet(S), NEW f, IntegerAt(S, f), NEW T, T \subseteq S
  PROVE  /\ SumFunctionOnSet(f, T) \in Int /\ SumFunctionOnSet(f, S \ T) \in Int
         /\ SumFunctionOnSet(f, S) = SumFunctionOnSet(f, T) + SumFunctionOnSet(f, S \ T)
<1> DEFINE sum(U) == SumFunctionOnSet(f, U)
           G == {U \in SUBSET T : sum(S) = sum(U) + sum(S \ U)}
<1>1. \A U \in SUBSET S : IsFiniteSet(U) /\ IntegerAt(U, f)
  BY FS_Subset DEF IntegerAt
<1>2. \A U \in SUBSET S : sum(U) \in Int
  BY <1>1, SumType
<1>3. {} \in G
  <2>1. sum({}) = 0 /\ S \ {} = S /\ sum(S) \in Int
    BY <1>2, SumUnfold
  <2> QED BY <2>1
<1>4. ASSUME NEW U \in G, NEW x \in T \ U PROVE U \cup {x} \in G
  <2>0. AddsTo(S, U, x)
    BY DEF AddsTo
  <2>1. f[x] \in Int /\ sum(U \cup {x}) = f[x] + sum(U)
    BY <2>0, SumGrow
  <2>2. S \ U \in SUBSET S /\ x \in S \ U /\ (S \ U) \ {x} = S \ (U \cup {x})
    OBVIOUS
  <2>3. sum(S \ U) = f[x] + sum((S \ U) \ {x})
    BY <1>1, <2>2, SumTake
  <2>4. sum(S) = sum(U) + sum(S \ U) /\ sum(U) \in Int /\ sum(S \ (U \cup {x})) \in Int
    BY <1>2
  <2>5. sum(S) = sum(U \cup {x}) + sum(S \ (U \cup {x}))
    <3> HIDE DEF sum
    <3>1. sum(S \ U) = f[x] + sum(S \ (U \cup {x}))
      BY <2>2, <2>3, Zenon
    <3> QED BY <2>1, <2>4, <3>1
  <2> QED BY <2>5
<1>5. IsFiniteSet(T)
  BY FS_Subset
<1>6. T \in G
  <2>1. G \in SUBSET SUBSET T
    OBVIOUS
  <2> HIDE DEF G
  <2> QED BY <1>3, <1>4, <1>5, <2>1, FiniteGrowth
<1>7. sum(T) \in Int /\ sum(S \ T) \in Int
  BY <1>2
<1> QED BY <1>6, <1>7

(* Sums are linear. *)
LEMMA SumPlus ==
  ASSUME NEW S, IsFiniteSet(S), NEW f, NEW e, IntegerAt(S, f), IntegerAt(S, e),
         NEW h, \A x \in S : h[x] = f[x] + e[x]
  PROVE  SumFunctionOnSet(h, S) = SumFunctionOnSet(f, S) + SumFunctionOnSet(e, S)
<1>1. IntegerAt(S, h)
  BY DEF IntegerAt
<1>2. ASSUME NEW T, NEW x, AddsTo(S, T, x), SumFunctionOnSet(h, T) = SumFunctionOnSet(f, T) + SumFunctionOnSet(e, T)
      PROVE  SumFunctionOnSet(h, T \cup {x}) = SumFunctionOnSet(f, T \cup {x}) + SumFunctionOnSet(e, T \cup {x})
  <2>1. SumFunctionOnSet(h, T \cup {x}) = h[x] + SumFunctionOnSet(h, T)
    BY <1>1, <1>2, SumGrow
  <2>2. /\ SumFunctionOnSet(f, T) \in Int /\ f[x] \in Int
        /\ SumFunctionOnSet(f, T \cup {x}) = f[x] + SumFunctionOnSet(f, T)
    BY <1>2, SumGrow
  <2>3. /\ SumFunctionOnSet(e, T) \in Int /\ e[x] \in Int
        /\ SumFunctionOnSet(e, T \cup {x}) = e[x] + SumFunctionOnSet(e, T)
    BY <1>2, SumGrow
  <2>4. h[x] = f[x] + e[x]
    BY <1>2 DEF AddsTo
  <2> QED BY <1>2, <2>1, <2>2, <2>3, <2>4
<1> DEFINE G == {T \in SUBSET S : SumFunctionOnSet(h, T) = SumFunctionOnSet(f, T) + SumFunctionOnSet(e, T)}
<1>3. {} \in G
  BY SumEmpty
<1>4. ASSUME NEW T \in G, NEW x \in S \ T PROVE T \cup {x} \in G
  <2>1. AddsTo(S, T, x)
    BY DEF AddsTo
  <2>2. SumFunctionOnSet(h, T \cup {x}) = SumFunctionOnSet(f, T \cup {x}) + SumFunctionOnSet(e, T \cup {x})
    BY <1>2, <2>1
  <2> QED BY <2>2
<1>5. S \in G
  <2>1. G \in SUBSET SUBSET S
    OBVIOUS
  <2> HIDE DEF G
  <2> QED BY <1>3, <1>4, <2>1, FiniteGrowth
<1> QED BY <1>5

LEMMA SumTimes ==
  ASSUME NEW S, IsFiniteSet(S), NEW k \in Int, NEW f, IntegerAt(S, f),
         NEW h, \A x \in S : h[x] = k * f[x]
  PROVE  SumFunctionOnSet(h, S) = k * SumFunctionOnSet(f, S)
<1>1. IntegerAt(S, h)
  BY DEF IntegerAt
<1>2. ASSUME NEW T, NEW x, AddsTo(S, T, x), SumFunctionOnSet(h, T) = k * SumFunctionOnSet(f, T)
      PROVE  SumFunctionOnSet(h, T \cup {x}) = k * SumFunctionOnSet(f, T \cup {x})
  <2>1. SumFunctionOnSet(h, T \cup {x}) = h[x] + SumFunctionOnSet(h, T)
    BY <1>1, <1>2, SumGrow
  <2>0. AddsTo(S, T, x)
    BY <1>2
  <2>2. /\ SumFunctionOnSet(f, T) \in Int /\ f[x] \in Int
        /\ SumFunctionOnSet(f, T \cup {x}) = f[x] + SumFunctionOnSet(f, T)
    BY ONLY <2>0, IsFiniteSet(S), IntegerAt(S, f), SumGrow
  <2>4. h[x] = k * f[x]
    BY <1>2 DEF AddsTo
  <2> QED BY <1>2, <2>1, <2>2, <2>4
<1> DEFINE G == {T \in SUBSET S : SumFunctionOnSet(h, T) = k * SumFunctionOnSet(f, T)}
<1>3. {} \in G
  BY SumEmpty
<1>4. ASSUME NEW T \in G, NEW x \in S \ T PROVE T \cup {x} \in G
  <2>1. AddsTo(S, T, x)
    BY DEF AddsTo
  <2>2. SumFunctionOnSet(h, T \cup {x}) = k * SumFunctionOnSet(f, T \cup {x})
    BY <1>2, <2>1
  <2> QED BY <2>2
<1>5. S \in G
  <2>1. G \in SUBSET SUBSET S
    OBVIOUS
  <2> HIDE DEF G
  <2> QED BY <1>3, <1>4, <2>1, FiniteGrowth
<1> QED BY <1>5

LEMMA SumMonotone ==
  ASSUME NEW S, IsFiniteSet(S), NEW f, NEW e, IntegerAt(S, f), IntegerAt(S, e),
         \A x \in S : f[x] <= e[x]
  PROVE  SumFunctionOnSet(f, S) <= SumFunctionOnSet(e, S)
<1>2. ASSUME NEW T, NEW x, AddsTo(S, T, x), SumFunctionOnSet(f, T) <= SumFunctionOnSet(e, T)
      PROVE  SumFunctionOnSet(f, T \cup {x}) <= SumFunctionOnSet(e, T \cup {x})
  <2>2. /\ SumFunctionOnSet(f, T) \in Int /\ f[x] \in Int
        /\ SumFunctionOnSet(f, T \cup {x}) = f[x] + SumFunctionOnSet(f, T)
    BY <1>2, SumGrow
  <2>3. /\ SumFunctionOnSet(e, T) \in Int /\ e[x] \in Int
        /\ SumFunctionOnSet(e, T \cup {x}) = e[x] + SumFunctionOnSet(e, T)
    BY <1>2, SumGrow
  <2>4. f[x] <= e[x]
    BY <1>2 DEF AddsTo
  <2> QED BY <1>2, <2>2, <2>3, <2>4
<1> DEFINE G == {T \in SUBSET S : SumFunctionOnSet(f, T) <= SumFunctionOnSet(e, T)}
<1>3. {} \in G
  BY SumEmpty
<1>4. ASSUME NEW T \in G, NEW x \in S \ T PROVE T \cup {x} \in G
  <2>1. AddsTo(S, T, x)
    BY DEF AddsTo
  <2>2. SumFunctionOnSet(f, T \cup {x}) <= SumFunctionOnSet(e, T \cup {x})
    BY <1>2, <2>1
  <2> QED BY <2>2
<1>5. S \in G
  <2>1. G \in SUBSET SUBSET S
    OBVIOUS
  <2> HIDE DEF G
  <2> QED BY <1>3, <1>4, <2>1, FiniteGrowth
<1> QED BY <1>5

-----------------------------------------------------------------------------
(* Congruence. *)
SameModulo(n, x, y) == \E k \in Int : x - y = k * n

LEMMA ModuloBasics ==
  ASSUME NEW n \in Nat \ {0}, NEW x \in Int
  PROVE  /\ SameModulo(n, x, x)
         /\ x % n \in 0..n-1 /\ SameModulo(n, x % n, x)
<1>1. x - x = 0 * n
  OBVIOUS
<1>2. x % n \in 0..n-1 /\ x \div n \in Int /\ x = (x \div n) * n + (x % n)
  OBVIOUS
<1>3. \A d, r \in Int : x = d * n + r => r - x = (-d) * n
  OBVIOUS
<1>4. (x % n) - x = (-(x \div n)) * n /\ -(x \div n) \in Int
  BY <1>2, <1>3
<1>5. SameModulo(n, x % n, x)
  <2> SUFFICES \E k \in Int : (x % n) - x = k * n
    BY DEF SameModulo
  <2> WITNESS -(x \div n) \in Int
  <2> QED BY <1>4
<1>6. SameModulo(n, x, x)
  BY <1>1 DEF SameModulo
<1> QED BY <1>2, <1>5, <1>6

LEMMA ModuloSymmetric ==
  ASSUME NEW n \in Nat \ {0}, NEW x \in Int, NEW y \in Int, SameModulo(n, x, y)
  PROVE  SameModulo(n, y, x)
<1>1. PICK k \in Int : x - y = k * n
  BY DEF SameModulo
<1>2. -k \in Int /\ y - x = (-k) * n
  BY <1>1
<1> QED BY <1>2 DEF SameModulo

LEMMA ModuloPlus ==
  ASSUME NEW n \in Nat \ {0}, NEW x \in Int, NEW y \in Int, NEW u \in Int, NEW v \in Int,
         SameModulo(n, x, y), SameModulo(n, u, v)
  PROVE  /\ SameModulo(n, x + u, y + v) /\ SameModulo(n, x - u, y - v)
<1>1. PICK k \in Int : x - y = k * n
  BY DEF SameModulo
<1>2. PICK l \in Int : u - v = l * n
  BY DEF SameModulo
<1>3. k + l \in Int /\ (x + u) - (y + v) = (k + l) * n
  BY <1>1, <1>2
<1>4. k - l \in Int /\ (x - u) - (y - v) = (k - l) * n
  BY <1>1, <1>2
<1> QED BY <1>3, <1>4 DEF SameModulo

LEMMA ModuloTransitive ==
  ASSUME NEW n \in Nat \ {0}, NEW x \in Int, NEW y \in Int, NEW z \in Int,
         SameModulo(n, x, y), SameModulo(n, y, z)
  PROVE  SameModulo(n, x, z)
<1>1. PICK k \in Int : x - y = k * n
  BY DEF SameModulo
<1>2. PICK l \in Int : y - z = l * n
  BY DEF SameModulo
<1>3. k + l \in Int /\ x - z = (k + l) * n
  BY <1>1, <1>2
<1> QED BY <1>3 DEF SameModulo

LEMMA ModuloTimes ==
  ASSUME NEW n \in Nat \ {0}, NEW x \in Int, NEW y \in Int, NEW c \in Int, SameModulo(n, x, y)
  PROVE  SameModulo(n, c * x, c * y)
<1>1. PICK k \in Int : x - y = k * n
  BY DEF SameModulo
<1>2. c * k \in Int /\ c * x - c * y = (c * k) * n
  <2>1. c * x - c * y = c * (x - y)
    OBVIOUS
  <2>2. c * (k * n) = (c * k) * n
    OBVIOUS
  <2> QED BY <1>1, <2>1, <2>2
<1> QED BY <1>2 DEF SameModulo

(* What is congruent and small is equal. *)
LEMMA ModuloSmall ==
  ASSUME NEW n \in Nat \ {0}, NEW x \in Int, NEW y \in Int, SameModulo(n, x, y), x - y < n, y - x < n
  PROVE  x = y
<1>1. PICK k \in Int : x - y = k * n
  BY DEF SameModulo
<1>2. CASE k >= 1
  <2>1. (k - 1) * n >= 0
    BY <1>2
  <2>2. k * n >= n
    BY <2>1
  <2> QED BY <1>1, <2>2
<1>3. CASE k <= -1
  <2>1. (-k - 1) * n >= 0
    BY <1>3
  <2>2. -(k * n) >= n
    BY <2>1
  <2> QED BY <1>1, <2>2
<1>4. CASE k = 0
  BY <1>1, <1>4
<1> QED BY <1>2, <1>3, <1>4

LEMMA ModuloZero ==
  ASSUME NEW n \in Nat \ {0}, NEW x \in Int
  PROVE  x % n = 0 <=> SameModulo(n, x, 0)
<1>1. x % n \in 0..n-1 /\ SameModulo(n, x % n, x)
  BY ModuloBasics
<1>2. ASSUME x % n = 0 PROVE SameModulo(n, x, 0)
  BY <1>1, <1>2, ModuloSymmetric
<1>3. ASSUME SameModulo(n, x, 0) PROVE x % n = 0
  <2>1. SameModulo(n, x % n, 0)
    BY <1>1, <1>3, ModuloTransitive
  <2>2. (x % n) - 0 < n /\ 0 - (x % n) < n
    BY <1>1
  <2> QED BY <1>1, <2>1, <2>2, ModuloSmall
<1> QED BY <1>2, <1>3

(* Congruent terms have congruent sums. *)
LEMMA SumModulo ==
  ASSUME NEW n \in Nat \ {0}, NEW S, IsFiniteSet(S), NEW f, NEW e, IntegerAt(S, f), IntegerAt(S, e),
         \A x \in S : SameModulo(n, f[x], e[x])
  PROVE  SameModulo(n, SumFunctionOnSet(f, S), SumFunctionOnSet(e, S))
<1>2. ASSUME NEW T, NEW x, AddsTo(S, T, x), SameModulo(n, SumFunctionOnSet(f, T), SumFunctionOnSet(e, T))
      PROVE  SameModulo(n, SumFunctionOnSet(f, T \cup {x}), SumFunctionOnSet(e, T \cup {x}))
  <2>0. AddsTo(S, T, x)
    BY <1>2
  <2>2. /\ SumFunctionOnSet(f, T) \in Int /\ f[x] \in Int
        /\ SumFunctionOnSet(f, T \cup {x}) = f[x] + SumFunctionOnSet(f, T)
    BY ONLY <2>0, IsFiniteSet(S), IntegerAt(S, f), SumGrow
  <2>3. /\ SumFunctionOnSet(e, T) \in Int /\ e[x] \in Int
        /\ SumFunctionOnSet(e, T \cup {x}) = e[x] + SumFunctionOnSet(e, T)
    BY ONLY <2>0, IsFiniteSet(S), IntegerAt(S, e), SumGrow
  <2>4. SameModulo(n, f[x], e[x])
    BY <1>2 DEF AddsTo
  <2>5. SameModulo(n, f[x] + SumFunctionOnSet(f, T), e[x] + SumFunctionOnSet(e, T))
    BY <1>2, <2>2, <2>3, <2>4, ModuloPlus
  <2> QED BY <2>2, <2>3, <2>5
<1> DEFINE G == {T \in SUBSET S : SameModulo(n, SumFunctionOnSet(f, T), SumFunctionOnSet(e, T))}
<1>3. {} \in G
  <2>1. SameModulo(n, 0, 0)
    BY ModuloBasics
  <2>2. SumFunctionOnSet(f, {}) = 0 /\ SumFunctionOnSet(e, {}) = 0
    BY SumEmpty
  <2>3. SameModulo(n, SumFunctionOnSet(f, {}), SumFunctionOnSet(e, {}))
    BY <2>1, <2>2
  <2> QED BY <2>3
<1>4. ASSUME NEW T \in G, NEW x \in S \ T PROVE T \cup {x} \in G
  <2>1. AddsTo(S, T, x)
    BY DEF AddsTo
  <2>2. SameModulo(n, SumFunctionOnSet(f, T \cup {x}), SumFunctionOnSet(e, T \cup {x}))
    BY <1>2, <2>1
  <2> QED BY <2>2
<1>5. S \in G
  <2>1. G \in SUBSET SUBSET S
    OBVIOUS
  <2> HIDE DEF G
  <2> QED BY <1>3, <1>4, <2>1, FiniteGrowth
<1> QED BY <1>5

(* A sum may be taken group by group. *)
Groups(S, f, U, group, e) ==
  /\ \A x \in S : group[x] \in U
  /\ \A u \in U : e[u] = SumFunctionOnSet(f, {x \in S : group[x] = u})

LEMMA SumGroups ==
  ASSUME NEW S, IsFiniteSet(S), NEW f, IntegerAt(S, f), NEW U, IsFiniteSet(U), NEW group, NEW e,
         Groups(S, f, U, group, e)
  PROVE  IntegerAt(U, e) /\ SumFunctionOnSet(e, U) = SumFunctionOnSet(f, S)
<1> USE DEF Groups
<1> DEFINE of(V) == {x \in S : group[x] \in V}
<1>0. \A Q \in SUBSET S : IsFiniteSet(Q) /\ IntegerAt(Q, f)
  BY FS_Subset DEF IntegerAt
<1>1. IntegerAt(U, e)
  <2> SUFFICES ASSUME NEW u \in U PROVE e[u] \in Int
    BY DEF IntegerAt
  <2> DEFINE Q == {x \in S : group[x] = u}
  <2>1. Q \in SUBSET S /\ e[u] = SumFunctionOnSet(f, Q)
    OBVIOUS
  <2> HIDE DEF Q
  <2>2. IsFiniteSet(Q) /\ IntegerAt(Q, f)
    BY <1>0, <2>1
  <2> QED BY <2>1, <2>2, SumType
<1>2. ASSUME NEW V, NEW u, AddsTo(U, V, u), SumFunctionOnSet(e, V) = SumFunctionOnSet(f, of(V))
      PROVE  SumFunctionOnSet(e, V \cup {u}) = SumFunctionOnSet(f, of(V \cup {u}))
  <2> DEFINE W == of(V \cup {u})
             T == of(V)
             Q == {x \in S : group[x] = u}
  <2>0. AddsTo(U, V, u)
    BY <1>2
  <2>1. T \subseteq W /\ W \ T = Q /\ W \in SUBSET S /\ e[u] = SumFunctionOnSet(f, Q)
    BY <1>2 DEF AddsTo
  <2>2. SumFunctionOnSet(e, V) = SumFunctionOnSet(f, T)
    BY <1>2
  <2>3. e[u] \in Int /\ SumFunctionOnSet(e, V \cup {u}) = e[u] + SumFunctionOnSet(e, V)
    BY ONLY <1>1, <2>0, IsFiniteSet(U), SumGrow
  <2> HIDE DEF W, T, Q
  <2>4. IsFiniteSet(W) /\ IntegerAt(W, f)
    BY <1>0, <2>1
  <2>5. SumFunctionOnSet(f, T) \in Int /\ SumFunctionOnSet(f, W) = SumFunctionOnSet(f, T) + SumFunctionOnSet(f, Q)
    BY <2>1, <2>4, SumSplit
  <2>6. SumFunctionOnSet(e, V \cup {u}) = SumFunctionOnSet(f, W)
    BY <2>1, <2>2, <2>3, <2>5
  <2> QED BY <2>6 DEF W
<1> DEFINE G == {V \in SUBSET U : SumFunctionOnSet(e, V) = SumFunctionOnSet(f, of(V))}
<1>3. {} \in G
  <2>1. of({}) = {}
    OBVIOUS
  <2> QED BY <2>1, SumEmpty
<1>4. ASSUME NEW V \in G, NEW u \in U \ V PROVE V \cup {u} \in G
  <2>1. AddsTo(U, V, u)
    BY DEF AddsTo
  <2>2. SumFunctionOnSet(e, V \cup {u}) = SumFunctionOnSet(f, of(V \cup {u}))
    BY <1>2, <2>1
  <2> QED BY <2>2
<1>5. U \in G
  <2>1. G \in SUBSET SUBSET U
    OBVIOUS
  <2> HIDE DEF G
  <2> QED BY <1>3, <1>4, <2>1, FiniteGrowth
<1>6. of(U) = S
  OBVIOUS
<1> QED BY <1>1, <1>5, <1>6

(* Terms that are zero can be left out of a sum. *)
LEMMA SumNonzero ==
  ASSUME NEW S, IsFiniteSet(S), NEW f, IntegerAt(S, f), NEW T, T \subseteq S, \A x \in S \ T : f[x] = 0
  PROVE  SumFunctionOnSet(f, S) = SumFunctionOnSet(f, T)
<1> DEFINE R == S \ T
<1>1. IsFiniteSet(R)
  BY FS_Difference
<1>2. SumFunctionOnSet(f, R) = 0
  <2>1. IntegerAt(R, f) /\ \A x \in R : f[x] = 0 * f[x]
    BY DEF IntegerAt
  <2> HIDE DEF R
  <2>2. SumFunctionOnSet(f, R) = 0 * SumFunctionOnSet(f, R)
    BY <1>1, <2>1, SumTimes
  <2>3. SumFunctionOnSet(f, R) \in Int
    BY <1>1, <2>1, SumType
  <2> QED BY <2>2, <2>3
<1>3. /\ SumFunctionOnSet(f, T) \in Int
      /\ SumFunctionOnSet(f, S) = SumFunctionOnSet(f, T) + SumFunctionOnSet(f, S \ T)
  BY SumSplit
<1> QED BY <1>2, <1>3

(* The sum over one element. *)
LEMMA SumOne ==
  ASSUME NEW x, NEW f, f[x] \in Int
  PROVE  SumFunctionOnSet(f, {x}) = f[x]
<1>1. IsFiniteSet({x}) /\ IntegerAt({x}, f) /\ x \in {x} /\ {x} \ {x} = {}
  BY FS_Singleton DEF IntegerAt
<1>2. SumFunctionOnSet(f, {x}) = f[x] + SumFunctionOnSet(f, {x} \ {x})
  BY <1>1, SumTake
<1>3. SumFunctionOnSet(f, {x} \ {x}) = 0
  BY <1>1, SumEmpty, Zenon
<1> QED BY <1>2, <1>3

(* A sum whose terms are all zero. *)
LEMMA SumZero ==
  ASSUME NEW S, IsFiniteSet(S), NEW f, \A x \in S : f[x] = 0
  PROVE  SumFunctionOnSet(f, S) = 0
<1>1. IntegerAt(S, f)
  BY DEF IntegerAt
<1>2. {} \subseteq S /\ \A x \in S \ {} : f[x] = 0
  OBVIOUS
<1>3. SumFunctionOnSet(f, S) = SumFunctionOnSet(f, {})
  BY <1>1, <1>2, SumNonzero
<1> QED BY <1>3, SumEmpty, Zenon

(* A sum of non-negative numbers is at least each of them. *)
LEMMA SumCovers ==
  ASSUME NEW S, IsFiniteSet(S), NEW f, IntegerAt(S, f), \A x \in S : f[x] >= 0, NEW y \in S
  PROVE  f[y] \in Int /\ f[y] <= SumFunctionOnSet(f, S)
<1> DEFINE T == S \ {y}
           z == [x \in T |-> 0]
<1>1. /\ SumFunctionOnSet(f, T) \in Int
      /\ SumFunctionOnSet(f, S) = f[y] + SumFunctionOnSet(f, T)
  BY SumTake
<1>2. IsFiniteSet(T) /\ IntegerAt(T, f) /\ IntegerAt(T, z) /\ \A x \in T : z[x] <= f[x]
  <2>1. IsFiniteSet(T)
    BY FS_Subset
  <2>2. IntegerAt(T, z)
    BY DEF IntegerAt
  <2>3. IntegerAt(T, f)
    BY DEF IntegerAt
  <2>4. \A x \in T : z[x] = 0 /\ f[x] >= 0 /\ f[x] \in Int
    BY DEF IntegerAt
  <2> HIDE DEF z
  <2> QED BY <2>1, <2>2, <2>3, <2>4
<1>3. SumFunctionOnSet(z, T) = 0
  <2>1. \A x \in T : z[x] = 0 * z[x]
    OBVIOUS
  <2> HIDE DEF z
  <2>2. ASSUME NEW k \in Int, k = 0 PROVE SumFunctionOnSet(z, T) = 0
    <3>1. \A x \in T : z[x] = k * z[x]
      BY <2>1, <2>2
    <3>2. SumFunctionOnSet(z, T) = k * SumFunctionOnSet(z, T)
      BY ONLY <1>2, <3>1, k \in Int, SumTimes
    <3>3. SumFunctionOnSet(z, T) \in Int
      BY <1>2, SumType
    <3> QED BY ONLY <2>2, <3>2, <3>3
  <2> QED BY <2>2
<1> HIDE DEF z
<1>4. SumFunctionOnSet(z, T) <= SumFunctionOnSet(f, T)
  BY ONLY <1>2, SumMonotone
<1>5. f[y] \in Int
  BY DEF IntegerAt
<1> HIDE DEF T
<1> QED BY <1>1, <1>3, <1>4, <1>5

(* An integer division rounds down, and its quotient is the greatest. *)
LEMMA QuotientBounds ==
  ASSUME NEW n \in Nat \ {0}, NEW r \in Int, r >= 0
  PROVE  /\ r \div n \in Nat
         /\ \A x \in Nat : n * x <= r => x <= r \div n
<1> DEFINE q == r \div n
           d == r % n
<1>1. q \in Int /\ d \in 0..n-1 /\ r = n * q + d
  OBVIOUS
<1>2. ASSUME NEW x \in Nat, n * x <= r, ~(x <= q) PROVE FALSE
  <2> HIDE DEF q, d
  <2>1. x >= q + 1
    BY <1>1, <1>2
  <2>2. PICK k \in Nat : x = q + 1 + k
    <3>1. x - q - 1 \in Nat /\ x = q + 1 + (x - q - 1)
      BY <1>1, <2>1
    <3> QED BY <3>1
  <2>3. n * x = n * q + n + n * k /\ n * q \in Int /\ n * k \in Int
    BY <1>1, <2>2
  <2>4. n * k >= 0
    BY ONLY <2>2, n \in Nat \ {0}
  <2> QED BY <1>1, <1>2, <2>3, <2>4
<1>3. q >= 0
  <2> HIDE DEF q, d
  <2>1. ASSUME ~(q >= 0) PROVE FALSE
    <3>1. PICK k \in Nat : q = -1 - k
      <4>1. -1 - q \in Nat /\ q = -1 - (-1 - q)
        BY <1>1, <2>1
      <4> QED BY <4>1
    <3>2. n * q = -n - n * k /\ n * k \in Int
      BY <1>1, <3>1
    <3>3. n * k >= 0
      BY ONLY <3>1, n \in Nat \ {0}
    <3> QED BY <1>1, <3>2, <3>3
  <2> QED BY <2>1
<1> QED BY <1>1, <1>2, <1>3

(* Adding up from the first element to the last is one way of taking a sum. *)
PrefixSum(F, n, f) == F = [i \in 0..n |-> IF i = 0 THEN 0 ELSE F[i-1] + f[i]]

LEMMA PrefixSums ==
  ASSUME NEW n \in Nat, NEW f, IntegerAt(1..n, f)
  PROVE  (CHOOSE F : PrefixSum(F, n, f))[n] = SumFunctionOnSet(f, 1..n)
<1> DEFINE H == [i \in 0..n |-> SumFunctionOnSet(f, 1..i)]
           G == CHOOSE F : PrefixSum(F, n, f)
<1>0. IsFiniteSet(1..n)
  BY FS_Interval
<1>1. H[0] = 0
  <2>1. 1..0 = {}
    OBVIOUS
  <2>2. H[0] = SumFunctionOnSet(f, 1..0)
    OBVIOUS
  <2> QED BY <2>1, <2>2, SumEmpty, Zenon
<1>2. ASSUME NEW i \in 1..n PROVE H[i] = H[i-1] + f[i]
  <2>1. AddsTo(1..n, 1..(i-1), i) /\ (1..(i-1)) \cup {i} = 1..i
    BY DEF AddsTo
  <2> DEFINE before == SumFunctionOnSet(f, 1..(i-1))
  <2>2. /\ before \in Int /\ f[i] \in Int
        /\ SumFunctionOnSet(f, (1..(i-1)) \cup {i}) = f[i] + before
    BY <1>0, <2>1, SumGrow
  <2>3. H[i-1] = before
    <3>1. i - 1 \in 0..n
      OBVIOUS
    <3> QED BY <3>1, Zenon
  <2>4. H[i] = SumFunctionOnSet(f, 1..i)
    <3>1. i \in 0..n
      OBVIOUS
    <3> QED BY <3>1, Zenon
  <2>5. SumFunctionOnSet(f, 1..i) = f[i] + before
    BY <2>1, <2>2, Zenon
  <2> HIDE DEF H, before
  <2> QED BY <2>2, <2>3, <2>4, <2>5
<1>3. PrefixSum(H, n, f)
  <2>1. \A i \in 0..n : H[i] = (IF i = 0 THEN 0 ELSE H[i-1] + f[i])
    <3> SUFFICES ASSUME NEW i \in 0..n PROVE H[i] = (IF i = 0 THEN 0 ELSE H[i-1] + f[i])
      OBVIOUS
    <3> HIDE DEF H
    <3>1. i = 0 \/ i \in 1..n
      OBVIOUS
    <3> QED BY <1>1, <1>2, <3>1
  <2>2. H = [i \in 0..n |-> H[i]]
    OBVIOUS
  <2> HIDE DEF H
  <2> QED BY <2>1, <2>2 DEF PrefixSum
<1>4. PrefixSum(G, n, f)
  BY <1>3, Zenon
<1> HIDE DEF G
<1>5. /\ \A i \in 1..n : G[i] = G[i-1] + f[i]
      /\ G[0] = 0
  BY <1>4 DEF PrefixSum
<1> HIDE DEF H
<1> DEFINE K == {i \in 0..n : G[i] = H[i]}
<1>6. 0 \in K
  BY <1>1, <1>5
<1>7. \A k \in 0..n-1 : k \in K => k + 1 \in K
  <2> SUFFICES ASSUME NEW k \in 0..n-1, G[k] = H[k] PROVE k + 1 \in 0..n /\ G[k+1] = H[k+1]
    OBVIOUS
  <2>1. k + 1 \in 1..n /\ (k + 1) - 1 = k
    OBVIOUS
  <2>2. G[k+1] = G[(k+1)-1] + f[k+1] /\ H[k+1] = H[(k+1)-1] + f[k+1]
    BY <1>2, <1>5, <2>1
  <2> QED BY <2>1, <2>2
<1>8. n \in K
  <2> HIDE DEF K
  <2>1. \A k \in 0..n : k \in K
    BY <1>6, <1>7, CountingUp
  <2> QED BY <2>1
<1>9. G[n] = H[n]
  BY <1>8
<1>10. H[n] = SumFunctionOnSet(f, 1..n)
  <2>1. n \in 0..n
    OBVIOUS
  <2> QED BY <2>1, Zenon DEF H
<1> QED BY <1>9, <1>10 DEF G

-----------------------------------------------------------------------------
(* dependency_component_cut returns wires, holds the target, keeps out of the
   cut, and is closed under the edges.                                        *)
LEMMA ComponentFacts ==
  ASSUME NEW m, WellFormed(m), NEW t \in m.wires, NEW cut, t \notin cut
  PROVE  LET C == DependencyComponentCut(m, t, cut)
         IN  C \subseteq m.wires /\ t \in C /\ C \cap cut = {} /\ Closed(m, C, cut)
<1> DEFINE C == DependencyComponentCut(m, t, cut)
           Good(S) == t \in S /\ Closed(m, S, cut)
<1>1. C = {w \in m.wires : \A S \in SUBSET m.wires : Good(S) => w \in S}
  BY DEF DependencyComponentCut
<1>2. \A e \in Edges(m) : e \subseteq m.wires
  BY DEF Edges, WellFormed, Ops
<1>3. C \subseteq m.wires /\ t \in C
  BY <1>1
<1>4. C \cap cut = {}
  <2>1. Good(m.wires \ cut)
    BY <1>2 DEF Closed
  <2> QED BY <1>1, <2>1
<1>5. Closed(m, C, cut)
  <2> SUFFICES ASSUME NEW e \in Edges(m), NEW w \in e \cap C, NEW v \in e \ cut
               PROVE  v \in C
    BY DEF Closed
  <2>1. ASSUME NEW S \in SUBSET m.wires, Good(S)
        PROVE  v \in S
    <3>1. w \in S
      BY <1>1, <2>1
    <3> QED BY <2>1, <3>1 DEF Closed
  <2>2. v \in m.wires
    BY <1>2
  <2> QED BY <1>1, <2>1, <2>2
<1> QED BY <1>3, <1>4, <1>5

(* A smaller closed set exists only outside: the component is the least one. *)
LEMMA ComponentLeast ==
  ASSUME NEW m, NEW t \in m.wires, NEW cut, t \notin cut,
         NEW S \in SUBSET m.wires, t \in S, Closed(m, S, cut)
  PROVE  DependencyComponentCut(m, t, cut) \subseteq S
BY DEF DependencyComponentCut

(* Every query over-approximates: whatever component it is built from, two
   honest runs with the same inputs that differ on the target solve it. No
   constraint of the query can reject them: translated opcodes hold in both,
   abstracted ones are functions, pins and equalities are facts of the circuit. *)
THEOREM QueryOverApproximates ==
  ASSUME NEW m, WellFormed(m), SoundModel(m), NEW component, NEW known,
         \A w \in known : Unique(m, w),
         NEW t,
         NEW a \in Solutions(m), NEW b \in Solutions(m),
         SameOn(m.inputs, a, b), a[t] # b[t]
  PROVE  <<a, b>> \in QueryPairs(m, component, known, t)
<1>1. \A o \in Ops(m) : Holds(o, a) /\ Holds(o, b)
  BY DEF Solutions
<1>2. a \in Assignments(m) /\ b \in Assignments(m)
  BY DEF Solutions
<1>3. CopyHolds(m, component, a) /\ CopyHolds(m, component, b)
  BY <1>1 DEF CopyHolds, Selected, Pinned, HardCut, SoundModel
<1>4. SameOn(m.inputs \cup known, a, b)
  BY DEF SameOn, Unique
<1>5. ASSUME NEW o \in Selected(m, component)
      PROVE  GroupHolds(m, o, a, b)
  <2>1. o \in Ops(m) /\ Treatment(m, o) \in {"exact", "functional"}
    BY DEF Selected, HasGroup
  <2>2. CASE Treatment(m, o) = "exact"
    BY <1>1, <2>1, <2>2 DEF GroupHolds
  <2>3. CASE Treatment(m, o) = "functional"
    <3>1. IsFunction(m, o)
      BY <2>1, <2>3 DEF SoundModel
    <3> QED BY <1>1, <1>2, <2>1, <2>3, <3>1 DEF GroupHolds, IsFunction
  <2> QED BY <2>1, <2>2, <2>3
<1> QED BY <1>2, <1>3, <1>4, <1>5 DEF QueryPairs

(* UNSAT on any slice proves the target unique. *)
THEOREM UnsatIsUnique ==
  ASSUME NEW m, WellFormed(m), SoundModel(m), NEW component, NEW known,
         \A w \in known : Unique(m, w),
         NEW t, QueryPairs(m, component, known, t) = {}
  PROVE  Unique(m, t)
<1> SUFFICES ASSUME NEW a \in Solutions(m), NEW b \in Solutions(m),
                    SameOn(m.inputs, a, b), a[t] # b[t]
             PROVE  FALSE
  BY DEF Unique
<1> QED BY QueryOverApproximates

-----------------------------------------------------------------------------
(* The other direction: what the exact slice finds is there.                 *)

(* Two assignments that agree on an opcode's wires are the same to it. *)
LEMMA OpcodeIsLocal ==
  ASSUME NEW m, WellFormed(m), NEW o \in Ops(m), o.kind # "hint",
         NEW a \in Assignments(m), NEW b \in Assignments(m), SameOn(o.wires, a, b)
  PROVE  Holds(o, a) <=> Holds(o, b)
<1>1. OnOwnWires(m, o, a) = OnOwnWires(m, o, b)
  BY DEF OnOwnWires, SameOn
<1>2. LocalOpcode(m, o)
  BY DEF WellFormed
<1> QED BY <1>1, <1>2 DEF LocalOpcode

(* The assignment a inside the component, the honest run h outside it. *)
Splice(m, component, a, h) ==
  [w \in m.wires |-> IF w \in component THEN a[w] ELSE h[w]]

(* A copy that a query of the exact slice accepts is completed to a run of the
   whole circuit by any honest run: the two can only meet at constant wires,
   where the pins make them agree. Opcodes the query does not constrain must
   have been re-checked (a certificate), and a Brillig call never rejects.   *)
LEMMA SpliceIsSolution ==
  ASSUME NEW m, WellFormed(m), SoundModel(m), NEW component \in SUBSET m.wires,
         Closed(m, component, HardCut(m)),
         NEW a \in Assignments(m), CopyHolds(m, component, a),
         \A o \in Ops(m) : Touches(o, component) =>
           \/ Treatment(m, o) \in {"exact", "hint"}
           \/ Treatment(m, o) \in {"functional", "dropped"} /\ Holds(o, a),
         NEW h \in Solutions(m)
  PROVE  Splice(m, component, a, h) \in Solutions(m)
<1> DEFINE s == Splice(m, component, a, h)
<1>1. h \in Assignments(m) /\ \A o \in Ops(m) : Holds(o, h)
  BY DEF Solutions
<1>2. s \in Assignments(m)
  BY <1>1 DEF Splice, Assignments
<1>3. ASSUME NEW o \in Ops(m)
      PROVE  Holds(o, s)
  <2>1. o.wires \subseteq m.wires /\ o.kind \in Kinds
    BY <1>3 DEF WellFormed
  <2>2. CASE o.kind = "hint"
    BY <1>2, <2>2 DEF WellFormed
  <2>3. CASE o.kind # "hint" /\ ~Touches(o, component)
    <3>1. SameOn(o.wires, s, h)
      BY <2>1, <2>3 DEF SameOn, Splice, Touches
    <3> QED BY <1>1, <1>2, <1>3, <2>3, <3>1, OpcodeIsLocal
  <2>4. CASE o.kind # "hint" /\ Touches(o, component)
    <3>1. Treatment(m, o) # "hint"
      BY <2>4 DEF Treatment
    <3>2. Holds(o, a)
      BY <2>4, <3>1 DEF CopyHolds, Selected, HasGroup
    <3>3. o.wires \ HardCut(m) \subseteq component
      <4>1. o.wires \in Edges(m) /\ o.wires \cap component # {}
        BY <2>4 DEF Edges, Touches
      <4> QED BY <4>1 DEF Closed
    <3>4. SameOn(o.wires, s, a)
      <4> SUFFICES ASSUME NEW w \in o.wires
                   PROVE  s[w] = a[w]
        BY DEF SameOn
      <4>1. CASE w \in component
        BY <2>1, <4>1 DEF Splice
      <4>2. CASE w \notin component
        <5>1. w \in HardCut(m)
          BY <3>3, <4>2
        <5>2. Treatment(m, o) # "dropped"
          <6>1. ASSUME Treatment(m, o) = "dropped" PROVE FALSE
            <7>1. o.kind = "dropped"
              BY <6>1 DEF Treatment
            <7>2. PICK v \in o.wires : v \in component
              BY <2>4 DEF Touches
            <7> QED BY <4>2, <7>1, <7>2 DEF WellFormed
          <6> QED BY <6>1
        <5>3. o \in Selected(m, component)
          BY <2>4, <3>1, <5>2 DEF Selected, HasGroup
        <5>4. a[w] = m.consts[w]
          BY <5>1, <5>3 DEF CopyHolds, Pinned
        <5>5. h[w] = m.consts[w]
          BY <5>1 DEF SoundModel, HardCut
        <5> QED BY <2>1, <4>2, <5>4, <5>5 DEF Splice
      <4> QED BY <4>1, <4>2
    <3> QED BY <1>2, <1>3, <2>4, <3>2, <3>4, OpcodeIsLocal
  <2> QED BY <2>2, <2>3, <2>4
<1> QED BY <1>2, <1>3 DEF Solutions

(* A counterexample on the exact slice is a divergence of the circuit, when
   each opcode of the slice is translated exactly or holds in both copies.   *)
THEOREM ExactSliceIsReal ==
  ASSUME NEW m, WellFormed(m), SoundModel(m), NEW t \in m.wires, t \notin HardCut(m),
         NEW component, component = DependencyComponentCut(m, t, HardCut(m)),
         NEW known, NEW a, NEW b, <<a, b>> \in QueryPairs(m, component, known, t),
         \A o \in Ops(m) : Touches(o, component) =>
           \/ Treatment(m, o) \in {"exact", "hint"}
           \/ /\ Treatment(m, o) \in {"functional", "dropped"}
              /\ Holds(o, a) /\ Holds(o, b),
         Solutions(m) # {}
  PROVE  ~Unique(m, t)
<1>1. PICK h \in Solutions(m) : TRUE
  OBVIOUS
<1>2. component \subseteq m.wires /\ t \in component /\ Closed(m, component, HardCut(m))
  BY ComponentFacts
<1>3. /\ a \in Assignments(m) /\ CopyHolds(m, component, a)
      /\ b \in Assignments(m) /\ CopyHolds(m, component, b)
      /\ SameOn(m.inputs, a, b) /\ a[t] # b[t]
  BY DEF QueryPairs, SameOn
<1> DEFINE p == Splice(m, component, a, h)
           q == Splice(m, component, b, h)
<1>4. p \in Solutions(m)
  BY <1>1, <1>2, <1>3, SpliceIsSolution
<1>5. q \in Solutions(m)
  BY <1>1, <1>2, <1>3, SpliceIsSolution
<1>6. SameOn(m.inputs, p, q)
  <2>1. m.inputs \subseteq m.wires
    BY DEF WellFormed
  <2> QED BY <1>3, <2>1 DEF SameOn, Splice
<1>7. p[t] # q[t]
  BY <1>2, <1>3 DEF Splice
<1> QED BY <1>4, <1>5, <1>6, <1>7 DEF Unique

-----------------------------------------------------------------------------
(* Circuits with memory: what the candidates of module Candidates are, and what a
   run finds in a block.                                                        *)

(* The initialisation of a block that is in force at opcode i, and the value
   of its cell k there: the last one written, or the initial one.            *)
InitBefore(c, b, i) ==
  Max({0} \cup {j \in 1..i-1 : c.opcodes[j].type = "MemoryInit" /\ c.opcodes[j].block = b})

Writes(c, a, b, k, i) ==
  {j \in InitBefore(c, b, i)+1..i-1 : /\ c.opcodes[j].type = "Write" /\ c.opcodes[j].block = b
                                      /\ a[c.opcodes[j].index] = k}

Content(c, a, b, k, i) ==
  IF Writes(c, a, b, k, i) # {} THEN a[c.opcodes[Max(Writes(c, a, b, k, i))].value]
  ELSE a[c.opcodes[InitBefore(c, b, i)].init[k + 1]]

(* What opcode i asks of a run. *)
Fulfilled(c, a, i) ==
  LET o == c.opcodes[i]
  IN  IF IsAccess(o)
      THEN /\ InitOf(c, i) # 0
           /\ a[o.index] < Len(c.opcodes[InitOf(c, i)].init)
           /\ o.type = "Read" => a[o.value] = LastValue(c, a, i)
      ELSE o.type # "MemoryInit" => AcirHolds(o, a)

Tracks(c, a, B, i) ==
  \A b \in DOMAIN B :
    /\ InitBefore(c, b, i) # 0
    /\ Len(B[b]) = Len(c.opcodes[InitBefore(c, b, i)].init)
    /\ \A k \in 0..Len(B[b])-1 : B[b][k + 1] = Content(c, a, b, k, i)

LEMMA CircuitFacts ==
  ASSUME NEW c, WellFormedCircuit(c)
  PROVE  /\ c.wires \subseteq Nat /\ IsFiniteSet(c.wires)
         /\ c.inputs \subseteq c.wires /\ c.hints \subseteq c.wires /\ c.returns \subseteq c.wires
         /\ c.hints \cap c.inputs = {}
         /\ Len(c.opcodes) \in Nat /\ DOMAIN c.opcodes = 1..Len(c.opcodes)
         /\ \A i \in 1..Len(c.opcodes) : c.opcodes[i].wires \subseteq c.wires /\ WellFormedOpcode(c.opcodes[i])
<1>1. c.opcodes \in Seq({c.opcodes[i] : i \in DOMAIN c.opcodes})
  BY DEF WellFormedCircuit
<1>2. Len(c.opcodes) \in Nat /\ DOMAIN c.opcodes = 1..Len(c.opcodes)
  BY <1>1
<1> QED BY <1>2 DEF WellFormedCircuit

LEMMA FieldFacts == IsFiniteSet(Field) /\ Field \subseteq Int /\ \A n \in Int : n % P \in Field
<1>1. P \in Nat \ {0}
  BY ParametersAreNatural
<1> QED BY <1>1, FS_Interval DEF Field

LEMMA OverlayFacts ==
  ASSUME NEW f, NEW g
  PROVE  /\ DOMAIN Overlay(f, g) = DOMAIN f \cup DOMAIN g
         /\ \A x \in DOMAIN f : Overlay(f, g)[x] = f[x]
         /\ \A x \in DOMAIN g : x \notin DOMAIN f => Overlay(f, g)[x] = g[x]
BY DEF Overlay

Valued(f) == f \in [DOMAIN f -> Field]

LEMMA OverlayType ==
  ASSUME NEW f, NEW g, Valued(f), Valued(g)
  PROVE  Valued(Overlay(f, g))
BY DEF Overlay, Valued

LEMMA EntryFacts ==
  ASSUME NEW T, NEW x, NEW v \in T
  PROVE  DOMAIN Entry(x, v) = {x} /\ Entry(x, v)[x] = v /\ Entry(x, v) \in [DOMAIN Entry(x, v) -> T]
BY DEF Entry

LEMMA SeqOfMore ==
  ASSUME NEW S, NEW T, S \subseteq T, NEW s \in Seq(S)
  PROVE  s \in Seq(T)
OBVIOUS

(* A set of witnesses, or of values, in ascending order. *)
LEMMA AscendingType ==
  ASSUME NEW S \in SUBSET Int, IsFiniteSet(S)
  PROVE  Ascending(S) \in Seq(S)
<1> DEFINE At(k) == CHOOSE v \in S : Cardinality({u \in S : u < v}) = k - 1
<1>1. Cardinality(S) \in Nat
  BY FS_CardinalityType
<1>2. ASSUME NEW k \in 1..Cardinality(S) PROVE At(k) \in S
  <2>1. k - 1 \in 0..Cardinality(S)-1
    BY <1>1
  <2>2. \E v \in S : Cardinality({u \in S : u < v}) = k - 1
    BY <2>1, RankExists
  <2> QED BY <2>2
<1>3. Ascending(S) = [k \in 1..Cardinality(S) |-> At(k)]
  BY DEF Ascending
<1> HIDE DEF At
<1> QED BY <1>1, <1>2, <1>3

LEMMA KeepType ==
  ASSUME NEW T, NEW s \in Seq(T), NEW I \in SUBSET DOMAIN s
  PROVE  /\ Keep(s, I) \in Seq(T)
         /\ \A k \in DOMAIN Keep(s, I) : \E i \in I : Keep(s, I)[k] = s[i]
<1>1. DOMAIN s = 1..Len(s) /\ Len(s) \in Nat
  OBVIOUS
<1>2. I \in SUBSET Int /\ IsFiniteSet(I)
  <2>1. IsFiniteSet(1..Len(s)) /\ I \in SUBSET (1..Len(s))
    BY <1>1, FS_Interval
  <2>2. I \in SUBSET Int
    BY <2>1
  <2> QED BY <2>1, <2>2, FS_Subset
<1> DEFINE at == Ascending(I)
<1>3. at \in Seq(I)
  BY <1>2, AscendingType
<1> HIDE DEF at
<1>4. Keep(s, I) = [k \in DOMAIN at |-> s[at[k]]]
  BY DEF Keep, at
<1>5. \A k \in DOMAIN at : at[k] \in I
  BY <1>3
<1>6. DOMAIN at = 1..Len(at) /\ Len(at) \in Nat
  BY <1>3
<1>7. \A k \in DOMAIN at : s[at[k]] \in T
  BY <1>5
<1> QED BY <1>4, <1>5, <1>6, <1>7

LEMMA OtherType ==
  ASSUME NEW T, NEW s \in Seq(T), NEW v
  PROVE  Other(s, v) \in Seq(T) /\ \A k \in DOMAIN Other(s, v) : Other(s, v)[k] # v
BY KeepType DEF Other

LEMMA DedupType ==
  ASSUME NEW T, NEW s \in Seq(T)
  PROVE  /\ Dedup(s) \in Seq(T)
         /\ \A k \in DOMAIN Dedup(s) : \E i \in DOMAIN s : Dedup(s)[k] = s[i]
<1> DEFINE I == {i \in DOMAIN s : i = 1 \/ s[i] # s[i-1]}
<1>1. I \in SUBSET DOMAIN s /\ Dedup(s) = Keep(s, I)
  BY DEF Dedup
<1> HIDE DEF I
<1> QED BY <1>1, KeepType

LEMMA DistinctType ==
  ASSUME NEW T, NEW s \in Seq(T)
  PROVE  Distinct(s) \in Seq(T)
BY KeepType DEF Distinct

LEMMA CandidateType ==
  ASSUME NEW v \in Field
  PROVE  /\ CandidateValues(v) \in Seq(Field)
         /\ \A k \in DOMAIN CandidateValues(v) : CandidateValues(v)[k] # v
<1> DEFINE tried7 == <<(v + 1) % P, (v - 1) % P, 0, 1, P - 1, (v + v) % P, (v + 256) % P>>
           values == Dedup(Other(tried7, v))
           n == Min({Max({Attempts, 1}), Len(values)})
<1>1. tried7 \in Seq(Field)
  <2>1. P \in Nat \ {0, 1} /\ v \in Int
    BY ParametersAreNatural DEF Field
  <2>2. (v + 1) % P \in Field /\ (v - 1) % P \in Field /\ (v + v) % P \in Field /\ (v + 256) % P \in Field
    BY <2>1, FieldFacts
  <2>3. 0 \in Field /\ 1 \in Field /\ P - 1 \in Field
    BY <2>1 DEF Field
  <2> QED BY <2>2, <2>3
<1> HIDE DEF tried7
<1>2. Other(tried7, v) \in Seq(Field) /\ \A k \in DOMAIN Other(tried7, v) : Other(tried7, v)[k] # v
  BY <1>1, OtherType
<1>3. values \in Seq(Field) /\ \A k \in DOMAIN values : values[k] # v
  BY <1>2, DedupType
<1> HIDE DEF values
<1>4. n \in 0..Len(values)
  <2>1. Max({Attempts, 1}) \in Nat
    <3>1. Attempts \in Nat
      BY ParametersAreNatural
    <3> QED BY <3>1, PairExtrema
  <2>2. Len(values) \in Nat
    BY <1>3
  <2> DEFINE most == Max({Attempts, 1})
             len == Len(values)
  <2>3. most \in Int /\ len \in Int
    BY <2>1, <2>2
  <2> HIDE DEF most, len
  <2>4. Min({most, len}) \in {most, len} /\ Min({most, len}) <= len
    BY <2>3, PairExtrema
  <2> USE DEF most, len
  <2> QED BY <2>1, <2>2, <2>4
<1> HIDE DEF n
<1>5. CandidateValues(v) = SubSeq(values, 1, n)
  BY DEF CandidateValues, values, n, tried7
<1> QED BY <1>3, <1>4, <1>5

LEMMA WidthFacts ==
  ASSUME NEW c, WellFormedCircuit(c), NEW w, Widths(c, w) # {}
  PROVE  2^Min(Widths(c, w)) \in Nat
<1> DEFINE I == {j \in DOMAIN c.opcodes : c.opcodes[j].type = "RANGE" /\ c.opcodes[j].wires = {w}}
           bits == [i \in I |-> c.opcodes[i].bits]
<1>1. Widths(c, w) = {bits[i] : i \in I}
  BY DEF Widths
<1>2. I \in SUBSET (1..Len(c.opcodes)) /\ Len(c.opcodes) \in Nat
  BY CircuitFacts
<1>3. IsFiniteSet(I)
  BY <1>2, FS_Interval, FS_Subset
<1>4. \A i \in I : bits[i] \in Nat /\ 2^bits[i] \in Nat
  <2> TAKE i \in I
  <2>1. WellFormedOpcode(c.opcodes[i]) /\ c.opcodes[i].type = "RANGE"
    BY CircuitFacts
  <2> QED BY <2>1 DEF WellFormedOpcode
<1>5. DOMAIN bits = I
  OBVIOUS
<1> HIDE DEF I, bits
<1>6. IsFiniteSet(Widths(c, w))
  BY <1>1, <1>3, <1>5, ImageFinite
<1>7. Widths(c, w) \in SUBSET Int
  BY <1>1, <1>4
<1>8. Min(Widths(c, w)) \in Widths(c, w)
  BY <1>6, <1>7, MinExists
<1> QED BY <1>1, <1>4, <1>8

LEMMA InputType ==
  ASSUME NEW c, WellFormedCircuit(c), NEW w, NEW v \in Field
  PROVE  InputCandidates(c, w, v) \in Seq(Field)
<1> DEFINE top == 2^Min(Widths(c, w)) - 1
           edges == IF Widths(c, w) = {} THEN << >> ELSE <<top % P, (top - 1) % P, ((top + 1) \div 2) % P>>
<1>1. CASE Widths(c, w) = {}
  <2>1. edges = << >> /\ edges \in Seq(Field)
    BY <1>1
  <2>2. CandidateValues(v) \o edges \in Seq(Field)
    BY <2>1, CandidateType
  <2> HIDE DEF edges
  <2>3. InputCandidates(c, w, v) = Dedup(Other(CandidateValues(v) \o edges, v))
    BY DEF InputCandidates, edges
  <2>4. Other(CandidateValues(v) \o edges, v) \in Seq(Field)
    BY <2>2, OtherType
  <2> QED BY <2>3, <2>4, DedupType
<1>2. CASE Widths(c, w) # {}
  <2>1. top \in Int
    BY <1>2, WidthFacts
  <2> HIDE DEF top
  <2>2. edges = <<top % P, (top - 1) % P, ((top + 1) \div 2) % P>>
    BY <1>2
  <2>3. top % P \in Field /\ (top - 1) % P \in Field /\ ((top + 1) \div 2) % P \in Field
    BY <2>1, FieldFacts
  <2>4. edges \in Seq(Field)
    BY <2>2, <2>3
  <2> HIDE DEF edges
  <2>5. CandidateValues(v) \o edges \in Seq(Field)
    BY <2>4, CandidateType
  <2>6. InputCandidates(c, w, v) = Dedup(Other(CandidateValues(v) \o edges, v))
    BY DEF InputCandidates, edges, top
  <2>7. Other(CandidateValues(v) \o edges, v) \in Seq(Field)
    BY <2>5, OtherType
  <2> QED BY <2>6, <2>7, DedupType
<1> QED BY <1>1, <1>2

(* The positions of a hint are within a block, and no block is longer than the
   field: they are taken as they are.                                         *)
LEMMA InitIs ==
  ASSUME NEW c, NEW i \in Nat \ {0}, InitOf(c, i) # 0
  PROVE  /\ InitOf(c, i) \in 1..i-1
         /\ c.opcodes[InitOf(c, i)].type = "MemoryInit"
         /\ c.opcodes[InitOf(c, i)].block = c.opcodes[i].block
<1> DEFINE J == {j \in 1..i-1 : c.opcodes[j].type = "MemoryInit" /\ c.opcodes[j].block = c.opcodes[i].block}
<1>2. {0} \cup J \in SUBSET (0..i-1) /\ {0} \cup J \in SUBSET Int /\ {0} \cup J # {}
  OBVIOUS
<1>3. IsFiniteSet({0} \cup J)
  <2>1. IsFiniteSet(0..i-1)
    BY FS_Interval
  <2> QED BY <1>2, <2>1, FS_Subset
<1>4. Max({0} \cup J) \in {0} \cup J
  BY <1>2, <1>3, MaxExists
<1>5. InitOf(c, i) \in J
  BY <1>4 DEF InitOf
<1> QED BY <1>5

LEMMA InitOfFacts ==
  ASSUME NEW c, WellFormedCircuit(c), NEW i \in 1..Len(c.opcodes) + 1, InitOf(c, i) # 0
  PROVE  /\ InitOf(c, i) \in 1..i-1
         /\ c.opcodes[InitOf(c, i)].type = "MemoryInit"
         /\ c.opcodes[InitOf(c, i)].block = c.opcodes[i].block
<1>1. i \in Nat \ {0}
  BY CircuitFacts
<1> QED BY <1>1, InitIs

LEMMA SlotsInField ==
  ASSUME NEW c, WellFormedCircuit(c), NEW x \in Indices(c)
  PROVE  Slots(c, x) \subseteq Field
<1>1. P \in Nat
  BY ParametersAreNatural
<1>2. \A n \in IndexLens(c, x) : n \in 1..P
  <2> TAKE n \in IndexLens(c, x)
  <2>1. PICK i \in DOMAIN c.opcodes : InitOf(c, i) # 0 /\ n = Len(c.opcodes[InitOf(c, i)].init)
    BY DEF IndexLens
  <2>2. i \in 1..Len(c.opcodes) /\ Len(c.opcodes) \in Nat
    BY CircuitFacts
  <2>3. InitOf(c, i) \in 1..i-1 /\ c.opcodes[InitOf(c, i)].type = "MemoryInit"
    BY <2>1, <2>2, InitOfFacts
  <2>4. InitOf(c, i) \in 1..Len(c.opcodes)
    BY <2>2, <2>3
  <2>5. WellFormedOpcode(c.opcodes[InitOf(c, i)])
    BY <2>4, CircuitFacts
  <2> QED BY <2>1, <2>3, <2>5 DEF WellFormedOpcode
<1>3. IndexLens(c, x) # {}
  BY DEF Indices
<1>4. IndexLens(c, x) \in SUBSET Int /\ IsFiniteSet(IndexLens(c, x))
  <2>1. IndexLens(c, x) \in SUBSET (1..P) /\ IsFiniteSet(1..P)
    BY <1>1, <1>2, FS_Interval
  <2>2. IndexLens(c, x) \in SUBSET Int
    BY <1>1, <2>1
  <2> QED BY <2>1, <2>2, FS_Subset
<1>5. Max(IndexLens(c, x)) \in 1..P
  BY <1>2, <1>3, <1>4, MaxExists
<1> QED BY <1>1, <1>5 DEF Slots, Field

LEMMA IndexType ==
  ASSUME NEW c, WellFormedCircuit(c), NEW w
  PROVE  IndexCandidates(c, w) \subseteq Field
<1> SUFFICES ASSUME NEW x \in Indices(c)
             PROVE  /\ Slots(c, x) \subseteq Field
                    /\ \A p \in Slots(c, x) \X Shifts(c, x, w) : (p[1] - p[2]) % P \in Field
  BY DEF IndexCandidates
<1>1. Slots(c, x) \subseteq Field
  BY SlotsInField
<1>2. \A p \in Slots(c, x) \X Shifts(c, x, w) : (p[1] - p[2]) % P \in Field
  <2> TAKE p \in Slots(c, x) \X Shifts(c, x, w)
  <2>1. p[1] \in Field /\ p[2] \in Field
    BY <1>1 DEF Shifts
  <2>2. p[1] - p[2] \in Int
    BY <2>1 DEF Field
  <2> QED BY <2>2, FieldFacts
<1> QED BY <1>1, <1>2

LEMMA WrapType ==
  ASSUME NEW c, WellFormedCircuit(c), NEW w
  PROVE  Ascending(WrapSteps(c, w)) \in Seq(0..P)
<1> DEFINE terms == UNION {{c.opcodes[i].lin[k] : k \in DOMAIN c.opcodes[i].lin} : i \in Expressions(c)}
           magnitudes == {Min({t[1] % P, P - (t[1] % P)}) : t \in {u \in terms : u[2] = w}} \ {0, 1}
<1>1. P \in Nat \ {0, 1}
  BY ParametersAreNatural
<1>2. \A t : t \in terms => t[1] \in Int
  <2> SUFFICES ASSUME NEW t \in terms PROVE t[1] \in Int
    OBVIOUS
  <2>1. PICK i \in Expressions(c) : \E k \in DOMAIN c.opcodes[i].lin : t = c.opcodes[i].lin[k]
    OBVIOUS
  <2>2. i \in 1..Len(c.opcodes) /\ c.opcodes[i].type = "AssertZero"
    BY <2>1, CircuitFacts DEF Expressions
  <2>3. WellFormedOpcode(c.opcodes[i])
    BY <2>2, CircuitFacts
  <2> QED BY <2>1, <2>2, <2>3 DEF WellFormedOpcode
<1> HIDE DEF terms, magnitudes
<1>3. \A m \in magnitudes : m \in 2..P
  <2> TAKE m \in magnitudes
  <2>1. PICK t \in terms : m = Min({t[1] % P, P - (t[1] % P)}) /\ m \notin {0, 1}
    BY DEF magnitudes
  <2>2. t[1] \in Int
    BY <1>2
  <2> DEFINE r == t[1] % P
             s == P - r
  <2>3. r \in 0..P-1
    BY <1>1, <2>2
  <2> HIDE DEF r
  <2>4. s \in 1..P /\ r \in Int
    BY <1>1, <2>3
  <2> HIDE DEF s
  <2>5. Min({r, s}) \in {r, s}
    BY <2>4, PairExtrema
  <2>6. m = Min({r, s}) /\ m \notin {0, 1}
    BY <2>1 DEF r, s
  <2>7. m \in {r, s} /\ m \notin {0, 1}
    BY <2>5, <2>6
  <2> QED BY <1>1, <2>3, <2>4, <2>7
<1>4. \A m \in magnitudes : {P \div m, (P \div m + 1) % P, P - (P \div m)} \subseteq 0..P
  <2> TAKE m \in magnitudes
  <2>1. m \in 2..P
    BY <1>3
  <2>2. P \div m \in 0..P
    BY <1>1, <2>1
  <2>3. (P \div m + 1) % P \in 0..P
    BY <1>1, <2>2
  <2> QED BY <1>1, <2>2, <2>3
<1>5. WrapSteps(c, w) = UNION {{P \div m, (P \div m + 1) % P, P - (P \div m)} : m \in magnitudes}
  BY DEF WrapSteps, magnitudes, terms
<1>6. WrapSteps(c, w) \in SUBSET (0..P)
  BY <1>4, <1>5
<1>7. WrapSteps(c, w) \in SUBSET Int /\ IsFiniteSet(WrapSteps(c, w))
  <2>1. IsFiniteSet(0..P)
    BY <1>1, FS_Interval
  <2>2. WrapSteps(c, w) \in SUBSET Int
    BY <1>1, <1>6
  <2> QED BY <1>6, <2>1, <2>2, FS_Subset
<1>8. Ascending(WrapSteps(c, w)) \in Seq(WrapSteps(c, w))
  BY <1>7, AscendingType
<1> QED BY <1>6, <1>8, SeqOfMore

LEMMA SurfaceType ==
  ASSUME NEW c, WellFormedCircuit(c), NEW w, NEW v \in Field
  PROVE  SurfaceCandidates(c, w, v) \in Seq(Field)
<1> DEFINE wraps == Ascending(WrapSteps(c, w))
           near == IF HoldsPosition(c, w, v) THEN Ascending(IndexCandidates(c, w)) ELSE << >>
           first == [k \in 1..LastSlot-1 |-> (k + 1) % P]
           positions == IF w \notin c.hints THEN << >> ELSE first \o near
           wrapped == [k \in DOMAIN wraps |-> (v + wraps[k]) % P]
           all == CandidateValues(v) \o wrapped \o positions
<1>1. wrapped \in Seq(Field)
  <2>1. wraps \in Seq(0..P) /\ P \in Nat
    BY WrapType, ParametersAreNatural
  <2> HIDE DEF wraps
  <2>2. \A k \in DOMAIN wraps : v + wraps[k] \in Int
    BY <2>1 DEF Field
  <2>3. \A k \in DOMAIN wraps : (v + wraps[k]) % P \in Field
    BY <2>2, FieldFacts
  <2>4. DOMAIN wraps = 1..Len(wraps) /\ Len(wraps) \in Nat
    BY <2>1
  <2> QED BY <2>3, <2>4
<1>2. near \in Seq(Field)
  <2>1. IndexCandidates(c, w) \in SUBSET Int /\ IsFiniteSet(IndexCandidates(c, w))
    BY IndexType, FieldFacts, FS_Subset
  <2>2. Ascending(IndexCandidates(c, w)) \in Seq(IndexCandidates(c, w))
    BY <2>1, AscendingType
  <2>3. Ascending(IndexCandidates(c, w)) \in Seq(Field)
    BY <2>2, IndexType
  <2> QED BY <2>3
<1>3. first \in Seq(Field)
  <2>1. LastSlot - 1 \in Int /\ \A k \in 1..LastSlot-1 : (k + 1) % P \in Field
    BY ParametersAreNatural, FieldFacts
  <2>2. CASE LastSlot = 0
    <3>1. 1..LastSlot-1 = 1..0
      BY <2>2
    <3> QED BY <2>1, <3>1
  <2>3. CASE LastSlot # 0
    <3>1. LastSlot - 1 \in Nat
      BY <2>3, ParametersAreNatural
    <3> QED BY <2>1, <3>1
  <2> QED BY <2>2, <2>3
<1> HIDE DEF wrapped, near, first
<1>4. positions \in Seq(Field)
  BY <1>2, <1>3
<1> HIDE DEF positions
<1>5. all \in Seq(Field)
  BY <1>1, <1>4, CandidateType
<1> HIDE DEF all
<1>6. Other(all, v) \in Seq(Field)
  BY <1>5, OtherType
<1>7. SurfaceCandidates(c, w, v) = Distinct(Other(all, v))
  BY DEF SurfaceCandidates, all, wraps, wrapped, near, first, positions
<1> QED BY <1>6, <1>7, DistinctType

-----------------------------------------------------------------------------
(* The memory of a certificate. *)

LEMMA MaxIs ==
  ASSUME NEW S \in SUBSET Int, NEW m \in S, \A u \in S : u <= m
  PROVE  Max(S) = m
<1>1. \A x \in S : (\A y \in S : x >= y) => x = m
  OBVIOUS
<1>2. \A y \in S : m >= y
  OBVIOUS
<1> QED BY <1>1, <1>2 DEF Max

LEMMA InitBeforeType ==
  ASSUME NEW c, NEW b, NEW i \in Nat \ {0}
  PROVE  InitBefore(c, b, i) \in 0..i-1
<1> DEFINE J == {0} \cup {j \in 1..i-1 : c.opcodes[j].type = "MemoryInit" /\ c.opcodes[j].block = b}
<1>1. J \in SUBSET (0..i-1) /\ J \in SUBSET Int /\ J # {}
  OBVIOUS
<1>2. IsFiniteSet(J)
  <2>1. IsFiniteSet(0..i-1)
    BY FS_Interval
  <2> QED BY <1>1, <2>1, FS_Subset
<1> HIDE DEF J
<1>3. Max(J) \in J
  BY <1>1, <1>2, MaxExists
<1> QED BY <1>1, <1>3 DEF InitBefore, J

(* An initialisation is in force from its own opcode on, until the next one. *)
LEMMA InitHere ==
  ASSUME NEW c, NEW i \in Nat \ {0}, c.opcodes[i].type = "MemoryInit"
  PROVE  InitBefore(c, c.opcodes[i].block, i + 1) = i
<1> DEFINE J == {0} \cup {j \in 1..(i+1)-1 : c.opcodes[j].type = "MemoryInit" /\ c.opcodes[j].block = c.opcodes[i].block}
<1>1. J \in SUBSET Int /\ i \in J /\ \A u \in J : u <= i
  OBVIOUS
<1> HIDE DEF J
<1>2. Max(J) = i
  BY <1>1, MaxIs
<1> QED BY <1>2 DEF InitBefore, J

LEMMA InitElsewhere ==
  ASSUME NEW c, NEW b, NEW i \in Nat \ {0},
         c.opcodes[i].type # "MemoryInit" \/ c.opcodes[i].block # b
  PROVE  InitBefore(c, b, i + 1) = InitBefore(c, b, i)
<1>1. {j \in 1..(i+1)-1 : c.opcodes[j].type = "MemoryInit" /\ c.opcodes[j].block = b}
        = {j \in 1..i-1 : c.opcodes[j].type = "MemoryInit" /\ c.opcodes[j].block = b}
  OBVIOUS
<1> QED BY <1>1 DEF InitBefore

(* A cell has its initial value, then the values written to it. *)
LEMMA ContentInitial ==
  ASSUME NEW c, NEW a, NEW b, NEW i \in Nat \ {0}, NEW k,
         c.opcodes[i].type = "MemoryInit", c.opcodes[i].block = b
  PROVE  Content(c, a, b, k, i + 1) = a[c.opcodes[i].init[k + 1]]
<1>1. InitBefore(c, b, i + 1) = i
  BY InitHere
<1>2. Writes(c, a, b, k, i + 1) = {}
  BY <1>1 DEF Writes
<1> QED BY <1>1, <1>2 DEF Content

LEMMA ContentKept ==
  ASSUME NEW c, NEW a, NEW b, NEW i \in Nat \ {0}, NEW k,
         c.opcodes[i].type # "MemoryInit" \/ c.opcodes[i].block # b,
         \/ c.opcodes[i].type # "Write" \/ c.opcodes[i].block # b
         \/ a[c.opcodes[i].index] # k
  PROVE  Content(c, a, b, k, i + 1) = Content(c, a, b, k, i)
<1>1. InitBefore(c, b, i + 1) = InitBefore(c, b, i) /\ InitBefore(c, b, i) \in 0..i-1
  BY InitElsewhere, InitBeforeType
<1>2. Writes(c, a, b, k, i + 1) = Writes(c, a, b, k, i)
  BY <1>1 DEF Writes
<1> QED BY <1>1, <1>2 DEF Content

LEMMA ContentWritten ==
  ASSUME NEW c, NEW a, NEW i \in Nat \ {0}, c.opcodes[i].type = "Write"
  PROVE  Content(c, a, c.opcodes[i].block, a[c.opcodes[i].index], i + 1) = a[c.opcodes[i].value]
<1> DEFINE W == Writes(c, a, c.opcodes[i].block, a[c.opcodes[i].index], i + 1)
<1>1. InitBefore(c, c.opcodes[i].block, i + 1) \in 0..i-1
  BY InitElsewhere, InitBeforeType
<1>2. W \in SUBSET Int /\ i \in W /\ \A u \in W : u <= i
  BY <1>1 DEF Writes
<1>3. Max(W) = i /\ W # {}
  BY <1>2, MaxIs
<1> QED BY <1>3 DEF Content

LEMMA ContentIsLastValue ==
  ASSUME NEW c, NEW a, NEW i
  PROVE  /\ InitOf(c, i) = InitBefore(c, c.opcodes[i].block, i)
         /\ LastValue(c, a, i) = Content(c, a, c.opcodes[i].block, a[c.opcodes[i].index], i)
BY DEF InitOf, InitBefore, LastValue, Content, Writes

LEMMA RunIsFulfilled ==
  ASSUME NEW c, NEW a
  PROVE  IsRun(c, a) <=> \A i \in DOMAIN c.opcodes : Fulfilled(c, a, i)
BY DEF IsRun, Fulfilled

(* An opcode that was checked is one a run fulfills, and the blocks go on
   following the memory of the run.                                        *)
LEMMA CheckInit ==
  ASSUME NEW c, WellFormedCircuit(c), NEW a, a \in [DOMAIN a -> Field], NEW i \in 1..Len(c.opcodes), NEW B,
         \A b \in DOMAIN B : B[b] \in Seq(Field),
         Tracks(c, a, B, i), Judgeable(c.opcodes[i], a, B), c.opcodes[i].type = "MemoryInit"
  PROVE  /\ Tracks(c, a, BlocksAfter(c.opcodes[i], a, B), i + 1)
         /\ \A b \in DOMAIN BlocksAfter(c.opcodes[i], a, B) : BlocksAfter(c.opcodes[i], a, B)[b] \in Seq(Field)
<1> DEFINE o == c.opcodes[i]
           vals == [j \in DOMAIN o.init |-> a[o.init[j]]]
           A == Overlay(Entry(o.block, vals), B)
<1>1. i \in Nat \ {0} /\ WellFormedOpcode(o)
  BY CircuitFacts
<1>2. o.init \in Seq(o.wires) /\ Len(o.init) \in 1..P
  BY <1>1 DEF WellFormedOpcode
<1>3. o.wires \subseteq DOMAIN a
  BY DEF Judgeable, IsEvaluated
<1>4. vals \in Seq(Field) /\ Len(vals) = Len(o.init)
  <2>1. DOMAIN o.init = 1..Len(o.init) /\ Len(o.init) \in Nat
    BY <1>2
  <2>2. \A j \in DOMAIN o.init : a[o.init[j]] \in Field
    BY <1>2, <1>3
  <2> QED BY <2>1, <2>2
<1>5. BlocksAfter(o, a, B) = A
  BY DEF BlocksAfter
<1> HIDE DEF vals
<1>6. /\ DOMAIN A = {o.block} \cup DOMAIN B /\ A[o.block] = vals
      /\ \A b \in DOMAIN B : b # o.block => A[b] = B[b]
  BY DEF Overlay, Entry
<1> HIDE DEF A
<1>7. \A b \in DOMAIN A : A[b] \in Seq(Field)
  BY <1>4, <1>6
<1>8. ASSUME NEW b \in DOMAIN A
      PROVE  /\ InitBefore(c, b, i + 1) # 0
             /\ Len(A[b]) = Len(c.opcodes[InitBefore(c, b, i + 1)].init)
             /\ \A k \in 0..Len(A[b])-1 : A[b][k + 1] = Content(c, a, b, k, i + 1)
  <2>1. CASE b = o.block
    <3>1. InitBefore(c, b, i + 1) = i
      BY <1>1, <2>1, InitHere
    <3>2. A[b] = vals
      BY <1>6, <2>1
    <3>3. \A k \in 0..Len(vals)-1 : vals[k + 1] = a[o.init[k + 1]]
      BY <1>2, <1>4 DEF vals
    <3>4. \A k : Content(c, a, b, k, i + 1) = a[o.init[k + 1]]
      <4> TAKE k
      <4>1. i \in Nat \ {0} /\ c.opcodes[i].type = "MemoryInit" /\ c.opcodes[i].block = b
        BY <1>1, <2>1
      <4>2. Content(c, a, b, k, i + 1) = a[c.opcodes[i].init[k + 1]]
        BY <4>1, ContentInitial
      <4> QED BY <4>2
    <3> QED BY <1>1, <1>4, <3>1, <3>2, <3>3, <3>4
  <2>2. CASE b # o.block
    <3>1. b \in DOMAIN B /\ A[b] = B[b]
      BY <1>6, <2>2
    <3>2. InitBefore(c, b, i + 1) = InitBefore(c, b, i)
      BY <1>1, <2>2, InitElsewhere
    <3>3. \A k : Content(c, a, b, k, i + 1) = Content(c, a, b, k, i)
      BY <1>1, <2>2, ContentKept
    <3> QED BY <3>1, <3>2, <3>3 DEF Tracks
  <2> QED BY <2>1, <2>2
<1> QED BY <1>5, <1>7, <1>8 DEF Tracks

LEMMA CheckWrite ==
  ASSUME NEW c, WellFormedCircuit(c), NEW a, a \in [DOMAIN a -> Field], NEW i \in 1..Len(c.opcodes), NEW B,
         \A b \in DOMAIN B : B[b] \in Seq(Field),
         Tracks(c, a, B, i), Judgeable(c.opcodes[i], a, B), Accepts(c.opcodes[i], a, B),
         c.opcodes[i].type = "Write"
  PROVE  /\ Tracks(c, a, BlocksAfter(c.opcodes[i], a, B), i + 1)
         /\ \A b \in DOMAIN BlocksAfter(c.opcodes[i], a, B) : BlocksAfter(c.opcodes[i], a, B)[b] \in Seq(Field)
<1> DEFINE o == c.opcodes[i]
           at == a[o.index]
           A == [B EXCEPT ![o.block][at + 1] = a[o.value]]
<1>1. i \in Nat \ {0} /\ WellFormedOpcode(o)
  BY CircuitFacts
<1>2. o.index \in DOMAIN a /\ o.value \in DOMAIN a /\ o.block \in DOMAIN B
  BY <1>1 DEF Judgeable, IsEvaluated, IsAccess, WellFormedOpcode
<1>3. at \in Field /\ a[o.value] \in Field
  BY <1>2
<1>4. at \in Nat /\ at < Len(B[o.block])
  <2>1. at < Len(B[o.block])
    BY DEF Accepts, IsEvaluated, IsAccess, InBlock
  <2> QED BY <1>3, <2>1, ParametersAreNatural DEF Field
<1>5. BlocksAfter(o, a, B) = A
  BY DEF BlocksAfter
<1> HIDE DEF at
<1>6. /\ DOMAIN A = DOMAIN B
      /\ A[o.block] = [B[o.block] EXCEPT ![at + 1] = a[o.value]]
      /\ \A b \in DOMAIN B : b # o.block => A[b] = B[b]
  BY <1>2
<1> HIDE DEF A
<1>7. /\ A[o.block] \in Seq(Field) /\ Len(A[o.block]) = Len(B[o.block])
      /\ A[o.block][at + 1] = a[o.value]
      /\ \A k \in 0..Len(B[o.block])-1 : k # at => A[o.block][k + 1] = B[o.block][k + 1]
  <2> DEFINE s == B[o.block]
  <2>1. s \in Seq(Field) /\ DOMAIN s = 1..Len(s) /\ Len(s) \in Nat
    BY <1>2
  <2>2. A[o.block] = [s EXCEPT ![at + 1] = a[o.value]]
    BY <1>6
  <2>3. at < Len(s)
    BY <1>4
  <2> HIDE DEF s
  <2>4. at + 1 \in DOMAIN s
    BY <1>4, <2>1, <2>3
  <2>5. [s EXCEPT ![at + 1] = a[o.value]] \in Seq(Field) /\ Len([s EXCEPT ![at + 1] = a[o.value]]) = Len(s)
    BY <1>3, <2>1, <2>4
  <2>6. \A k \in 0..Len(s)-1 : k # at => [s EXCEPT ![at + 1] = a[o.value]][k + 1] = s[k + 1]
    BY <1>4, <2>1
  <2>7. [s EXCEPT ![at + 1] = a[o.value]][at + 1] = a[o.value]
    BY <2>4
  <2> QED BY <2>2, <2>5, <2>6, <2>7 DEF s
<1>8. \A b \in DOMAIN A : A[b] \in Seq(Field)
  BY <1>6, <1>7
<1>9. ASSUME NEW b \in DOMAIN A
      PROVE  /\ InitBefore(c, b, i + 1) # 0
             /\ Len(A[b]) = Len(c.opcodes[InitBefore(c, b, i + 1)].init)
             /\ \A k \in 0..Len(A[b])-1 : A[b][k + 1] = Content(c, a, b, k, i + 1)
  <2>1. InitBefore(c, b, i + 1) = InitBefore(c, b, i)
    BY <1>1, InitElsewhere
  <2>2. /\ InitBefore(c, b, i) # 0
        /\ Len(B[b]) = Len(c.opcodes[InitBefore(c, b, i)].init)
        /\ \A k \in 0..Len(B[b])-1 : B[b][k + 1] = Content(c, a, b, k, i)
    BY <1>6 DEF Tracks
  <2>3. Len(A[b]) = Len(B[b])
    BY <1>6, <1>7
  <2>4. ASSUME NEW k \in 0..Len(B[b])-1 PROVE A[b][k + 1] = Content(c, a, b, k, i + 1)
    <3>1. CASE b = o.block /\ k = at
      <4>1. Content(c, a, o.block, at, i + 1) = a[o.value]
        BY <1>1, ContentWritten DEF at
      <4> QED BY <1>7, <3>1, <4>1
    <3>2. CASE b # o.block \/ k # at
      <4>1. Content(c, a, b, k, i + 1) = Content(c, a, b, k, i)
        BY <1>1, <3>2, ContentKept DEF at
      <4>2. A[b][k + 1] = B[b][k + 1]
        BY <1>6, <1>7, <3>2
      <4> QED BY <2>2, <4>1, <4>2
    <3> QED BY <3>1, <3>2
  <2> QED BY <2>1, <2>2, <2>3, <2>4
<1> QED BY <1>5, <1>8, <1>9 DEF Tracks

(* An opcode that leaves the blocks alone. *)
LEMMA CheckOther ==
  ASSUME NEW c, NEW a, NEW i \in Nat \ {0}, NEW B,
         Tracks(c, a, B, i), c.opcodes[i].type \notin {"MemoryInit", "Write"}
  PROVE  Tracks(c, a, B, i + 1)
<1>1. \A b : InitBefore(c, b, i + 1) = InitBefore(c, b, i)
  BY InitElsewhere
<1>2. \A b, k : Content(c, a, b, k, i + 1) = Content(c, a, b, k, i)
  BY ContentKept
<1> QED BY <1>1, <1>2 DEF Tracks

LEMMA CheckTracks ==
  ASSUME NEW c, WellFormedCircuit(c), NEW a, a \in [DOMAIN a -> Field], NEW i \in 1..Len(c.opcodes), NEW B,
         \A b \in DOMAIN B : B[b] \in Seq(Field),
         Tracks(c, a, B, i), Judgeable(c.opcodes[i], a, B), Accepts(c.opcodes[i], a, B)
  PROVE  /\ Tracks(c, a, BlocksAfter(c.opcodes[i], a, B), i + 1)
         /\ \A b \in DOMAIN BlocksAfter(c.opcodes[i], a, B) : BlocksAfter(c.opcodes[i], a, B)[b] \in Seq(Field)
<1>1. CASE c.opcodes[i].type = "MemoryInit"
  BY <1>1, CheckInit
<1>2. CASE c.opcodes[i].type = "Write"
  BY <1>2, CheckWrite
<1>3. CASE c.opcodes[i].type \notin {"MemoryInit", "Write"}
  <2>1. i \in Nat \ {0}
    BY CircuitFacts
  <2>2. BlocksAfter(c.opcodes[i], a, B) = B
    BY <1>3 DEF BlocksAfter
  <2> QED BY <1>3, <2>1, <2>2, CheckOther
<1> QED BY <1>1, <1>2, <1>3

LEMMA CheckFulfilled ==
  ASSUME NEW c, WellFormedCircuit(c), NEW a, a \in [DOMAIN a -> Field], NEW i \in 1..Len(c.opcodes), NEW B,
         Tracks(c, a, B, i), Judgeable(c.opcodes[i], a, B), Accepts(c.opcodes[i], a, B)
  PROVE  Fulfilled(c, a, i)
<1> DEFINE o == c.opcodes[i]
<1>1. WellFormedOpcode(o)
  BY CircuitFacts
<1>2. CASE IsAccess(o)
  <2>1. /\ InitOf(c, i) = InitBefore(c, o.block, i)
        /\ LastValue(c, a, i) = Content(c, a, o.block, a[o.index], i)
    BY ContentIsLastValue
  <2>2. o.block \in DOMAIN B /\ o.index \in DOMAIN a
    BY <1>1, <1>2 DEF Judgeable, IsEvaluated, IsAccess, WellFormedOpcode
  <2>3. /\ a[o.index] < Len(B[o.block])
        /\ o.type = "Read" => a[o.value] = B[o.block][a[o.index] + 1]
    BY <1>2 DEF Accepts, IsEvaluated, IsAccess, InBlock
  <2>4. /\ InitBefore(c, o.block, i) # 0
        /\ Len(B[o.block]) = Len(c.opcodes[InitBefore(c, o.block, i)].init)
        /\ \A k \in 0..Len(B[o.block])-1 : B[o.block][k + 1] = Content(c, a, o.block, k, i)
    BY <2>2 DEF Tracks
  <2>5. a[o.index] \in Nat
    BY <2>2, ParametersAreNatural DEF Field
  <2>6. o.type = "Read" => a[o.value] = Content(c, a, o.block, a[o.index], i)
    <3> SUFFICES ASSUME o.type = "Read" PROVE a[o.value] = Content(c, a, o.block, a[o.index], i)
      OBVIOUS
    <3> DEFINE k == a[o.index]
               l == Len(B[o.block])
    <3>1. l \in Nat
      <4>1. l = Len(c.opcodes[InitBefore(c, o.block, i)].init)
        BY <2>4
      <4>2. InitOf(c, i) \in 1..i-1 /\ c.opcodes[InitOf(c, i)].type = "MemoryInit"
        BY <2>1, <2>4, CircuitFacts, InitOfFacts
      <4>3. InitOf(c, i) \in 1..Len(c.opcodes) /\ Len(c.opcodes) \in Nat
        BY <4>2, CircuitFacts
      <4>4. WellFormedOpcode(c.opcodes[InitOf(c, i)])
        BY <4>3, CircuitFacts
      <4>5. Len(c.opcodes[InitOf(c, i)].init) \in 1..P
        BY <4>2, <4>4 DEF WellFormedOpcode
      <4> QED BY <2>1, <4>1, <4>5
    <3>2. k \in 0..l-1
      BY <2>3, <2>5, <3>1
    <3> QED BY <2>3, <2>4, <3>2
  <2> QED BY <1>2, <2>1, <2>3, <2>4, <2>6 DEF Fulfilled
<1>3. CASE IsEvaluated(o)
  <2>1. ~IsAccess(o)
    BY <1>3 DEF IsAccess, IsEvaluated
  <2>2. a[o.in] \in DOMAIN o.F /\ a[o.out] = o.F[a[o.in]]
    BY <1>3 DEF Accepts
  <2>3. o.wires = {o.in, o.out} /\ o.in \in DOMAIN a /\ o.out \in DOMAIN a
    BY <1>1, <1>3, <2>2 DEF Judgeable, WellFormedOpcode
  <2> DEFINE e == [w \in o.wires |-> a[w]]
  <2>4. e \in [o.wires -> Field] /\ e[o.in] = a[o.in] /\ e[o.out] = a[o.out]
    BY <2>3
  <2> HIDE DEF e
  <2>5. e \in o.accepts
    BY <1>1, <1>3, <2>2, <2>4 DEF WellFormedOpcode
  <2> QED BY <2>1, <2>5 DEF Fulfilled, AcirHolds, e
<1>4. CASE ~IsAccess(o) /\ ~IsEvaluated(o)
  BY <1>4 DEF Fulfilled, Accepts
<1> QED BY <1>2, <1>3, <1>4

(* An opcode without wires asks the same of every assignment, and the honest
   run fulfills it.                                                           *)
LEMMA CheckSkipped ==
  ASSUME NEW c, WellFormedCircuit(c), NEW h, IsRun(c, h), NEW a, NEW i \in 1..Len(c.opcodes), NEW B,
         Tracks(c, a, B, i), c.opcodes[i].wires = {}
  PROVE  Fulfilled(c, a, i) /\ Tracks(c, a, B, i + 1)
<1> DEFINE o == c.opcodes[i]
<1>1. WellFormedOpcode(o) /\ i \in Nat \ {0} /\ i \in DOMAIN c.opcodes
  BY CircuitFacts
<1>2. ~IsAccess(o)
  BY <1>1 DEF WellFormedOpcode
<1>3. o.type # "MemoryInit"
  <2> SUFFICES ASSUME o.type = "MemoryInit" PROVE FALSE
    OBVIOUS
  <2>1. o.init \in Seq(o.wires) /\ Len(o.init) \in 1..P
    BY <1>1 DEF WellFormedOpcode
  <2>2. o.init[1] \in o.wires
    BY <2>1, ParametersAreNatural
  <2> QED BY <2>2
<1>4. Fulfilled(c, h, i)
  BY <1>1, RunIsFulfilled
<1>5. AcirHolds(o, h)
  BY <1>2, <1>3, <1>4 DEF Fulfilled
<1>6. [w \in o.wires |-> h[w]] = [w \in o.wires |-> a[w]]
  OBVIOUS
<1>7. AcirHolds(o, a)
  BY <1>5, <1>6 DEF AcirHolds
<1>8. Tracks(c, a, B, i + 1)
  BY <1>1, <1>2, <1>3, CheckOther DEF IsAccess
<1> QED BY <1>2, <1>7, <1>8 DEF Fulfilled

-----------------------------------------------------------------------------
(* The sum over the terms of an expression, in their order. *)
LEMMA SumOfSequence ==
  ASSUME NEW s, Len(s) \in Nat, DOMAIN s = 1..Len(s), IntegerAt(DOMAIN s, s)
  PROVE  SumSeq(s) = SumFunctionOnSet(s, DOMAIN s)
<1>1. SumSeq(s) = (CHOOSE F : PrefixSum(F, Len(s), s))[Len(s)]
  BY Zenon DEF SumSeq, PrefixSum
<1> QED BY <1>1, PrefixSums

(* An expression reads its own wires. *)
LEMMA EvaluateSame ==
  ASSUME NEW mul, NEW lin, NEW q, NEW a, NEW b, \A w \in ExpressionWires(mul, lin) : a[w] = b[w]
  PROVE  Evaluate(mul, lin, q, a) = Evaluate(mul, lin, q, b)
<1>1. \A k \in DOMAIN mul : a[mul[k][2]] = b[mul[k][2]] /\ a[mul[k][3]] = b[mul[k][3]]
  <2> TAKE k \in DOMAIN mul
  <2>1. mul[k][2] \in ExpressionWires(mul, lin) /\ mul[k][3] \in ExpressionWires(mul, lin)
    BY DEF ExpressionWires
  <2> QED BY <2>1
<1>2. \A k \in DOMAIN lin : a[lin[k][2]] = b[lin[k][2]]
  BY DEF ExpressionWires
<1>3. [i \in DOMAIN mul |-> mul[i][1] * a[mul[i][2]] * a[mul[i][3]]]
        = [i \in DOMAIN mul |-> mul[i][1] * b[mul[i][2]] * b[mul[i][3]]]
  BY <1>1
<1>4. [i \in DOMAIN lin |-> lin[i][1] * a[lin[i][2]]] = [i \in DOMAIN lin |-> lin[i][1] * b[lin[i][2]]]
  BY <1>2
<1> QED BY <1>3, <1>4, Zenon DEF Evaluate

(* Doing one thing after the other has a result: F says what each of them does. *)
Iterates(g, n, b, F) == g = [k \in 0..n |-> IF k = 0 THEN b ELSE F[k][g[k-1]]]

LEMMA Iteration ==
  ASSUME NEW n \in Nat, NEW S, NEW b \in S, NEW F \in [1..n -> [S -> S]]
  PROVE  \E g \in [0..n -> S] : Iterates(g, n, b, F)
<1> DEFINE Up(g, k) == g[0] = b /\ \A j \in 1..k : g[j] = F[j][g[j-1]]
           K == {k \in 0..n : \E g \in [0..k -> S] : Up(g, k)}
<1>1. 0 \in K
  <2> DEFINE g == [j \in 0..0 |-> b]
  <2>1. g \in [0..0 -> S] /\ Up(g, 0)
    OBVIOUS
  <2> HIDE DEF Up, g
  <2> QED BY <2>1
<1>2. ASSUME NEW k \in 0..n-1, k \in K PROVE k + 1 \in K
  <2>1. PICK g \in [0..k -> S] : Up(g, k)
    BY <1>2
  <2>2. k + 1 \in 1..n /\ k + 1 \in 0..n /\ k \in 0..k /\ g[k] \in S
    OBVIOUS
  <2> DEFINE v == F[k + 1][g[k]]
             h == [j \in 0..k+1 |-> IF j = k + 1 THEN v ELSE g[j]]
  <2>3. v \in S
    BY <2>2
  <2> HIDE DEF v
  <2>4. h \in [0..k+1 -> S] /\ h[k + 1] = v /\ \A j \in 0..k : h[j] = g[j]
    BY <2>3
  <2> HIDE DEF h
  <2>5. h[0] = b
    BY <2>1, <2>4
  <2>6. ASSUME NEW j \in 1..k+1 PROVE h[j] = F[j][h[j-1]]
    <3>1. CASE j = k + 1
      <4>1. j - 1 = k /\ h[k] = g[k]
        BY <2>2, <2>4, <3>1
      <4> QED BY <2>4, <3>1, <4>1 DEF v
    <3>2. CASE j # k + 1
      <4>1. j \in 1..k /\ j \in 0..k /\ j - 1 \in 0..k
        BY <3>2
      <4>2. h[j] = g[j] /\ h[j-1] = g[j-1]
        BY <2>4, <4>1
      <4>3. g[j] = F[j][g[j-1]]
        BY <2>1, <4>1
      <4> QED BY <4>2, <4>3
    <3> QED BY <3>1, <3>2
  <2>7. Up(h, k + 1)
    BY <2>5, <2>6
  <2> HIDE DEF Up
  <2> QED BY <2>2, <2>4, <2>7
<1>3. n \in K
  <2> HIDE DEF K
  <2>1. \A k \in 0..n : k \in K
    BY <1>1, <1>2, CountingUp
  <2> QED BY <2>1
<1>4. PICK g \in [0..n -> S] : Up(g, n)
  BY <1>3
<1>5. \A k \in 0..n : g[k] = IF k = 0 THEN b ELSE F[k][g[k-1]]
  <2> SUFFICES ASSUME NEW k \in 0..n PROVE g[k] = IF k = 0 THEN b ELSE F[k][g[k-1]]
    OBVIOUS
  <2>1. k = 0 \/ k \in 1..n
    OBVIOUS
  <2> QED BY <1>4, <2>1
<1> QED BY <1>4, <1>5 DEF Iterates
=============================================================================
