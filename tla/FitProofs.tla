------------------------------ MODULE FitProofs ------------------------------
(***************************************************************************)
(* What the operators of fit analysis, planning and verification compute,  *)
(* for any number of devices and allocations.  The sums are folds over     *)
(* finite sets; the induction they need is carried out with minimal        *)
(* counterexamples, which are first-order objects.                         *)
(***************************************************************************)
EXTENDS Planner, Verification, FiniteSetTheorems, TLAPS

(***************************************************************************)
(* Induction by a minimal counterexample.                                  *)
(***************************************************************************)

(* A family of subsets of a finite set has a minimal member.               *)
LEMMA MinimalSubset ==
    ASSUME NEW D, IsFiniteSet(D), NEW Bad, Bad \subseteq SUBSET D, Bad # {}
    PROVE  \E T \in Bad : \A U \in Bad : U \subseteq T => U = T
<1>1. IsWellFoundedOn(StrictSubsetOrdering(D), SUBSET D)
  BY FS_StrictSubsetOrderingWellFounded, FS_FiniteSubsetsOfFinite
<1>2. PICK T \in Bad : \A U \in Bad : ~(<<U, T>> \in StrictSubsetOrdering(D))
  BY <1>1, WFMin
<1> QED BY <1>2 DEF StrictSubsetOrdering

(* A set of naturals has a least member.                                   *)
LEMMA LeastNumber ==
    ASSUME NEW B, B \subseteq Nat, B # {}
    PROVE  \E n \in B : \A m \in B : n <= m
<1>1. PICK n \in B : \A m \in B : ~(<<m, n>> \in OpToRel(<, Nat))
  BY NatLessThanWellFounded, WFMin
<1>2. \A m \in B : ~(m < n)
  BY <1>1 DEF OpToRel
<1> QED BY <1>2

(* A nonempty bounded set of naturals has a greatest member, which is what *)
(* Max chooses.                                                            *)
LEMMA MaxOfBounded ==
    ASSUME NEW S, S \subseteq Nat, S # {}, NEW n \in Nat, \A y \in S : y <= n
    PROVE  Max(S) \in S /\ Max(S) \in Nat /\ \A y \in S : y <= Max(S)
<1> DEFINE B == {b \in Nat : \A y \in S : y <= b}
<1>1. B \subseteq Nat /\ n \in B
  OBVIOUS
<1>2. PICK b \in B : \A m \in B : b <= m
  <2> HIDE DEF B
  <2> QED BY <1>1, LeastNumber
<1>3. b \in S
  <2> SUFFICES ASSUME b \notin S PROVE FALSE
    OBVIOUS
  <2>1. b \in Nat /\ \A y \in S : y \in Nat /\ y <= b /\ y # b
    BY <1>2
  <2>2. \A y \in S : y <= b - 1
    BY <2>1
  <2>3. b - 1 \in Nat
    <3>1. PICK y \in S : TRUE
      OBVIOUS
    <3>2. y \in Nat /\ y <= b /\ y # b
      BY <2>1
    <3> QED BY <2>1, <3>2
  <2>4. b - 1 \in B
    BY <2>2, <2>3
  <2>5. b <= b - 1
    BY <1>2, <2>4
  <2> QED BY <2>1, <2>5
<1>4. \E x \in S : \A y \in S : x >= y
  BY <1>2, <1>3
<1>5. Max(S) \in S /\ \A y \in S : Max(S) >= y
  BY <1>4 DEF Max
<1> QED BY <1>5

-----------------------------------------------------------------------------
(***************************************************************************)
(* Sorting a finite set.                                                   *)
(***************************************************************************)

(* R is a strict total order on C. *)
Orders(R, C) ==
    /\ \A c \in C : <<c, c>> \notin R
    /\ \A c, d, e \in C : <<c, d>> \in R /\ <<d, e>> \in R => <<c, e>> \in R
    /\ \A c, d \in C : c # d => <<c, d>> \in R \/ <<d, c>> \in R

(* The members of C before c. *)
Earlier(R, C, c) == {d \in C : <<d, c>> \in R}

(* As many are before a member as R says.                                  *)
LEMMA RanksGrow ==
    ASSUME NEW C, IsFiniteSet(C), NEW R, Orders(R, C)
    PROVE  /\ Cardinality(C) \in Nat
           /\ \A c \in C : /\ Cardinality(Earlier(R, C, c)) \in Nat
                           /\ Cardinality(Earlier(R, C, c)) < Cardinality(C)
           /\ \A c, d \in C : <<c, d>> \in R =>
                 Cardinality(Earlier(R, C, c)) < Cardinality(Earlier(R, C, d))
<1> DEFINE B(c) == Earlier(R, C, c)
<1>1. Cardinality(C) \in Nat
  BY FS_CardinalityType
<1>2. /\ \A c \in C : c \notin B(c)
      /\ \A c, d \in C : <<c, d>> \in R => B(c) \subseteq B(d) /\ c \in B(d)
  BY DEF Orders, Earlier
<1>3. \A c : B(c) \subseteq C
  BY DEF Earlier
<1> HIDE DEF B
<1>4. \A c \in C : IsFiniteSet(B(c)) /\ Cardinality(B(c)) \in Nat
  BY <1>3, FS_Subset, FS_CardinalityType
<1>5. \A c \in C : Cardinality(B(c)) < Cardinality(C)
  <2> TAKE c \in C
  <2>1. B(c) # C
    BY <1>2
  <2>2. Cardinality(B(c)) <= Cardinality(C) /\ Cardinality(B(c)) # Cardinality(C)
    BY <1>3, <2>1, FS_Subset
  <2> QED BY <1>1, <1>4, <2>2
<1>6. ASSUME NEW c \in C, NEW d \in C, <<c, d>> \in R
      PROVE  Cardinality(B(c)) < Cardinality(B(d))
  <2>1. B(c) \subseteq B(d) /\ B(c) # B(d)
    BY <1>2, <1>6
  <2>2. Cardinality(B(c)) <= Cardinality(B(d)) /\ Cardinality(B(c)) # Cardinality(B(d))
    BY <1>4, <2>1, FS_Subset
  <2> QED BY <1>4, <2>2
<1> QED BY <1>1, <1>4, <1>5, <1>6 DEF B

(* The numbers up to n are n.                                              *)
LEMMA CountUpTo ==
    ASSUME NEW n \in Nat
    PROVE  IsFiniteSet(1 .. n) /\ Cardinality(1 .. n) = n
<1>1. IsFiniteSet(1 .. n) /\ Cardinality(1 .. n) = IF 1 > n THEN 0 ELSE n - 1 + 1
  BY FS_Interval
<1> QED BY <1>1

(* A finite set can be sorted.                                             *)
LEMMA SortExists ==
    ASSUME NEW C, IsFiniteSet(C), NEW R, Orders(R, C)
    PROVE  \E s \in [1 .. Cardinality(C) -> C] :
              \A i, j \in 1 .. Cardinality(C) : i < j => <<s[i], s[j]>> \in R
<1> DEFINE n == Cardinality(C)
           rank == [c \in C |-> Cardinality(Earlier(R, C, c))]
           place == [c \in C |-> rank[c] + 1]
           s == [i \in 1 .. n |-> CHOOSE c \in C : place[c] = i]
<1>1. /\ n \in Nat
      /\ \A c \in C : rank[c] \in Nat /\ rank[c] < n
      /\ \A c, d \in C : <<c, d>> \in R => rank[c] < rank[d]
  BY RanksGrow
<1>2. IsFiniteSet(1 .. n) /\ Cardinality(1 .. n) = n
  BY <1>1, CountUpTo
<1> HIDE DEF n, rank
<1>3. \A c \in C : place[c] = rank[c] + 1 /\ place[c] \in 1 .. n
  BY <1>1
<1>4. \A c, d \in C : c # d => place[c] # place[d]
  <2> SUFFICES ASSUME NEW c \in C, NEW d \in C, c # d PROVE place[c] # place[d]
    OBVIOUS
  <2>1. rank[c] \in Nat /\ rank[d] \in Nat /\ (rank[c] < rank[d] \/ rank[d] < rank[c])
    BY <1>1 DEF Orders
  <2>2. place[c] = rank[c] + 1 /\ place[d] = rank[d] + 1
    BY <1>3
  <2> HIDE DEF place
  <2> QED BY <2>1, <2>2
<1>5. place \in Injection(C, 1 .. n)
  BY <1>3, <1>4 DEF Injection, IsInjective
<1>6. place \in Surjection(C, 1 .. n)
  <2> HIDE DEF place
  <2>1. Cardinality(C) = Cardinality(1 .. n)
    BY <1>2 DEF n
  <2> QED BY <1>2, <1>5, <2>1, FS_Injection
<1>7. \A i \in 1 .. n : \E c \in C : place[c] = i
  BY <1>6 DEF Surjection
<1>8. \A i \in 1 .. n : s[i] \in C /\ place[s[i]] = i
  BY <1>7
<1>9. s \in [1 .. n -> C]
  BY <1>8
<1> HIDE DEF s, place
<1>10. ASSUME NEW i \in 1 .. n, NEW j \in 1 .. n, i < j PROVE <<s[i], s[j]>> \in R
  <2> DEFINE c == s[i]
             d == s[j]
  <2>1. c \in C /\ d \in C /\ rank[c] < rank[d] /\ rank[c] \in Nat /\ rank[d] \in Nat
    BY <1>1, <1>3, <1>8, <1>10
  <2> HIDE DEF c, d
  <2>2. c # d /\ <<d, c>> \notin R
    BY <1>1, <2>1
  <2>3. <<c, d>> \in R
    BY <2>1, <2>2 DEF Orders
  <2> QED BY <2>3 DEF c, d
<1> QED BY <1>9, <1>10 DEF n

(* A sorted sequence as long as the set lists all of it.                   *)
LEMMA SortedListsAll ==
    ASSUME NEW C, IsFiniteSet(C), NEW n \in Nat, n = Cardinality(C), NEW s \in [1 .. n -> C],
           \A i, j \in 1 .. n : i < j => s[i] # s[j]
    PROVE  \A c \in C : \E i \in 1 .. n : s[i] = c
<1>1. IsFiniteSet(1 .. n) /\ Cardinality(1 .. n) = n
  BY CountUpTo
<1>2. \A i, j \in 1 .. n : i # j => s[i] # s[j]
  <2> SUFFICES ASSUME NEW i \in 1 .. n, NEW j \in 1 .. n, i < j PROVE s[i] # s[j]
    OBVIOUS
  <2> QED OBVIOUS
<1>3. s \in Injection(1 .. n, C)
  BY <1>2 DEF Injection, IsInjective
<1>4. s \in Surjection(1 .. n, C)
  BY <1>1, <1>3, FS_Injection
<1> QED BY <1>4 DEF Surjection

-----------------------------------------------------------------------------
(***************************************************************************)
(* Sums over finite sets.                                                  *)
(***************************************************************************)
First(s) == CHOOSE x \in s : TRUE

(* g maps every subset of S to the sum of f over it: the function that     *)
(* MapThenSumSet iterates.                                                 *)
IsSum(g, f, S) ==
    g = [s \in SUBSET S |-> IF s = {} THEN 0 ELSE f[First(s)] + g[s \ {First(s)}]]

(* The fold is defined on every finite set.                                *)
LEMMA SumExists ==
    ASSUME NEW S, IsFiniteSet(S), NEW f
    PROVE  \E g : IsSum(g, f, S)
<1> DEFINE Level(n) == {s \in SUBSET S : Cardinality(s) <= n}
           Step(g, s) == IF s = {} THEN 0 ELSE f[First(s)] + g[s \ {First(s)}]
           Bad == {n \in Nat : ~\E g : g = [s \in Level(n) |-> Step(g, s)]}
<1>1. \A s \in SUBSET S : IsFiniteSet(s) /\ Cardinality(s) \in Nat
  BY FS_Subset, FS_CardinalityType
<1>2. Level(Cardinality(S)) = SUBSET S
  BY FS_Subset
<1>3. \A s \in SUBSET S : s # {} => First(s) \in s
  BY DEF First
<1>4. ASSUME NEW n \in Bad, \A m \in Bad : n <= m PROVE FALSE
  <2>1. CASE n = 0
    <3> DEFINE g == [s \in Level(0) |-> 0]
    <3>1. \A s \in Level(0) : s = {}
      BY <1>1, FS_EmptySet
    <3>2. g = [s \in Level(0) |-> Step(g, s)]
      BY <3>1
    <3> QED BY <1>4, <2>1, <3>2
  <2>2. CASE n # 0
    <3>1. n - 1 \in Nat /\ n - 1 \notin Bad
      <4>1. n \in Nat /\ n - 1 \in Nat /\ ~(n <= n - 1)
        BY <2>2
      <4> HIDE DEF Bad
      <4> QED BY <1>4, <4>1
    <3>2. PICK h : h = [s \in Level(n - 1) |-> Step(h, s)]
      BY <3>1
    <3> DEFINE g == [s \in Level(n) |-> Step(h, s)]
    <3>3. ASSUME NEW s \in Level(n), s # {} PROVE g[s \ {First(s)}] = h[s \ {First(s)}]
      <4> DEFINE t == s \ {First(s)}
      <4>1. First(s) \in s /\ IsFiniteSet(s) /\ Cardinality(s) \in Nat
        BY <1>1, <1>3, <3>3
      <4>2. Cardinality(t) = Cardinality(s) - 1
        BY <4>1, FS_RemoveElement
      <4>3. t \in Level(n - 1) /\ t \in Level(n)
        BY <1>4, <4>1, <4>2
      <4> QED BY <3>2, <4>3
    <3>4. g = [s \in Level(n) |-> Step(g, s)]
      BY <3>3
    <3> QED BY <1>4, <3>4
  <2> QED BY <2>1, <2>2
<1>5. Bad = {}
  BY <1>4, LeastNumber
<1>6. Cardinality(S) \in Nat
  BY FS_CardinalityType
<1>7. \E g : g = [s \in Level(Cardinality(S)) |-> Step(g, s)]
  BY <1>5, <1>6
<1> QED BY <1>2, <1>7 DEF IsSum

(* What a sum is made of.                                                  *)
LEMMA SumUnfolds ==
    ASSUME NEW S, NEW f, NEW g, IsSum(g, f, S), NEW T \in SUBSET S
    PROVE  /\ T = {} => g[T] = 0
           /\ T # {} => First(T) \in T /\ g[T] = f[First(T)] + g[T \ {First(T)}]
<1>1. T # {} => First(T) \in T
  BY DEF First
<1>2. g[T] = IF T = {} THEN 0 ELSE f[First(T)] + g[T \ {First(T)}]
  BY DEF IsSum
<1> QED BY <1>1, <1>2

(* A sum of naturals is a natural.                                         *)
LEMMA SumType ==
    ASSUME NEW S, IsFiniteSet(S), NEW f, \A x \in S : f[x] \in Nat,
           NEW g, IsSum(g, f, S), NEW T \in SUBSET S
    PROVE  g[T] \in Nat
<1> DEFINE Bad == {U \in SUBSET S : g[U] \notin Nat}
<1>1. ASSUME T \in Bad PROVE FALSE
  <2>1. PICK U \in Bad : \A V \in Bad : V \subseteq U => V = U
    <3>1. Bad \subseteq SUBSET S /\ Bad # {}
      BY <1>1
    <3> HIDE DEF Bad
    <3> QED BY <3>1, MinimalSubset
  <2>2. U # {} /\ First(U) \in U /\ g[U] = f[First(U)] + g[U \ {First(U)}]
    <3>1. U \in SUBSET S /\ g[U] \notin Nat
      BY <2>1
    <3>2. U # {}
      <4>1. {} \in SUBSET S
        OBVIOUS
      <4>2. g[{}] = 0
        BY <4>1, SumUnfolds
      <4> QED BY <3>1, <4>2
    <3> QED BY <3>1, <3>2, SumUnfolds
  <2>3. U \ {First(U)} \notin Bad
    BY <2>1, <2>2
  <2>4. g[U \ {First(U)}] \in Nat /\ f[First(U)] \in Nat
    BY <2>1, <2>2, <2>3
  <2> QED BY <2>1, <2>2, <2>4
<1> QED BY <1>1

(* The order in which the fold takes the elements does not matter.         *)
LEMMA SumAnyOrder ==
    ASSUME NEW S, IsFiniteSet(S), NEW f, \A x \in S : f[x] \in Nat,
           NEW g, IsSum(g, f, S), NEW T \in SUBSET S, NEW x \in T
    PROVE  g[T] = f[x] + g[T \ {x}]
<1> DEFINE Bad == {U \in SUBSET S : \E y \in U : g[U] # f[y] + g[U \ {y}]}
<1>0. \A U \in SUBSET S : g[U] \in Nat
  BY SumType
<1>1. ASSUME T \in Bad PROVE FALSE
  <2>1. PICK U \in Bad : \A V \in Bad : V \subseteq U => V = U
    <3>1. Bad \subseteq SUBSET S /\ Bad # {}
      BY <1>1
    <3> HIDE DEF Bad
    <3> QED BY <3>1, MinimalSubset
  <2>2. PICK y \in U : g[U] # f[y] + g[U \ {y}]
    BY <2>1
  <2> DEFINE z == First(U)
             W == U \ {y, z}
  <2>3. z \in U /\ g[U] = f[z] + g[U \ {z}]
    <3>1. U \in SUBSET S /\ U # {}
      BY <2>1, <2>2
    <3> QED BY <3>1, SumUnfolds
  <2> HIDE DEF z
  <2>4. y # z
    BY <2>2, <2>3
  <2>5. U \ {z} \notin Bad /\ U \ {y} \notin Bad
    BY <2>1, <2>2, <2>3
  <2>6. /\ U \ {z} \in SUBSET S /\ y \in U \ {z} /\ (U \ {z}) \ {y} = W
        /\ U \ {y} \in SUBSET S /\ z \in U \ {y} /\ (U \ {y}) \ {z} = W
    BY <2>1, <2>2, <2>3, <2>4
  <2>7. g[U \ {z}] = f[y] + g[W] /\ g[U \ {y}] = f[z] + g[W]
    BY <2>5, <2>6
  <2>8. f[y] \in Nat /\ f[z] \in Nat /\ g[W] \in Nat
    BY <1>0, <2>1, <2>2, <2>3
  <2> QED BY <2>2, <2>3, <2>7, <2>8
<1> QED BY <1>1

(* A sum over fewer, or smaller, numbers is not greater.                   *)
LEMMA SumMonotone ==
    ASSUME NEW S, IsFiniteSet(S), NEW f, \A x \in S : f[x] \in Nat, NEW g, IsSum(g, f, S),
           NEW R, R \subseteq S, NEW k, \A x \in R : k[x] \in Nat /\ k[x] <= f[x],
           NEW h, IsSum(h, k, R)
    PROVE  h[R] \in Nat /\ g[S] \in Nat /\ h[R] <= g[S]
<1>0. IsFiniteSet(R)
  BY FS_Subset
<1>1. (\A U \in SUBSET S : g[U] \in Nat) /\ (\A U \in SUBSET R : h[U] \in Nat)
  BY <1>0, SumType
<1> DEFINE Bad == {U \in SUBSET S : ~(h[U \cap R] <= g[U])}
<1>2. ASSUME S \in Bad PROVE FALSE
  <2>1. PICK U \in Bad : \A V \in Bad : V \subseteq U => V = U
    <3>1. Bad \subseteq SUBSET S /\ Bad # {}
      BY <1>2
    <3> HIDE DEF Bad
    <3> QED BY <3>1, MinimalSubset
  <2>2. CASE U = {}
    <3>1. {} \in SUBSET S /\ {} \in SUBSET R /\ {} \cap R = {}
      OBVIOUS
    <3>2. g[{}] = 0 /\ h[{}] = 0
      BY <3>1, SumUnfolds
    <3> QED BY <2>1, <2>2, <3>1, <3>2
  <2>3. CASE U # {}
    <3>1. PICK x \in U : TRUE
      BY <2>3
    <3>2. U \ {x} \notin Bad
      BY <2>1, <3>1
    <3>3. h[(U \ {x}) \cap R] <= g[U \ {x}]
      BY <2>1, <3>2
    <3>4. g[U] = f[x] + g[U \ {x}] /\ f[x] \in Nat
      BY <2>1, <3>1, SumAnyOrder
    <3>5. g[U] \in Nat /\ g[U \ {x}] \in Nat /\ h[U \cap R] \in Nat /\ h[(U \ {x}) \cap R] \in Nat
      BY <1>1, <2>1
    <3>6. CASE x \in R
      <4>1. (U \cap R) \ {x} = (U \ {x}) \cap R /\ x \in U \cap R /\ U \cap R \in SUBSET R
        BY <3>1, <3>6
      <4>2. h[U \cap R] = k[x] + h[(U \ {x}) \cap R]
        <5> DEFINE W == U \cap R
        <5>1. W \in SUBSET R /\ x \in W /\ \A y \in R : k[y] \in Nat
          BY <4>1
        <5> HIDE DEF W
        <5>2. h[W] = k[x] + h[W \ {x}]
          BY <1>0, <5>1, SumAnyOrder
        <5> QED BY <4>1, <5>2 DEF W
      <4> QED BY <2>1, <3>3, <3>4, <3>5, <3>6, <4>2
    <3>7. CASE x \notin R
      <4>1. U \cap R = (U \ {x}) \cap R
        BY <3>7
      <4> QED BY <2>1, <3>3, <3>4, <3>5, <4>1
    <3> QED BY <3>6, <3>7
  <2> QED BY <2>2, <2>3
<1>3. h[S \cap R] <= g[S] /\ S \cap R = R
  BY <1>2
<1> QED BY <1>1, <1>3

-----------------------------------------------------------------------------
(***************************************************************************)
(* Free bytes of a fleet.                                                  *)
(***************************************************************************)
FreeOf(devs) == [r \in DOMAIN devs |-> Free(devs[r])]

(* AggregateFree is the sum of the free bytes of the devices.              *)
LEMMA AggregateIsSum ==
    ASSUME NEW devs, IsFiniteSet(DOMAIN devs)
    PROVE  \E g : IsSum(g, FreeOf(devs), DOMAIN devs) /\ AggregateFree(devs) = g[DOMAIN devs]
<1> DEFINE IsAgg(g) == g = [s \in SUBSET DOMAIN devs |->
                              IF s = {} THEN 0 ELSE Free(devs[First(s)]) + g[s \ {First(s)}]]
<1>1. ASSUME NEW g PROVE IsAgg(g) <=> IsSum(g, FreeOf(devs), DOMAIN devs)
  <2>1. \A s \in SUBSET DOMAIN devs : s # {} => FreeOf(devs)[First(s)] = Free(devs[First(s)])
    BY DEF First, FreeOf
  <2>2. [s \in SUBSET DOMAIN devs |->
            IF s = {} THEN 0 ELSE Free(devs[First(s)]) + g[s \ {First(s)}]]
        = [s \in SUBSET DOMAIN devs |->
            IF s = {} THEN 0 ELSE FreeOf(devs)[First(s)] + g[s \ {First(s)}]]
    BY <2>1
  <2> QED BY <2>2 DEF IsSum
<1>2. \E g : IsAgg(g)
  BY <1>1, SumExists
<1>3. AggregateFree(devs) = (CHOOSE g : IsAgg(g))[DOMAIN devs]
  BY DEF AggregateFree, MapThenSumSet, MapThenFoldSet, First
<1> HIDE DEF IsAgg
<1> QED BY <1>1, <1>2, <1>3

(* More devices with more free bytes have more of them together.           *)
LEMMA AggregateMonotone ==
    ASSUME NEW devs, IsFiniteSet(DOMAIN devs), \A r \in DOMAIN devs : Free(devs[r]) \in Nat,
           NEW some, DOMAIN some \subseteq DOMAIN devs,
           \A r \in DOMAIN some : Free(some[r]) \in Nat /\ Free(some[r]) <= Free(devs[r])
    PROVE  /\ AggregateFree(some) \in Nat /\ AggregateFree(devs) \in Nat
           /\ AggregateFree(some) <= AggregateFree(devs)
<1>1. IsFiniteSet(DOMAIN some)
  BY FS_Subset
<1>2. PICK g : IsSum(g, FreeOf(devs), DOMAIN devs) /\ AggregateFree(devs) = g[DOMAIN devs]
  BY AggregateIsSum
<1>3. PICK h : IsSum(h, FreeOf(some), DOMAIN some) /\ AggregateFree(some) = h[DOMAIN some]
  BY <1>1, AggregateIsSum
<1>4. /\ \A r \in DOMAIN devs : FreeOf(devs)[r] \in Nat
      /\ \A r \in DOMAIN some : FreeOf(some)[r] \in Nat /\ FreeOf(some)[r] <= FreeOf(devs)[r]
  BY DEF FreeOf
<1> QED BY <1>2, <1>3, <1>4, SumMonotone

-----------------------------------------------------------------------------
(***************************************************************************)
(* Free bytes and free blocks of one device.                               *)
(***************************************************************************)
FreeBytes(d) == FreeCells(d.cap, d.allocs)

(* n bytes of d from s on are free. *)
FreeRun(d, s, n) == s .. (s + n - 1) \subseteq FreeBytes(d)

(* The free bytes of a device are finitely many and inside it.             *)
LEMMA FreeIsCounted ==
    ASSUME NEW d, d.cap \in Nat
    PROVE  /\ IsFiniteSet(FreeBytes(d)) /\ Free(d) = Cardinality(FreeBytes(d))
           /\ Free(d) \in Nat /\ Free(d) <= d.cap
           /\ \A c \in FreeBytes(d) : c \in Nat /\ c < d.cap
<1> DEFINE cap == d.cap
<1>1. IsFiniteSet(0 .. (cap - 1)) /\ Cardinality(0 .. (cap - 1)) <= cap
  <2> DEFINE hi == cap - 1
  <2>1. 0 \in Int /\ hi \in Int
    OBVIOUS
  <2>2. hi - 0 + 1 = cap /\ (0 > hi => cap = 0)
    OBVIOUS
  <2> HIDE DEF hi
  <2>3. IsFiniteSet(0 .. hi) /\ Cardinality(0 .. hi) = IF 0 > hi THEN 0 ELSE hi - 0 + 1
    BY <2>1, FS_Interval
  <2>4. Cardinality(0 .. hi) <= cap
    BY <2>1, <2>2, <2>3
  <2> QED BY <2>3, <2>4 DEF hi
<1>2. FreeBytes(d) \subseteq 0 .. (cap - 1)
  BY DEF FreeBytes, FreeCells
<1>3. Free(d) = Cardinality(FreeBytes(d))
  BY DEF Free, FreeCapacity, FreeBytes
<1> HIDE DEF cap
<1>4. IsFiniteSet(FreeBytes(d)) /\ Cardinality(FreeBytes(d)) <= Cardinality(0 .. (cap - 1))
  BY <1>1, <1>2, FS_Subset
<1>5. Cardinality(FreeBytes(d)) \in Nat /\ Cardinality(0 .. (cap - 1)) \in Nat
  BY <1>1, <1>4, FS_CardinalityType
<1>6. cap \in Nat
  BY DEF cap
<1>7. Free(d) <= cap
  BY <1>1, <1>3, <1>4, <1>5, <1>6
<1>8. \A c \in FreeBytes(d) : c \in Nat /\ c < cap
  BY <1>2, <1>6
<1> QED BY <1>3, <1>4, <1>5, <1>7, <1>8 DEF cap

(* The maximal run through a run: every run of free bytes lies in a free   *)
(* block.                                                                  *)
LEMMA RunInBlock ==
    ASSUME NEW d, d.cap \in Nat, NEW s \in Nat, NEW n \in Nat, n > 0, FreeRun(d, s, n)
    PROVE  \E b \in FreeBlocks(d.cap, d.allocs) :
              n <= b[2] /\ b[1] <= s /\ s + n <= b[1] + b[2]
<1> DEFINE F == FreeBytes(d)
           cap == d.cap
           Starts == {x \in Nat : x <= s /\ \A c \in x .. s : c \in F}
           Ends == {y \in Nat : s < y /\ y \notin F}
<1>0. cap \in Nat /\ \A c \in F : c \in Nat /\ c < cap
  BY FreeIsCounted
<1>1. \A c \in s .. (s + n - 1) : c \in F
  BY DEF FreeRun
<1> HIDE DEF F, cap
<1>2. s \in F
  BY <1>1
<1>3. PICK x \in Starts : \A z \in Starts : x <= z
  <2>1. s \in Starts
    BY <1>2
  <2>2. Starts \subseteq Nat /\ Starts # {}
    BY <2>1
  <2> HIDE DEF Starts
  <2> QED BY <2>2, LeastNumber
<1>4. PICK y \in Ends : \A z \in Ends : y <= z
  <2>1. cap \in Ends
    BY <1>0, <1>2
  <2>2. Ends \subseteq Nat /\ Ends # {}
    BY <2>1
  <2> HIDE DEF Ends
  <2> QED BY <2>2, LeastNumber
<1>5. x \in Nat /\ x <= s /\ y \in Nat /\ s < y /\ y \notin F
  BY <1>3, <1>4
<1>6. \A c \in Nat : x <= c /\ c < y => c \in F
  <2> SUFFICES ASSUME NEW c \in Nat, x <= c, c < y, c \notin F PROVE FALSE
    OBVIOUS
  <2>1. CASE c <= s
    BY <1>3, <1>5, <2>1
  <2>2. CASE s < c
    BY <1>4, <1>5, <2>2
  <2> QED BY <2>1, <2>2
<1>7. (x - 1) \notin F
  <2> SUFFICES ASSUME (x - 1) \in F PROVE FALSE
    OBVIOUS
  <2>1. x - 1 \in Nat
    BY <1>0
  <2>2. \A c \in (x - 1) .. s : c \in F
    <3> TAKE c \in (x - 1) .. s
    <3>1. CASE c = x - 1
      BY <3>1
    <3>2. CASE c # x - 1
      BY <1>5, <1>6, <2>1, <3>2
    <3> QED BY <3>1, <3>2
  <2>3. x - 1 \in Starts
    BY <1>5, <2>1, <2>2
  <2>4. x <= x - 1
    BY <1>3, <2>3
  <2> QED BY <1>5, <2>4
<1>8. s + n <= y
  <2> SUFFICES ASSUME y < s + n PROVE FALSE
    BY <1>5
  <2>1. y \in s .. (s + n - 1)
    BY <1>5
  <2> QED BY <1>1, <1>5, <2>1
<1>9. y <= cap /\ x < cap
  <2>1. y - 1 \in Nat /\ x <= y - 1 /\ y - 1 < y
    BY <1>5
  <2>2. y - 1 \in F
    BY <1>6, <2>1
  <2> QED BY <1>0, <1>5, <2>2
<1> DEFINE b == <<x, y - x>>
<1>10. b[1] = x /\ b[2] = y - x /\ x + (y - x) = y /\ b[1] + b[2] = y
  BY <1>5
<1>11. b \in (0 .. (cap - 1)) \X (1 .. cap)
  <2>1. x \in 0 .. (cap - 1) /\ (y - x) \in 1 .. cap
    BY <1>0, <1>5, <1>9
  <2> QED BY <2>1
<1>12. x .. (x + (y - x) - 1) \subseteq F
  BY <1>5, <1>6
<1>13. /\ b[1] .. (b[1] + b[2] - 1) \subseteq F
       /\ (b[1] - 1) \notin F
       /\ (b[1] + b[2]) \notin F
  BY <1>5, <1>7, <1>10, <1>12
<1>14. n <= b[2] /\ b[1] <= s /\ s + n <= b[1] + b[2]
  BY <1>5, <1>8, <1>10
<1>15. b \in FreeBlocks(d.cap, d.allocs)
  <2> HIDE DEF b
  <2> QED BY <1>11, <1>13 DEF FreeBlocks, F, FreeBytes, cap
<1> QED BY <1>14, <1>15

(* largest_free_block() is the length of the longest run of free bytes.    *)
LEMMA LargestIsLongest ==
    ASSUME NEW d, d.cap \in Nat
    PROVE  /\ Largest(d) \in Nat /\ Largest(d) <= d.cap
           /\ Largest(d) > 0 => \E s \in Nat : FreeRun(d, s, Largest(d))
           /\ \A s, n \in Nat : FreeRun(d, s, n) => n <= Largest(d)
<1> DEFINE cap == d.cap
           Blocks == FreeBlocks(d.cap, d.allocs)
           S == {0} \cup {b[2] : b \in Blocks}
<1>0. cap \in Nat
  OBVIOUS
<1>1. \A b \in Blocks : /\ b[1] \in Nat /\ b[2] \in Nat /\ b[2] <= cap
                         /\ FreeRun(d, b[1], b[2])
  BY DEF FreeBlocks, FreeRun, FreeBytes
<1>2. Largest(d) = Max(S)
  BY DEF Largest, LargestFreeBlock
<1> HIDE DEF cap, Blocks
<1>3. S \subseteq Nat /\ S # {} /\ \A y \in S : y <= cap
  BY <1>0, <1>1
<1>4. Max(S) \in S /\ Max(S) \in Nat /\ \A y \in S : y <= Max(S)
  <2> HIDE DEF S
  <2> QED BY <1>0, <1>3, MaxOfBounded
<1>5. Largest(d) > 0 => \E s \in Nat : FreeRun(d, s, Largest(d))
  <2> SUFFICES ASSUME Max(S) > 0 PROVE \E s \in Nat : FreeRun(d, s, Max(S))
    BY <1>2
  <2>1. PICK b \in Blocks : Max(S) = b[2]
    <3>1. \A m \in S : m > 0 => \E b \in Blocks : m = b[2]
      OBVIOUS
    <3> HIDE DEF S
    <3> QED BY <1>4, <3>1
  <2> QED BY <1>1, <2>1
<1>6. ASSUME NEW s \in Nat, NEW n \in Nat, FreeRun(d, s, n) PROVE n <= Max(S)
  <2>1. CASE n = 0
    BY <1>4, <2>1
  <2>2. CASE n # 0
    <3>1. n > 0
      BY <2>2
    <3>2. PICK b \in Blocks : n <= b[2]
      BY <1>6, <3>1, RunInBlock DEF Blocks
    <3>3. b[2] \in S /\ b[2] \in Nat
      BY <1>1
    <3> QED BY <1>4, <3>2, <3>3
  <2> QED BY <2>1, <2>2
<1> QED BY <1>2, <1>3, <1>4, <1>5, <1>6 DEF cap

(* A device with more free bytes has more of them together and apart.      *)
LEMMA MoreFree ==
    ASSUME NEW d, d.cap \in Nat, NEW e, e.cap \in Nat, FreeBytes(d) \subseteq FreeBytes(e)
    PROVE  Free(d) <= Free(e) /\ Largest(d) <= Largest(e)
<1>1. Free(d) <= Free(e)
  BY FreeIsCounted, FS_Subset
<1>2. \A s, n : FreeRun(d, s, n) => FreeRun(e, s, n)
  BY DEF FreeRun
<1>3. Largest(d) \in Nat /\ Largest(e) \in Nat
  BY LargestIsLongest
<1>4. CASE Largest(d) = 0
  BY <1>1, <1>3, <1>4
<1>5. CASE Largest(d) > 0
  <2>1. PICK s \in Nat : FreeRun(d, s, Largest(d))
    BY <1>5, LargestIsLongest
  <2>2. Largest(d) <= Largest(e)
    BY <1>2, <1>3, <2>1, LargestIsLongest
  <2> QED BY <1>1, <2>2
<1> QED BY <1>1, <1>3, <1>4, <1>5

-----------------------------------------------------------------------------
(***************************************************************************)
(* Fleets: finitely many devices with finitely many allocations each.      *)
(***************************************************************************)
IsDevice(d) ==
    /\ d = [cap |-> d.cap, group |-> d.group, allocs |-> d.allocs]
    /\ d.cap \in Nat
    /\ IsFiniteSet(DOMAIN d.allocs)

Fleet(devs) == IsFiniteSet(DOMAIN devs) /\ \A r \in DOMAIN devs : IsDevice(devs[r])

IsDemand(demand) == demand.count \in Nat /\ demand.perDevice \in Nat /\ demand.aggregate \in Nat

(* remove_allocation takes away what it is told to and nothing else.       *)
LEMMA WithoutShape ==
    ASSUME NEW d, IsDevice(d), NEW ids
    PROVE  /\ IsDevice(Without(d, ids))
           /\ Without(d, ids).cap = d.cap /\ Without(d, ids).group = d.group
           /\ DOMAIN Without(d, ids).allocs = DOMAIN d.allocs \ ids
           /\ \A i \in DOMAIN d.allocs \ ids : Without(d, ids).allocs[i] = d.allocs[i]
<1> DEFINE c == d.cap
           g == d.group
           as == d.allocs
           bs == [i \in DOMAIN as \ ids |-> as[i]]
           e == [cap |-> c, group |-> g, allocs |-> as]
<1>1. d = e /\ c \in Nat /\ IsFiniteSet(DOMAIN as)
  BY DEF IsDevice
<1>2. Without(d, ids) = [d EXCEPT !.allocs = bs]
  BY DEF Without
<1>3. [e EXCEPT !.allocs = bs] = [cap |-> c, group |-> g, allocs |-> bs]
  OBVIOUS
<1>4. DOMAIN bs = DOMAIN as \ ids /\ \A i \in DOMAIN as \ ids : bs[i] = as[i]
  OBVIOUS
<1>5. IsFiniteSet(DOMAIN bs)
  BY <1>1, <1>4, FS_Subset
<1> DEFINE w == Without(d, ids)
<1> HIDE DEF c, g, as, bs
<1>6. w = [cap |-> c, group |-> g, allocs |-> bs]
  BY <1>1, <1>2, <1>3
<1> HIDE DEF w
<1>7. w.cap = c /\ w.group = g /\ w.allocs = bs
  BY <1>6
<1>8. IsDevice(w)
  BY <1>1, <1>5, <1>6, <1>7 DEF IsDevice
<1> QED BY <1>4, <1>7, <1>8 DEF w, c, g, as

(* With fewer allocations more bytes are free.                             *)
LEMMA FewerAllocations ==
    ASSUME NEW d, IsDevice(d), NEW e, IsDevice(e), e.cap = d.cap,
           DOMAIN e.allocs \subseteq DOMAIN d.allocs,
           \A i \in DOMAIN e.allocs : e.allocs[i] = d.allocs[i]
    PROVE  FreeBytes(d) \subseteq FreeBytes(e)
<1>1. UsedCells(e.allocs) \subseteq UsedCells(d.allocs)
  BY DEF UsedCells
<1> QED BY <1>1 DEF FreeBytes, FreeCells

(* The candidates taken for device r. *)
TakenFrom(cands, r) == {c.src : c \in {d \in cands : d.res = r}}

(* The devices after some candidates have been displaced.                  *)
LEMMA DisplacedShape ==
    ASSUME NEW devs, Fleet(devs), NEW cands
    PROVE  /\ DOMAIN Displaced(devs, cands) = DOMAIN devs
           /\ Fleet(Displaced(devs, cands))
           /\ \A r \in DOMAIN devs :
                 /\ Displaced(devs, cands)[r].cap = devs[r].cap
                 /\ Displaced(devs, cands)[r].group = devs[r].group
                 /\ DOMAIN Displaced(devs, cands)[r].allocs
                       = DOMAIN devs[r].allocs \ TakenFrom(cands, r)
                 /\ \A i \in DOMAIN devs[r].allocs \ TakenFrom(cands, r) :
                       Displaced(devs, cands)[r].allocs[i] = devs[r].allocs[i]
                 /\ FreeBytes(devs[r]) \subseteq FreeBytes(Displaced(devs, cands)[r])
<1> DEFINE D == Displaced(devs, cands)
<1>1. DOMAIN D = DOMAIN devs /\ \A r \in DOMAIN devs : D[r] = Without(devs[r], TakenFrom(cands, r))
  BY DEF Displaced, TakenFrom
<1> HIDE DEF D
<1>2. ASSUME NEW r \in DOMAIN devs
      PROVE  /\ IsDevice(D[r])
             /\ D[r].cap = devs[r].cap /\ D[r].group = devs[r].group
             /\ DOMAIN D[r].allocs = DOMAIN devs[r].allocs \ TakenFrom(cands, r)
             /\ \A i \in DOMAIN devs[r].allocs \ TakenFrom(cands, r) :
                   D[r].allocs[i] = devs[r].allocs[i]
    BY <1>1, WithoutShape DEF Fleet
<1>3. ASSUME NEW r \in DOMAIN devs PROVE FreeBytes(devs[r]) \subseteq FreeBytes(D[r])
  <2>1. IsDevice(devs[r])
    BY DEF Fleet
  <2>2. /\ IsDevice(D[r]) /\ D[r].cap = devs[r].cap
        /\ DOMAIN D[r].allocs \subseteq DOMAIN devs[r].allocs
        /\ \A i \in DOMAIN D[r].allocs : D[r].allocs[i] = devs[r].allocs[i]
    BY <1>2
  <2> QED BY <2>1, <2>2, FewerAllocations
<1>4. Fleet(D)
  BY <1>1, <1>2 DEF Fleet
<1> QED BY <1>1, <1>2, <1>3, <1>4 DEF D

(* A device that satisfies the demand still does with more bytes free, and *)
(* no fewer devices then do: what eval() counts only grows.                *)
LEMMA FleetMonotone ==
    ASSUME NEW devs, Fleet(devs), NEW some, Fleet(some), DOMAIN some \subseteq DOMAIN devs,
           \A r \in DOMAIN some : FreeBytes(some[r]) \subseteq FreeBytes(devs[r]),
           NEW demand, IsDemand(demand)
    PROVE  /\ AggregateFree(some) \in Nat /\ AggregateFree(devs) \in Nat
           /\ AggregateFree(some) <= AggregateFree(devs)
           /\ Satisfying(some, demand) \in Nat /\ Satisfying(devs, demand) \in Nat
           /\ Satisfying(some, demand) <= Satisfying(devs, demand)
           /\ NeededCount(demand) \in Nat
           /\ PlanFits(some, demand) => PlanFits(devs, demand)
<1>0. /\ \A r \in DOMAIN devs : devs[r].cap \in Nat
      /\ \A r \in DOMAIN some : some[r].cap \in Nat
      /\ IsFiniteSet(DOMAIN devs)
  BY DEF Fleet, IsDevice
<1>1. \A r \in DOMAIN some :
         /\ Free(some[r]) \in Nat /\ Free(devs[r]) \in Nat
         /\ Largest(some[r]) \in Nat /\ Largest(devs[r]) \in Nat
         /\ Free(some[r]) <= Free(devs[r]) /\ Largest(some[r]) <= Largest(devs[r])
  BY <1>0, MoreFree, FreeIsCounted, LargestIsLongest
<1>2. \A r \in DOMAIN devs : Free(devs[r]) \in Nat
  BY <1>0, FreeIsCounted
<1>3. /\ AggregateFree(some) \in Nat /\ AggregateFree(devs) \in Nat
      /\ AggregateFree(some) <= AggregateFree(devs)
  BY <1>0, <1>1, <1>2, AggregateMonotone
<1> DEFINE A == {r \in DOMAIN some : DeviceSatisfies(some[r], demand)}
           B == {r \in DOMAIN devs : DeviceSatisfies(devs[r], demand)}
<1>4. \A r \in DOMAIN some : DeviceSatisfies(some[r], demand) => DeviceSatisfies(devs[r], demand)
  BY <1>1 DEF DeviceSatisfies, IsDemand
<1>5. A \subseteq B /\ B \subseteq DOMAIN devs
  BY <1>4
<1>6. Satisfying(some, demand) = Cardinality(A) /\ Satisfying(devs, demand) = Cardinality(B)
  BY DEF Satisfying
<1> HIDE DEF A, B
<1>7. IsFiniteSet(B)
  BY <1>0, <1>5, FS_Subset
<1>8. IsFiniteSet(A) /\ Cardinality(A) <= Cardinality(B)
  BY <1>5, <1>7, FS_Subset
<1>9. Cardinality(A) \in Nat /\ Cardinality(B) \in Nat
  BY <1>7, <1>8, FS_CardinalityType
<1>10. NeededCount(demand) \in Nat
  BY DEF NeededCount, IsDemand
<1>11. PlanFits(some, demand) => PlanFits(devs, demand)
  BY <1>3, <1>6, <1>8, <1>9, <1>10 DEF PlanFits, IsDemand
<1> QED BY <1>3, <1>6, <1>8, <1>9, <1>10, <1>11

(* A demand that analyze_fit finds to fit, in its topology group, fits in  *)
(* the eyes of the planner, which ignores the group.                       *)
LEMMA FitMeansPlanFits ==
    ASSUME NEW snap, Fleet(snap.devices), NEW demand, IsDemand(demand),
           AnalyzeFit(snap, demand) = "FIT_NOW"
    PROVE  PlanFits(snap.devices, demand)
<1> DEFINE all == snap.devices
           sel == Selected(all, demand)
           devs == [r \in sel |-> all[r]]
<1>1. ShortfallCause(devs, demand) # "FIT_NOW"
  BY DEF ShortfallCause
<1>2. ~(AggregateFree(devs) < demand.aggregate) /\ ~(Satisfying(devs, demand) < NeededCount(demand))
  BY <1>1 DEF AnalyzeFit
<1>3. sel \subseteq DOMAIN all
  BY DEF Selected
<1>4. DOMAIN devs = sel /\ \A r \in sel : devs[r] = all[r]
  OBVIOUS
<1> HIDE DEF devs, sel, all
<1>5. Fleet(all)
  BY DEF all
<1>6. Fleet(devs)
  BY <1>3, <1>4, <1>5, FS_Subset DEF Fleet
<1>7. \A r \in DOMAIN devs : FreeBytes(devs[r]) \subseteq FreeBytes(all[r])
  BY <1>4
<1>8. /\ AggregateFree(devs) \in Nat /\ Satisfying(devs, demand) \in Nat /\ NeededCount(demand) \in Nat
      /\ PlanFits(devs, demand) => PlanFits(all, demand)
  BY <1>3, <1>4, <1>5, <1>6, <1>7, FleetMonotone
<1>9. PlanFits(devs, demand)
  BY <1>2, <1>8 DEF PlanFits, IsDemand
<1> QED BY <1>8, <1>9 DEF all

(* Finitely many allocations may be displaced.                             *)
LEMMA CandidatesFinite ==
    ASSUME NEW devs, Fleet(devs)
    PROVE  IsFiniteSet(Candidates(devs)) /\ Cardinality(Candidates(devs)) \in Nat
<1> DEFINE C == Candidates(devs)
           On(r) == {i \in DOMAIN devs[r].allocs : Reclaimable(devs[r].allocs[i])}
           Part(r) == {[res |-> r, src |-> i] : i \in On(r)}
<1>1. C = UNION {Part(r) : r \in DOMAIN devs}
  BY DEF Candidates
<1>2. ASSUME NEW r \in DOMAIN devs PROVE IsFiniteSet(Part(r))
  <2>1. IsFiniteSet(On(r))
    <3>1. IsFiniteSet(DOMAIN devs[r].allocs)
      BY DEF Fleet, IsDevice
    <3> QED BY <3>1, FS_Subset
  <2> DEFINE f == [i \in On(r) |-> [res |-> r, src |-> i]]
  <2>2. f \in Surjection(On(r), Part(r))
    BY DEF Surjection
  <2> HIDE DEF f, On, Part
  <2> QED BY <2>1, <2>2, FS_Surjection
<1>3. IsFiniteSet({Part(r) : r \in DOMAIN devs})
  <2> DEFINE P == {Part(r) : r \in DOMAIN devs}
             f == [r \in DOMAIN devs |-> Part(r)]
  <2>1. f \in Surjection(DOMAIN devs, P)
    BY DEF Surjection
  <2> HIDE DEF f, P
  <2>2. IsFiniteSet(DOMAIN devs)
    BY DEF Fleet
  <2>3. IsFiniteSet(P)
    BY <2>1, <2>2, FS_Surjection
  <2> QED BY <2>3 DEF P
<1>4. IsFiniteSet(C)
  <2> DEFINE P == {Part(r) : r \in DOMAIN devs}
  <2>1. IsFiniteSet(P) /\ \A p \in P : IsFiniteSet(p)
    BY <1>2, <1>3
  <2>2. C = UNION P
    BY <1>1
  <2> HIDE DEF P, C
  <2> QED BY <2>1, <2>2, FS_UNION
<1> QED BY <1>4, FS_CardinalityType

(* plan_remediation returns no plan for a demand that fits already.        *)
LEMMA PlanMeansNoFit ==
    ASSUME NEW devs, Fleet(devs), NEW demand, IsDemand(demand), HasPlan(devs, demand)
    PROVE  ~PlanFits(devs, demand)
<1>1. IsFiniteSet(Candidates(devs)) /\ Cardinality(Candidates(devs)) \in Nat
  BY CandidatesFinite
<1>2. Cheapest(devs, 0) = {}
  <2> DEFINE rank(c) == Cardinality({d \in Candidates(devs) : CheaperThan(devs, d, c)})
  <2>1. \A c : rank(c) \in Nat
    BY <1>1, FS_Subset, FS_CardinalityType
  <2>2. Cheapest(devs, 0) = {c \in Candidates(devs) : rank(c) < 0}
    BY DEF Cheapest
  <2> HIDE DEF rank
  <2>3. \A c : ~(rank(c) < 0)
    BY <2>1
  <2> QED BY <2>2, <2>3
<1>3. 0 \in 0 .. Cardinality(Candidates(devs))
  BY <1>1
<1>4. ~PlanFits(Displaced(devs, {}), demand)
  <2>1. 0 \notin Sufficient(devs, demand)
    BY DEF HasPlan
  <2>2. 0 \in Sufficient(devs, demand) <=> PlanFits(Displaced(devs, Cheapest(devs, 0)), demand)
    BY <1>3 DEF Sufficient
  <2> QED BY <1>2, <2>1, <2>2
<1>5. /\ DOMAIN Displaced(devs, {}) = DOMAIN devs /\ Fleet(Displaced(devs, {}))
      /\ \A r \in DOMAIN devs : FreeBytes(devs[r]) \subseteq FreeBytes(Displaced(devs, {})[r])
  BY DisplacedShape
<1> QED BY <1>4, <1>5, FleetMonotone
-----------------------------------------------------------------------------
(***************************************************************************)
(* The window search.                                                      *)
(***************************************************************************)

(* The sort succeeds: the same reservations, by start.                     *)
LEMMA ByStartSorts ==
    ASSUME NEW n \in Nat, NEW rs, DOMAIN rs = 1 .. n, \A i \in 1 .. n : rs[i].start \in Nat
    PROVE  /\ ByStart(rs) = [i \in 1 .. n |-> ByStart(rs)[i]]
           /\ \A i \in 1 .. n : \E k \in 1 .. n : ByStart(rs)[i] = rs[k]
           /\ \A k \in 1 .. n : \E i \in 1 .. n : ByStart(rs)[i] = rs[k]
           /\ \A i, j \in 1 .. n : i < j => ByStart(rs)[i].start <= ByStart(rs)[j].start
<1> DEFINE C == 1 .. n
           at == [i \in C |-> rs[i].start]
           R == {e \in C \X C : at[e[1]] < at[e[2]] \/ (at[e[1]] = at[e[2]] /\ e[1] < e[2])}
           Good(p) == \A i, j \in C : i < j => p[i] # p[j] /\ rs[p[i]].start <= rs[p[j]].start
           order == CHOOSE p \in [C -> C] : Good(p)
<1>1. IsFiniteSet(C) /\ Cardinality(C) = n
  BY CountUpTo
<1>2. \A c \in C : at[c] = rs[c].start /\ at[c] \in Nat
  OBVIOUS
<1> HIDE DEF at
<1>3. \A c, d \in C : <<c, d>> \in R <=> (at[c] < at[d] \/ (at[c] = at[d] /\ c < d))
  OBVIOUS
<1>4. Orders(R, C)
  <2> HIDE DEF R
  <2>1. \A c \in C : <<c, c>> \notin R
    BY <1>2, <1>3
  <2>2. ASSUME NEW c \in C, NEW d \in C, NEW e \in C, <<c, d>> \in R, <<d, e>> \in R
        PROVE  <<c, e>> \in R
    <3>1. /\ at[c] \in Nat /\ at[d] \in Nat /\ at[e] \in Nat
          /\ c \in Int /\ d \in Int /\ e \in Int
      BY <1>2
    <3>2. /\ at[c] < at[d] \/ (at[c] = at[d] /\ c < d)
          /\ at[d] < at[e] \/ (at[d] = at[e] /\ d < e)
      BY <1>3, <2>2
    <3>3. at[c] < at[e] \/ (at[c] = at[e] /\ c < e)
      BY <3>1, <3>2
    <3> QED BY <1>3, <3>3
  <2>3. \A c, d \in C : c # d => <<c, d>> \in R \/ <<d, c>> \in R
    BY <1>2, <1>3
  <2> QED BY <2>1, <2>2, <2>3 DEF Orders
<1>5. \E p \in [C -> C] : Good(p)
  <2> HIDE DEF R
  <2>1. PICK p \in [C -> C] : \A i, j \in C : i < j => <<p[i], p[j]>> \in R
    <3>1. \E p \in [1 .. Cardinality(C) -> C] :
             \A i, j \in 1 .. Cardinality(C) : i < j => <<p[i], p[j]>> \in R
      <4> HIDE DEF C
      <4> QED BY <1>1, <1>4, SortExists
    <3> QED BY <1>1, <3>1
  <2>2. ASSUME NEW i \in C, NEW j \in C, i < j
        PROVE  p[i] # p[j] /\ rs[p[i]].start <= rs[p[j]].start
    <3> DEFINE c == p[i]
               d == p[j]
    <3>1. c \in C /\ d \in C /\ <<c, d>> \in R
      BY <2>1, <2>2
    <3> HIDE DEF c, d
    <3>2. c # d /\ at[c] <= at[d]
      <4>1. at[c] < at[d] \/ (at[c] = at[d] /\ c < d)
        BY <1>3, <3>1
      <4>2. at[c] \in Nat /\ at[d] \in Nat /\ c \in Int /\ d \in Int
        BY <1>2, <3>1
      <4> QED BY <4>1, <4>2
    <3>3. c # d /\ rs[c].start <= rs[d].start
      BY <1>2, <3>1, <3>2
    <3> QED BY <3>3 DEF c, d
  <2> QED BY <2>1, <2>2
<1>6. order \in [C -> C] /\ Good(order)
  BY <1>5
<1>7. ByStart(rs) = [i \in C |-> rs[order[i]]]
  BY DEF ByStart
<1> HIDE DEF order
<1>8. \A k \in C : \E i \in C : order[i] = k
  <2>1. \A i, j \in 1 .. n : i < j => order[i] # order[j]
    BY <1>6
  <2>2. \A k \in C : \E i \in 1 .. n : order[i] = k
    <3>1. order \in [1 .. n -> C] /\ n = Cardinality(C)
      BY <1>1, <1>6
    <3> HIDE DEF C
    <3> QED BY <1>1, <2>1, <3>1, SortedListsAll
  <2> QED BY <2>2
<1>9. \A i \in C : order[i] \in C /\ ByStart(rs)[i] = rs[order[i]]
  BY <1>6, <1>7
<1> DEFINE bs == ByStart(rs)
<1>10. bs = [i \in 1 .. n |-> bs[i]]
  BY <1>7
<1> HIDE DEF bs
<1>11. \A i \in C : order[i] \in C /\ bs[i] = rs[order[i]]
  BY <1>9 DEF bs
<1>12. \A i \in 1 .. n : \E k \in 1 .. n : bs[i] = rs[k]
  BY <1>11
<1>13. \A k \in 1 .. n : \E i \in 1 .. n : bs[i] = rs[k]
  <2> TAKE k \in 1 .. n
  <2>1. PICK i \in C : order[i] = k
    BY <1>8
  <2>2. bs[i] = rs[k]
    BY <1>11, <2>1
  <2> QED BY <2>2
<1>14. ASSUME NEW i \in 1 .. n, NEW j \in 1 .. n, i < j PROVE bs[i].start <= bs[j].start
  <2>1. rs[order[i]].start <= rs[order[j]].start
    BY <1>6, <1>14
  <2>2. bs[i] = rs[order[i]] /\ bs[j] = rs[order[j]]
    BY <1>11
  <2> QED BY <2>1, <2>2
<1> QED BY <1>10, <1>12, <1>13, <1>14 DEF bs

(* g[k] is the state of the sweep after k reservations. *)
IsSweep(g, bs, n, start, end, required) ==
    g = [k \in 0 .. n |->
            IF k = 0 THEN [cursor |-> start, result |-> "SCAN"]
            ELSE SweepStep(g[k - 1], bs[k], end, required)]

(* The sweep is defined for any number of reservations.                    *)
LEMMA SweepExists ==
    ASSUME NEW n \in Nat, NEW bs, NEW start, NEW end, NEW required
    PROVE  \E g : IsSweep(g, bs, n, start, end, required)
<1> DEFINE base == [cursor |-> start, result |-> "SCAN"]
           Step(h, k) == IF k = 0 THEN base ELSE SweepStep(h[k - 1], bs[k], end, required)
           Bad == {m \in Nat : ~\E g : g = [k \in 0 .. m |-> Step(g, k)]}
<1> HIDE DEF base
<1>1. ASSUME NEW m \in Bad, \A b \in Bad : m <= b PROVE FALSE
  <2>1. CASE m = 0
    <3> DEFINE g == [k \in 0 .. 0 |-> base]
    <3>1. g = [k \in 0 .. 0 |-> Step(g, k)]
      OBVIOUS
    <3> QED BY <1>1, <2>1, <3>1
  <2>2. CASE m # 0
    <3>1. m - 1 \in Nat /\ m - 1 \notin Bad
      <4>1. m \in Nat /\ m - 1 \in Nat /\ ~(m <= m - 1)
        BY <2>2
      <4> HIDE DEF Bad
      <4> QED BY <1>1, <4>1
    <3>2. PICK h : h = [k \in 0 .. (m - 1) |-> Step(h, k)]
      BY <3>1
    <3> DEFINE g == [k \in 0 .. m |-> Step(h, k)]
    <3>3. \A k \in 0 .. (m - 1) : h[k] = Step(h, k) /\ g[k] = Step(h, k)
      BY <3>1, <3>2
    <3>4. ASSUME NEW k \in 0 .. m, k # 0 PROVE g[k - 1] = h[k - 1]
      <4>1. k - 1 \in 0 .. (m - 1)
        BY <3>1, <3>4
      <4> HIDE DEF g
      <4> QED BY <3>3, <4>1
    <3>5. \A k \in 0 .. m : Step(h, k) = Step(g, k)
      <4> HIDE DEF g
      <4> QED BY <3>4
    <3>6. g = [k \in 0 .. m |-> Step(g, k)]
      BY <3>5
    <3> QED BY <1>1, <3>6
  <2> QED BY <2>1, <2>2
<1>2. Bad = {}
  <2>1. Bad \subseteq Nat
    OBVIOUS
  <2> HIDE DEF Bad
  <2> QED BY <1>1, <2>1, LeastNumber
<1> QED BY <1>2 DEF IsSweep, base

(* The reservation r leaves the window of the required length at t alone. *)
Avoids(r, t, required) == r.end <= t \/ r.start >= t + required

(* What is known of the state of the sweep after the first k of n          *)
(* reservations: every start before the cursor meets one of them.          *)
SweepState(st, bs, n, k, start, end, required) ==
    /\ st = [cursor |-> st.cursor, result |-> st.result]
    /\ st.cursor \in Nat /\ st.result \in {"SCAN", "FOUND", "LEFT"}
    /\ \A t \in Nat : start <= t /\ t < st.cursor =>
          \E i \in 1 .. n : ~Avoids(bs[i], t, required)
    /\ st.cursor = start \/ \E i \in 1 .. n : st.cursor = bs[i].end
    /\ st.result = "SCAN" => \A i \in 1 .. n : i <= k => bs[i].end <= st.cursor
    /\ st.result = "FOUND" =>
          /\ \A i \in 1 .. n : Avoids(bs[i], st.cursor, required)
          /\ \E i \in 1 .. n : bs[i].start >= st.cursor + required
    /\ st.result = "LEFT" => st.cursor >= end

(* One reservation further.                                                *)
LEMMA SweepStepKeeps ==
    ASSUME NEW n \in Nat, NEW bs, NEW start \in Nat, NEW end \in Nat, NEW required \in Nat,
           \A i \in 1 .. n : bs[i].start \in Nat /\ bs[i].end \in Nat,
           \A i, j \in 1 .. n : i < j => bs[i].start <= bs[j].start,
           NEW k \in 1 .. n, NEW st, SweepState(st, bs, n, k - 1, start, end, required)
    PROVE  SweepState(SweepStep(st, bs[k], end, required), bs, n, k, start, end, required)
<1> DEFINE c == st.cursor
           b == bs[k].start
           e == bs[k].end
<1>1. c \in Nat /\ b \in Nat /\ e \in Nat
  BY DEF SweepState
<1>2. CASE st.result # "SCAN"
  <2>1. SweepStep(st, bs[k], end, required) = st
    BY <1>2 DEF SweepStep
  <2>2. SweepState(st, bs, n, k, start, end, required)
    BY <1>2 DEF SweepState
  <2> QED BY <2>1, <2>2
<1>3. CASE st.result = "SCAN" /\ e <= c
  <2>1. SweepStep(st, bs[k], end, required) = st
    BY <1>3 DEF SweepStep
  <2>2. ASSUME NEW i \in 1 .. n, i <= k PROVE bs[i].end <= c
    <3>1. CASE i = k
      BY <1>3, <3>1
    <3>2. CASE i # k
      <4>1. i <= k - 1
        BY <2>2, <3>2
      <4> QED BY <1>3, <4>1 DEF SweepState
    <3> QED BY <3>1, <3>2
  <2>3. SweepState(st, bs, n, k, start, end, required)
    BY <1>3, <2>2 DEF SweepState
  <2> QED BY <2>1, <2>3
<1>4. CASE st.result = "SCAN" /\ ~(e <= c) /\ b >= c /\ b - c >= required
  <2> DEFINE new == [cursor |-> c, result |-> "FOUND"]
  <2>1. SweepStep(st, bs[k], end, required) = new
    <3>1. SweepStep(st, bs[k], end, required) = [st EXCEPT !.result = "FOUND"]
      BY <1>4 DEF SweepStep
    <3>2. st = [cursor |-> c, result |-> st.result]
      BY DEF SweepState
    <3> HIDE DEF c
    <3>3. [[cursor |-> c, result |-> st.result] EXCEPT !.result = "FOUND"] = new
      OBVIOUS
    <3> QED BY <3>1, <3>2, <3>3
  <2>2. b >= c + required
    BY <1>1, <1>4
  <2>3. ASSUME NEW i \in 1 .. n PROVE Avoids(bs[i], c, required)
    <3>1. CASE i < k
      <4>1. i <= k - 1
        BY <3>1
      <4>2. bs[i].end <= c
        BY <1>4, <4>1 DEF SweepState
      <4> QED BY <4>2 DEF Avoids
    <3>2. CASE ~(i < k)
      <4>1. bs[i].start >= b /\ bs[i].start \in Nat
        <5>1. i = k \/ k < i
          BY <3>2
        <5> QED BY <1>1, <5>1
      <4>2. bs[i].start >= c + required
        BY <1>1, <2>2, <4>1
      <4> QED BY <4>2 DEF Avoids
    <3> QED BY <3>1, <3>2
  <2>4. new.cursor = c /\ new.result = "FOUND" /\ new = [cursor |-> new.cursor, result |-> new.result]
    OBVIOUS
  <2>5. /\ \A t \in Nat : start <= t /\ t < c => \E i \in 1 .. n : ~Avoids(bs[i], t, required)
        /\ c = start \/ \E i \in 1 .. n : c = bs[i].end
    BY DEF SweepState
  <2> HIDE DEF new, c
  <2>6. SweepState(new, bs, n, k, start, end, required)
    BY <1>1, <2>2, <2>3, <2>4, <2>5 DEF SweepState
  <2> QED BY <2>1, <2>6
<1>5. CASE st.result = "SCAN" /\ ~(e <= c) /\ ~(b >= c /\ b - c >= required)
  <2> DEFINE res == IF e >= end THEN "LEFT" ELSE "SCAN"
             new == [cursor |-> e, result |-> res]
  <2>1. SweepStep(st, bs[k], end, required) = new
    BY <1>5 DEF SweepStep
  <2>2. e > c /\ b < c + required
    BY <1>1, <1>5
  <2>3. ASSUME NEW t \in Nat, start <= t, t < e PROVE \E i \in 1 .. n : ~Avoids(bs[i], t, required)
    <3>1. CASE t < c
      BY <2>3, <3>1 DEF SweepState
    <3>2. CASE ~(t < c)
      <4>1. ~(e <= t) /\ ~(b >= t + required)
        BY <1>1, <2>2, <2>3, <3>2
      <4>2. ~Avoids(bs[k], t, required)
        BY <4>1 DEF Avoids
      <4> QED BY <4>2
    <3> QED BY <3>1, <3>2
  <2>4. ASSUME NEW i \in 1 .. n, i <= k PROVE bs[i].end <= e
    <3>1. CASE i = k
      BY <1>1, <3>1
    <3>2. CASE i # k
      <4>1. i <= k - 1
        BY <2>4, <3>2
      <4>2. bs[i].end <= c /\ bs[i].end \in Nat
        BY <1>5, <4>1 DEF SweepState
      <4> QED BY <1>1, <2>2, <4>2
    <3> QED BY <3>1, <3>2
  <2>5. new.cursor = e /\ new.result = res /\ new = [cursor |-> new.cursor, result |-> new.result]
    OBVIOUS
  <2>6. res \in {"SCAN", "FOUND", "LEFT"} /\ res # "FOUND" /\ (res = "LEFT" => e >= end)
    OBVIOUS
  <2>7. e = start \/ \E i \in 1 .. n : e = bs[i].end
    OBVIOUS
  <2> HIDE DEF new, res, e
  <2>8. SweepState(new, bs, n, k, start, end, required)
    BY <1>1, <2>3, <2>4, <2>5, <2>6, <2>7 DEF SweepState
  <2> QED BY <2>1, <2>8
<1> QED BY <1>2, <1>3, <1>4, <1>5

(* So it is known after all of them.                                       *)
LEMMA SweepEnds ==
    ASSUME NEW n \in Nat, NEW bs, NEW start \in Nat, NEW end \in Nat, NEW required \in Nat,
           \A i \in 1 .. n : bs[i].start \in Nat /\ bs[i].end \in Nat,
           \A i, j \in 1 .. n : i < j => bs[i].start <= bs[j].start,
           NEW g, IsSweep(g, bs, n, start, end, required)
    PROVE  SweepState(g[n], bs, n, n, start, end, required)
<1> DEFINE Good(k) == SweepState(g[k], bs, n, k, start, end, required)
           Bad == {k \in 0 .. n : ~Good(k)}
           base == [cursor |-> start, result |-> "SCAN"]
<1>1. /\ g[0] = base
      /\ \A k \in 1 .. n : g[k] = SweepStep(g[k - 1], bs[k], end, required)
  BY DEF IsSweep
<1>2. Good(0)
  <2>1. base.cursor = start /\ base.result = "SCAN"
    OBVIOUS
  <2>2. base = [cursor |-> base.cursor, result |-> base.result]
    OBVIOUS
  <2> HIDE DEF base
  <2> QED BY <1>1, <2>1, <2>2 DEF SweepState
<1>3. ASSUME NEW k \in Bad, \A m \in Bad : k <= m PROVE FALSE
  <2>1. k \in 1 .. n /\ k - 1 \in 0 .. n /\ ~(k <= k - 1)
    BY <1>2, <1>3
  <2>2. k - 1 \notin Bad
    <3> HIDE DEF Bad
    <3> QED BY <1>3, <2>1
  <2>3. Good(k - 1)
    BY <2>1, <2>2
  <2>4. Good(k)
    BY <1>1, <2>1, <2>3, SweepStepKeeps
  <2> QED BY <1>3, <2>4
<1>4. Bad = {}
  <2>1. Bad \subseteq Nat
    OBVIOUS
  <2> HIDE DEF Bad
  <2> QED BY <1>3, <2>1, LeastNumber
<1>5. n \in 0 .. n
  OBVIOUS
<1> HIDE DEF Good
<1> QED BY <1>4, <1>5 DEF Good

(* What the search answers when the sweep has come to st. *)
SweepAnswer(st, start, end, required) ==
    IF required = 0 THEN [result |-> "FOUND", earliest |-> start]
    ELSE IF st.result = "FOUND" THEN [result |-> "FOUND", earliest |-> st.cursor]
    ELSE IF st.cursor > end THEN [result |-> "THROWS", earliest |-> st.cursor]
    ELSE IF end - st.cursor >= required THEN [result |-> "FOUND", earliest |-> st.cursor]
    ELSE [result |-> "NONE", earliest |-> st.cursor]

(* The window search sweeps the sorted reservations and looks at the tail. *)
LEMMA WindowUnfolds ==
    ASSUME NEW S, NEW rs \in Seq(S), \A i \in DOMAIN rs : rs[i].start \in Nat,
           NEW start, NEW end, NEW required
    PROVE  \E g : /\ IsSweep(g, ByStart(rs), Len(rs), start, end, required)
                  /\ TemporalContinuousFit(rs, start, end, required) =
                        SweepAnswer(g[Len(rs)], start, end, required)
<1> DEFINE n == Len(rs)
           bs == ByStart(rs)
           Is(g) == g = [k \in 0 .. Len(bs) |->
                            IF k = 0 THEN [cursor |-> start, result |-> "SCAN"]
                            ELSE SweepStep(g[k - 1], bs[k], end, required)]
           sweep == CHOOSE g : Is(g)
<1>1. n \in Nat /\ DOMAIN rs = 1 .. n /\ \A i \in 1 .. n : rs[i] \in S
  OBVIOUS
<1>2. Len(bs) = n
  <2>1. bs = [i \in 1 .. n |-> bs[i]] /\ \A i \in 1 .. n : \E k \in 1 .. n : bs[i] = rs[k]
    <3>1. \A i \in 1 .. n : rs[i].start \in Nat
      BY <1>1
    <3>2. n \in Nat /\ DOMAIN rs = 1 .. n
      BY <1>1
    <3>3. /\ bs = [i \in 1 .. n |-> bs[i]]
          /\ \A i \in 1 .. n : \E k \in 1 .. n : bs[i] = rs[k]
      <4> HIDE DEF n
      <4> QED BY <3>1, <3>2, ByStartSorts, Zenon
    <3> QED BY <3>3
  <2> HIDE DEF bs, n
  <2>2. \A i \in 1 .. n : bs[i] \in S
    BY <1>1, <2>1
  <2>3. bs \in [1 .. n -> S]
    BY <2>1, <2>2
  <2> QED BY <1>1, <2>3
<1>3. \E g : Is(g)
  <2>1. \E g : IsSweep(g, bs, n, start, end, required)
    <3> HIDE DEF bs, n
    <3> QED BY <1>1, SweepExists
  <2> QED BY <1>2, <2>1 DEF IsSweep
<1>4. Is(sweep)
  <2> HIDE DEF Is
  <2> QED BY <1>3
<1>5. IsSweep(sweep, bs, n, start, end, required)
  <2> HIDE DEF sweep, bs, n
  <2> QED BY <1>2, <1>4 DEF IsSweep
<1>6. TemporalContinuousFit(rs, start, end, required) 
       = SweepAnswer(sweep[Len(bs)], start, end, required)
  BY Zenon DEF TemporalContinuousFit, SweepAnswer
<1>7. TemporalContinuousFit(rs, start, end, required) = SweepAnswer(sweep[n], start, end, required)
  <2> HIDE DEF sweep, bs, n
  <2> QED BY <1>2, <1>6
<1> HIDE DEF sweep
<1> QED BY <1>5, <1>7

=============================================================================
