--------------------------- MODULE AnalysisProofs ---------------------------
(***************************************************************************)
(* Analysis, for every family of legal snapshots and demands: the greedy   *)
(* loop computes the closed form that Coordinator uses, a plan that has    *)
(* been carried out is verified as such, and fit analysis, planner and     *)
(* metrics do not contradict each other.                                   *)
(***************************************************************************)
EXTENDS Analysis, FitProofs

(* A legal fleet is a fleet.                                               *)
LEMMA LegalIsFleet ==
    ASSUME NEW fleet, LegalFleet(fleet)
    PROVE  Fleet(fleet)
BY DEF LegalFleet, LegalDevice, Fleet, IsDevice

(* A candidate names a reclaimable allocation of a device.                 *)
LEMMA CandidateShape ==
    ASSUME NEW fleet, NEW c
    PROVE  c \in Candidates(fleet) <=>
              /\ c = [res |-> c.res, src |-> c.src]
              /\ c.res \in DOMAIN fleet
              /\ c.src \in DOMAIN fleet[c.res].allocs
              /\ Reclaimable(fleet[c.res].allocs[c.src])
<1>1. ASSUME c \in Candidates(fleet)
      PROVE  /\ c = [res |-> c.res, src |-> c.src]
             /\ c.res \in DOMAIN fleet
             /\ c.src \in DOMAIN fleet[c.res].allocs
             /\ Reclaimable(fleet[c.res].allocs[c.src])
  <2>1. PICK r \in DOMAIN fleet :
           c \in {[res |-> r, src |-> i] :
                     i \in {j \in DOMAIN fleet[r].allocs : Reclaimable(fleet[r].allocs[j])}}
    BY <1>1 DEF Candidates
  <2>2. PICK i \in {j \in DOMAIN fleet[r].allocs : Reclaimable(fleet[r].allocs[j])} :
           c = [res |-> r, src |-> i]
    BY <2>1
  <2>3. c.res = r /\ c.src = i
    BY <2>2
  <2> QED BY <2>2, <2>3
<1>2. ASSUME c = [res |-> c.res, src |-> c.src], c.res \in DOMAIN fleet,
             c.src \in DOMAIN fleet[c.res].allocs, Reclaimable(fleet[c.res].allocs[c.src])
      PROVE  c \in Candidates(fleet)
  BY <1>2 DEF Candidates
<1> QED BY <1>1, <1>2

-----------------------------------------------------------------------------
(***************************************************************************)
(* The order of the candidates.                                            *)
(***************************************************************************)
Cost(fleet, c) == DisruptionOf(fleet[c.res].allocs[c.src].movability)
Size(fleet, c) == fleet[c.res].allocs[c.src].length

(* The comparison is lexicographic.                                        *)
LEMMA CheaperUnfolds ==
    ASSUME NEW fleet, NEW c, NEW d
    PROVE  CheaperThan(fleet, c, d) <=>
              \/ Cost(fleet, c) < Cost(fleet, d)
              \/ /\ Cost(fleet, c) = Cost(fleet, d)
                 /\ Size(fleet, c) < Size(fleet, d)
              \/ /\ Cost(fleet, c) = Cost(fleet, d)
                 /\ Size(fleet, c) = Size(fleet, d)
                 /\ c.src < d.src
              \/ /\ Cost(fleet, c) = Cost(fleet, d)
                 /\ Size(fleet, c) = Size(fleet, d)
                 /\ c.src = d.src
                 /\ c.res < d.res
<1> DEFINE x == <<Cost(fleet, c), Size(fleet, c), c.src, c.res>>
           y == <<Cost(fleet, d), Size(fleet, d), d.src, d.res>>
<1>1. CheaperThan(fleet, c, d) <=>
         \E i \in 1 .. 4 : x[i] < y[i] /\ \A j \in 1 .. (i - 1) : x[j] = y[j]
  BY DEF CheaperThan, Cost, Size
<1>2. /\ x[1] = Cost(fleet, c) /\ x[2] = Size(fleet, c) /\ x[3] = c.src /\ x[4] = c.res
      /\ y[1] = Cost(fleet, d) /\ y[2] = Size(fleet, d) /\ y[3] = d.src /\ y[4] = d.res
  OBVIOUS
<1> HIDE DEF x, y
<1>3. (\E i \in 1 .. 4 : x[i] < y[i] /\ \A j \in 1 .. (i - 1) : x[j] = y[j]) <=>
         \/ x[1] < y[1]
         \/ x[1] = y[1] /\ x[2] < y[2]
         \/ x[1] = y[1] /\ x[2] = y[2] /\ x[3] < y[3]
         \/ x[1] = y[1] /\ x[2] = y[2] /\ x[3] = y[3] /\ x[4] < y[4]
  <2> DEFINE P(i) == x[i] < y[i] /\ \A j \in 1 .. (i - 1) : x[j] = y[j]
  <2>1. (\E i \in 1 .. 4 : P(i)) <=> P(1) \/ P(2) \/ P(3) \/ P(4)
    <3>1. 1 .. 4 = {1, 2, 3, 4}
      OBVIOUS
    <3> HIDE DEF P
    <3> QED BY <3>1
  <2>2. P(1) <=> x[1] < y[1]
    OBVIOUS
  <2>3. P(2) <=> x[1] = y[1] /\ x[2] < y[2]
    OBVIOUS
  <2>4. P(3) <=> x[1] = y[1] /\ x[2] = y[2] /\ x[3] < y[3]
    <3>1. 1 .. 2 = {1, 2} /\ 3 - 1 = 2
      OBVIOUS
    <3> QED BY <3>1
  <2>5. P(4) <=> x[1] = y[1] /\ x[2] = y[2] /\ x[3] = y[3] /\ x[4] < y[4]
    <3>1. 1 .. 3 = {1, 2, 3} /\ 4 - 1 = 3
      OBVIOUS
    <3> QED BY <3>1
  <2> QED BY <2>1, <2>2, <2>3, <2>4, <2>5
<1> QED BY <1>1, <1>2, <1>3

(* On the candidates of a legal fleet it is a strict total order.          *)
LEMMA CheaperIsOrder ==
    ASSUME NEW fleet, LegalFleet(fleet)
    PROVE  /\ \A c \in Candidates(fleet) : ~CheaperThan(fleet, c, c)
           /\ \A c, d, e \in Candidates(fleet) :
                 CheaperThan(fleet, c, d) /\ CheaperThan(fleet, d, e) => CheaperThan(fleet, c, e)
           /\ \A c, d \in Candidates(fleet) :
                 c # d => CheaperThan(fleet, c, d) \/ CheaperThan(fleet, d, c)
<1> DEFINE C == Candidates(fleet)
<1>1. ASSUME NEW c \in C
      PROVE  /\ c.res \in Nat /\ c.src \in Nat
             /\ Cost(fleet, c) \in Nat /\ Size(fleet, c) \in Nat
             /\ c = [res |-> c.res, src |-> c.src]
  <2>1. /\ c.res \in DOMAIN fleet /\ c.src \in DOMAIN fleet[c.res].allocs
        /\ c = [res |-> c.res, src |-> c.src]
    BY CandidateShape
  <2>2. c.res \in Nat /\ LegalDevice(fleet[c.res])
    BY <2>1 DEF LegalFleet
  <2>3. c.src \in Nat /\ LegalAlloc(fleet[c.res].allocs[c.src], fleet[c.res].cap)
    BY <2>1, <2>2 DEF LegalDevice
  <2>4. Size(fleet, c) \in Nat
    BY <2>3 DEF LegalAlloc, Size
  <2>5. \A m : DisruptionOf(m) \in Nat
    BY DEF DisruptionOf
  <2> QED BY <2>1, <2>2, <2>3, <2>4, <2>5 DEF Cost
<1> HIDE DEF C
<1>2. \A c \in C : ~CheaperThan(fleet, c, c)
  BY <1>1, CheaperUnfolds
<1>3. \A c, d, e \in C :
         CheaperThan(fleet, c, d) /\ CheaperThan(fleet, d, e) => CheaperThan(fleet, c, e)
  BY <1>1, CheaperUnfolds
<1>4. ASSUME NEW c \in C, NEW d \in C, c # d
      PROVE  CheaperThan(fleet, c, d) \/ CheaperThan(fleet, d, c)
  <2>1. c.res # d.res \/ c.src # d.src
    BY <1>1, <1>4
  <2> QED BY <1>1, <2>1, CheaperUnfolds
<1> QED BY <1>2, <1>3, <1>4 DEF C

(* Where the sort puts a candidate: one behind all that are cheaper.       *)
Rank(fleet, c) == Cardinality({d \in Candidates(fleet) : CheaperThan(fleet, d, c)})

(* The order of the sort, as a set of pairs. *)
CheaperPairs(fleet) ==
    {e \in Candidates(fleet) \X Candidates(fleet) : CheaperThan(fleet, e[1], e[2])}

(* It is an order, in which ranks count what is earlier.                   *)
LEMMA CheaperPairsOrder ==
    ASSUME NEW fleet, LegalFleet(fleet)
    PROVE  /\ Orders(CheaperPairs(fleet), Candidates(fleet))
           /\ \A c, d \in Candidates(fleet) :
                 <<c, d>> \in CheaperPairs(fleet) <=> CheaperThan(fleet, c, d)
           /\ \A c \in Candidates(fleet) :
                 Rank(fleet, c) = Cardinality(Earlier(CheaperPairs(fleet), Candidates(fleet), c))
<1> DEFINE C == Candidates(fleet)
           R == CheaperPairs(fleet)
<1>1. \A c, d \in C : <<c, d>> \in R <=> CheaperThan(fleet, c, d)
  BY DEF CheaperPairs
<1>2. Orders(R, C)
  <2> HIDE DEF R
  <2> QED BY <1>1, CheaperIsOrder DEF Orders
<1>3. \A c \in C : Earlier(R, C, c) = {d \in C : CheaperThan(fleet, d, c)}
  <2> HIDE DEF R
  <2> QED BY <1>1 DEF Earlier
<1> QED BY <1>1, <1>2, <1>3 DEF Rank

(* A candidate has a smaller rank than a more expensive one.               *)
LEMMA RankGrows ==
    ASSUME NEW fleet, LegalFleet(fleet)
    PROVE  /\ IsFiniteSet(Candidates(fleet)) /\ Cardinality(Candidates(fleet)) \in Nat
           /\ \A c \in Candidates(fleet) :
                 Rank(fleet, c) \in Nat /\ Rank(fleet, c) < Cardinality(Candidates(fleet))
           /\ \A c, d \in Candidates(fleet) :
                 CheaperThan(fleet, c, d) => Rank(fleet, c) < Rank(fleet, d)
<1> DEFINE C == Candidates(fleet)
           R == CheaperPairs(fleet)
<1>1. IsFiniteSet(C)
  BY LegalIsFleet, CandidatesFinite
<1>2. /\ Orders(R, C)
      /\ \A c, d \in C : <<c, d>> \in R <=> CheaperThan(fleet, c, d)
      /\ \A c \in C : Rank(fleet, c) = Cardinality(Earlier(R, C, c))
  BY CheaperPairsOrder
<1> HIDE DEF C, R
<1>3. /\ Cardinality(C) \in Nat
      /\ \A c \in C : /\ Cardinality(Earlier(R, C, c)) \in Nat
                      /\ Cardinality(Earlier(R, C, c)) < Cardinality(C)
      /\ \A c, d \in C : <<c, d>> \in R =>
            Cardinality(Earlier(R, C, c)) < Cardinality(Earlier(R, C, d))
  BY <1>1, <1>2, RanksGrow
<1> QED BY <1>1, <1>2, <1>3 DEF C

(* The sort succeeds: it lists every candidate, the cheapest first.        *)
LEMMA InOrderSorts ==
    ASSUME NEW fleet, LegalFleet(fleet)
    PROVE  /\ InOrder(fleet) \in [1 .. Cardinality(Candidates(fleet)) -> Candidates(fleet)]
           /\ \A i, j \in 1 .. Cardinality(Candidates(fleet)) :
                 i < j => CheaperThan(fleet, InOrder(fleet)[i], InOrder(fleet)[j])
           /\ \A c \in Candidates(fleet) :
                 \E i \in 1 .. Cardinality(Candidates(fleet)) : InOrder(fleet)[i] = c
<1> DEFINE C == Candidates(fleet)
           n == Cardinality(C)
           R == CheaperPairs(fleet)
           Sorted(s) == \A i, j \in DOMAIN s : i < j => CheaperThan(fleet, s[i], s[j])
<1>1. IsFiniteSet(C) /\ n \in Nat
  BY RankGrows
<1>2. InOrder(fleet) = CHOOSE s \in [1 .. n -> C] : Sorted(s)
  BY DEF InOrder
<1>3. Orders(R, C) /\ \A c, d \in C : <<c, d>> \in R <=> CheaperThan(fleet, c, d)
  BY CheaperPairsOrder
<1>4. \E s \in [1 .. n -> C] : Sorted(s)
  <2> HIDE DEF C, R
  <2>1. PICK s \in [1 .. n -> C] : \A i, j \in 1 .. n : i < j => <<s[i], s[j]>> \in R
    BY <1>1, <1>3, SortExists
  <2>2. Sorted(s)
    BY <1>3, <2>1
  <2> QED BY <2>1, <2>2
<1> DEFINE s == InOrder(fleet)
<1>5. s \in [1 .. n -> C] /\ Sorted(s)
  BY <1>2, <1>4
<1> HIDE DEF s
<1>6. \A i, j \in 1 .. n : i < j => CheaperThan(fleet, s[i], s[j])
  BY <1>5
<1>7. \A i, j \in 1 .. n : i < j => s[i] # s[j]
  BY <1>5, <1>6, CheaperIsOrder
<1>8. \A c \in C : \E i \in 1 .. n : s[i] = c
  <2> HIDE DEF C
  <2> QED BY <1>1, <1>5, <1>7, SortedListsAll
<1> QED BY <1>5, <1>6, <1>8 DEF s

(* A set of candidates that contains what is cheaper than its members is   *)
(* what the sort puts first.                                               *)
LEMMA CheapestFirst ==
    ASSUME NEW fleet, LegalFleet(fleet), NEW A, A \subseteq Candidates(fleet),
           \A a \in A, c \in Candidates(fleet) : CheaperThan(fleet, c, a) => c \in A
    PROVE  /\ IsFiniteSet(A) /\ Cardinality(A) \in Nat
           /\ Cardinality(A) <= Cardinality(Candidates(fleet))
           /\ A = Cheapest(fleet, Cardinality(A))
<1> DEFINE C == Candidates(fleet)
           Below(c) == {d \in C : CheaperThan(fleet, d, c)}
<1>1. IsFiniteSet(C) /\ Cardinality(C) \in Nat
  BY RankGrows
<1>2. IsFiniteSet(A) /\ Cardinality(A) \in Nat /\ Cardinality(A) <= Cardinality(C)
  BY <1>1, FS_Subset, FS_CardinalityType
<1>3. Cheapest(fleet, Cardinality(A)) = {c \in C : Rank(fleet, c) < Cardinality(A)}
  BY DEF Cheapest, Rank
<1>4. \A c \in C : Rank(fleet, c) = Cardinality(Below(c)) /\ Rank(fleet, c) \in Nat
  BY RankGrows DEF Rank
<1>5. ASSUME NEW c \in A PROVE Rank(fleet, c) < Cardinality(A)
  <2>1. Below(c) \subseteq A /\ c \notin Below(c)
    BY CheaperIsOrder
  <2>2. Cardinality(Below(c)) <= Cardinality(A) /\ Cardinality(Below(c)) # Cardinality(A)
    <3> HIDE DEF Below
    <3> QED BY <1>2, <2>1, FS_Subset
  <2> QED BY <1>2, <1>4, <2>2
<1>6. ASSUME NEW c \in C, c \notin A PROVE ~(Rank(fleet, c) < Cardinality(A))
  <2>1. A \subseteq Below(c)
    BY <1>6, CheaperIsOrder
  <2>2. IsFiniteSet(Below(c))
    <3>1. Below(c) \subseteq C
      OBVIOUS
    <3> HIDE DEF Below
    <3> QED BY <1>1, <3>1, FS_Subset
  <2>3. Cardinality(A) <= Cardinality(Below(c))
    <3> HIDE DEF Below
    <3> QED BY <2>1, <2>2, FS_Subset
  <2> QED BY <1>2, <1>4, <2>3
<1> QED BY <1>2, <1>3, <1>5, <1>6

-----------------------------------------------------------------------------
(***************************************************************************)
(* Displacing candidates.                                                  *)
(***************************************************************************)

(* What is left of a device.                                               *)
LEMMA WithoutIs ==
    ASSUME NEW d, IsDevice(d), NEW ids
    PROVE  Without(d, ids) = [cap |-> d.cap, group |-> d.group,
                              allocs |-> [i \in DOMAIN d.allocs \ ids |-> d.allocs[i]]]
<1> DEFINE c == d.cap
           g == d.group
           as == d.allocs
           bs == [i \in DOMAIN as \ ids |-> as[i]]
           e == [cap |-> c, group |-> g, allocs |-> as]
<1>1. d = e
  BY DEF IsDevice
<1>2. Without(d, ids) = [d EXCEPT !.allocs = bs]
  BY DEF Without
<1> HIDE DEF c, g, as, bs
<1>3. [e EXCEPT !.allocs = bs] = [cap |-> c, group |-> g, allocs |-> bs]
  OBVIOUS
<1>4. Without(d, ids) = [cap |-> c, group |-> g, allocs |-> bs]
  BY <1>1, <1>2, <1>3
<1> QED BY <1>4 DEF c, g, as, bs

(* What is left of a legal device is a legal device.                       *)
LEMMA WithoutLegal ==
    ASSUME NEW d, LegalDevice(d), NEW A
    PROVE  LegalDevice(Without(d, A))
<1> DEFINE e == Without(d, A)
           as == d.allocs
           l == [i \in DOMAIN as \ A |-> as[i]]
<1>0. IsDevice(d)
  BY DEF LegalDevice, IsDevice
<1>1. e = [cap |-> d.cap, group |-> d.group, allocs |-> l]
  BY <1>0, WithoutIs
<1>2. DOMAIN l \subseteq DOMAIN as /\ (\A i \in DOMAIN l : l[i] = as[i])
      /\ l = [i \in DOMAIN l |-> l[i]]
  OBVIOUS
<1>3. /\ d.cap \in Nat /\ DOMAIN as \subseteq Nat /\ IsFiniteSet(DOMAIN as)
      /\ \A i \in DOMAIN as : LegalAlloc(as[i], d.cap)
      /\ \A i, j \in DOMAIN as : i # j => Cells(as[i]) \cap Cells(as[j]) = {}
  BY DEF LegalDevice
<1> HIDE DEF e, l, as
<1>4. IsFiniteSet(DOMAIN l)
  BY <1>2, <1>3, FS_Subset
<1>5. /\ DOMAIN l \subseteq Nat
      /\ \A i \in DOMAIN l : LegalAlloc(l[i], d.cap)
      /\ \A i, j \in DOMAIN l : i # j => Cells(l[i]) \cap Cells(l[j]) = {}
  BY <1>2, <1>3
<1>6. e.cap = d.cap /\ e.group = d.group /\ e.allocs = l
  BY <1>1
<1>7. e = [cap |-> e.cap, group |-> e.group, allocs |-> e.allocs]
  BY <1>1, <1>6
<1>8. LegalDevice(e)
  BY <1>2, <1>3, <1>4, <1>5, <1>6, <1>7 DEF LegalDevice
<1> QED BY <1>8 DEF e

(* Removing nothing changes nothing.                                       *)
LEMMA WithoutNothing ==
    ASSUME NEW d, LegalDevice(d)
    PROVE  Without(d, {}) = d
<1> DEFINE as == d.allocs
           l == [i \in DOMAIN as \ {} |-> as[i]]
<1>0. /\ IsDevice(d) /\ as = [i \in DOMAIN as |-> as[i]]
      /\ d = [cap |-> d.cap, group |-> d.group, allocs |-> as]
  BY DEF LegalDevice, IsDevice
<1>1. Without(d, {}) = [cap |-> d.cap, group |-> d.group, allocs |-> l]
  BY <1>0, WithoutIs
<1>2. l = [i \in DOMAIN as |-> as[i]]
  OBVIOUS
<1>3. l = as
  BY <1>0, <1>2
<1> HIDE DEF l, as
<1> QED BY <1>0, <1>1, <1>3

(* Removing allocations one after the other is removing them together.     *)
LEMMA WithoutAgain ==
    ASSUME NEW d, LegalDevice(d), NEW A, NEW B
    PROVE  Without(Without(d, A), B) = Without(d, A \cup B)
<1> DEFINE e == Without(d, A)
           as == d.allocs
           l == [i \in DOMAIN as \ A |-> as[i]]
           m == [i \in DOMAIN l \ B |-> l[i]]
           n == [i \in DOMAIN as \ (A \cup B) |-> as[i]]
<1>0. IsDevice(d)
  BY DEF LegalDevice, IsDevice
<1>1. e = [cap |-> d.cap, group |-> d.group, allocs |-> l]
  BY <1>0, WithoutIs
<1>2. IsDevice(e)
  BY <1>0, WithoutShape
<1>3. m = n
  OBVIOUS
<1>4. Without(d, A \cup B) = [cap |-> d.cap, group |-> d.group, allocs |-> n]
  BY <1>0, WithoutIs
<1>5. Without(e, B) = [cap |-> e.cap, group |-> e.group,
                       allocs |-> [i \in DOMAIN e.allocs \ B |-> e.allocs[i]]]
  <2> HIDE DEF e
  <2> QED BY <1>2, WithoutIs
<1>6. e.cap = d.cap /\ e.group = d.group /\ e.allocs = l
  <2> HIDE DEF e, l
  <2> QED BY <1>1
<1>7. [i \in DOMAIN e.allocs \ B |-> e.allocs[i]] = m
  <2> HIDE DEF e, l
  <2> QED BY <1>6
<1>8. Without(e, B) = [cap |-> d.cap, group |-> d.group, allocs |-> m]
  <2> HIDE DEF e, l, m
  <2> QED BY <1>5, <1>6, <1>7
<1> HIDE DEF m, n
<1> QED BY <1>3, <1>4, <1>8

(* The same for a fleet.                                                   *)
LEMMA DisplacedAgain ==
    ASSUME NEW fleet, LegalFleet(fleet), NEW A, NEW B
    PROVE  /\ LegalFleet(Displaced(fleet, A))
           /\ Displaced(fleet, {}) = fleet
           /\ Displaced(Displaced(fleet, A), B) = Displaced(fleet, A \cup B)
<1>1. ASSUME NEW f, NEW S
      PROVE  Displaced(f, S) = [r \in DOMAIN f |-> Without(f[r], TakenFrom(S, r))]
  BY DEF Displaced, TakenFrom
<1>2. \A r : TakenFrom({}, r) = {} /\ TakenFrom(A \cup B, r) = TakenFrom(A, r) \cup TakenFrom(B, r)
  BY DEF TakenFrom
<1>3. \A r \in DOMAIN fleet : LegalDevice(fleet[r])
  BY DEF LegalFleet
<1> DEFINE D == Displaced(fleet, A)
<1>4. DOMAIN D = DOMAIN fleet /\ \A r \in DOMAIN fleet : D[r] = Without(fleet[r], TakenFrom(A, r))
  BY <1>1
<1>5. D = [r \in DOMAIN D |-> D[r]]
  BY <1>1
<1> HIDE DEF D
<1>6. \A r \in DOMAIN fleet : LegalDevice(D[r])
  BY <1>3, <1>4, WithoutLegal
<1>7. LegalFleet(D)
  BY <1>4, <1>5, <1>6 DEF LegalFleet
<1>8. Displaced(fleet, {}) = fleet
  <2>1. Displaced(fleet, {}) = [r \in DOMAIN fleet |-> Without(fleet[r], TakenFrom({}, r))]
    BY <1>1
  <2>2. \A r \in DOMAIN fleet : Without(fleet[r], TakenFrom({}, r)) = fleet[r]
    BY <1>2, <1>3, WithoutNothing
  <2>3. fleet = [r \in DOMAIN fleet |-> fleet[r]]
    BY DEF LegalFleet
  <2> QED BY <2>1, <2>2, <2>3
<1>9. Displaced(D, B) = Displaced(fleet, A \cup B)
  <2>1. Displaced(D, B) = [r \in DOMAIN fleet |-> Without(D[r], TakenFrom(B, r))]
    BY <1>1, <1>4
  <2>2. Displaced(fleet, A \cup B) = [r \in DOMAIN fleet |-> Without(fleet[r], TakenFrom(A \cup B, r))]
    BY <1>1
  <2>3. \A r \in DOMAIN fleet : Without(D[r], TakenFrom(B, r)) = Without(fleet[r], TakenFrom(A \cup B, r))
    <3> TAKE r \in DOMAIN fleet
    <3>1. Without(Without(fleet[r], TakenFrom(A, r)), TakenFrom(B, r))
             = Without(fleet[r], TakenFrom(A, r) \cup TakenFrom(B, r))
      BY <1>3, WithoutAgain
    <3> QED BY <1>2, <1>4, <3>1
  <2> QED BY <2>1, <2>2, <2>3
<1> QED BY <1>7, <1>8, <1>9 DEF D

-----------------------------------------------------------------------------
(***************************************************************************)
(* The inductive invariant.                                                *)
(***************************************************************************)
All == Candidates(snap.devices)
Less(c, d) == CheaperThan(snap.devices, c, d)

(* The k cheapest candidates would do. *)
Tried(k) == PlanFits(Displaced(snap.devices, Cheapest(snap.devices, k)), demand)

Loaded ==
    /\ LegalFleet(snap.devices) /\ LegalTimetable(snap.reservations)
    /\ demand \in LegalDemand
    /\ snap = [devices |-> snap.devices, prov |-> snap.prov, reservations |-> snap.reservations,
               gens |-> [resource |-> 1, allocation |-> 1, reservation |-> 1],
               epoch |-> 1, policyGen |-> 1]

(* The actions are the cheapest candidates, and fewer would not do. *)
Greedy ==
    /\ actions \subseteq All
    /\ \A a \in actions, c \in All : Less(c, a) => c \in actions
    /\ \A k \in 0 .. (Cardinality(actions) - 1) : ~Tried(k)
    /\ devs = Displaced(snap.devices, actions)

(* The rest is sorted and lies behind the actions. *)
Sorted ==
    /\ rest \in Seq(All)
    /\ \A i, j \in DOMAIN rest : i < j => Less(rest[i], rest[j])
    /\ \A a \in actions, i \in DOMAIN rest : Less(a, rest[i])
    /\ \A c \in All : c \in actions \/ \E i \in DOMAIN rest : rest[i] = c

(* How the request has gone so far. *)
Progress ==
    /\ phase \in {"FIT", "PLAN", "LOOP", "PLANNED", "NO_PLAN", "VERIFIED"}
    /\ phase # "FIT" => fit = AnalyzeFit(snap, demand)
    /\ phase \in {"FIT", "PLAN"} => actions = {}
    /\ phase = "LOOP" => Sorted /\ ~PlanFits(snap.devices, demand)
    /\ Planned => PlanFits(devs, demand) /\ ~PlanFits(snap.devices, demand)
    /\ phase = "NO_PLAN" =>
          PlanFits(snap.devices, demand) \/ (actions = All /\ ~PlanFits(devs, demand))

(* The devices are without the actions carried out, and those only. *)
Carried ==
    /\ \E done \in SUBSET actions : live = Displaced(snap.devices, done)
    /\ phase = "VERIFIED" => verdict = VerifyRemediation(snap, After, demand)

AInv == Loaded /\ Greedy /\ Progress /\ Carried

(* A call of the library.                                                  *)
LEMMA CallLoaded == Init => AInv
<1> SUFFICES ASSUME Init PROVE AInv
  OBVIOUS
<1>1. PICK f \in Families : \E devices \in f.fleets, prov \in f.provs, ts \in f.timetables :
         /\ snap = [devices |-> devices, prov |-> prov, reservations |-> ts,
                    gens |-> [resource |-> 1, allocation |-> 1, reservation |-> 1],
                    epoch |-> 1, policyGen |-> 1]
         /\ demand \in f.demands
  BY DEF Init
<1>2. PICK devices \in f.fleets, prov \in f.provs, ts \in f.timetables :
         /\ snap = [devices |-> devices, prov |-> prov, reservations |-> ts,
                    gens |-> [resource |-> 1, allocation |-> 1, reservation |-> 1],
                    epoch |-> 1, policyGen |-> 1]
         /\ demand \in f.demands
  BY <1>1
<1>3. LegalFleet(devices) /\ LegalTimetable(ts) /\ demand \in LegalDemand
  BY <1>2, FamilyAssumption
<1>4. snap.devices = devices /\ snap.prov = prov /\ snap.reservations = ts
  BY <1>2
<1>5. Loaded
  BY <1>2, <1>3, <1>4 DEF Loaded
<1>6. /\ phase = "FIT" /\ actions = {}
      /\ devs = snap.devices /\ live = snap.devices
  BY DEF Init
<1>7. Displaced(snap.devices, {}) = snap.devices
  BY <1>3, <1>4, DisplacedAgain
<1>8. Greedy
  <2>1. Cardinality(actions) = 0
    BY <1>6, FS_EmptySet
  <2>2. 0 .. (Cardinality(actions) - 1) = {}
    BY <2>1
  <2> QED BY <1>6, <1>7, <2>2 DEF Greedy
<1>9. Progress
  BY <1>6 DEF Progress, Planned
<1>10. Carried
  BY <1>6, <1>7 DEF Carried
<1> QED BY <1>5, <1>8, <1>9, <1>10 DEF AInv

(* The actions collected so far are the cheapest candidates.               *)
LEMMA ActionsCheapest ==
    ASSUME Loaded, Greedy
    PROVE  /\ IsFiniteSet(actions) /\ Cardinality(actions) \in Nat
           /\ Cardinality(actions) <= Cardinality(All)
           /\ actions = Cheapest(snap.devices, Cardinality(actions))
           /\ Tried(Cardinality(actions)) <=> PlanFits(devs, demand)
<1>1. LegalFleet(snap.devices)
  BY DEF Loaded
<1>2. /\ actions \subseteq Candidates(snap.devices)
      /\ \A a \in actions, c \in Candidates(snap.devices) :
            CheaperThan(snap.devices, c, a) => c \in actions
  BY DEF Greedy, All, Less
<1>3. /\ IsFiniteSet(actions) /\ Cardinality(actions) \in Nat
      /\ Cardinality(actions) <= Cardinality(All)
      /\ actions = Cheapest(snap.devices, Cardinality(actions))
  BY <1>1, <1>2, CheapestFirst DEF All
<1>4. devs = Displaced(snap.devices, Cheapest(snap.devices, Cardinality(actions)))
  BY <1>3 DEF Greedy
<1> QED BY <1>3, <1>4 DEF Tried

(* The loop takes one more candidate.                                      *)
LEMMA TakeKeeps ==
    ASSUME AInv, Take
    PROVE  AInv'
<1>0. /\ phase = "LOOP" /\ rest # <<>> /\ ~PlanFits(devs, demand)
      /\ devs' = Displaced(devs, {Head(rest)})
      /\ actions' = actions \cup {Head(rest)}
      /\ rest' = Tail(rest)
      /\ UNCHANGED <<snap, demand, fit, phase, live, verdict>>
  BY DEF Take
<1>1. Loaded /\ Greedy /\ Progress /\ Carried /\ Sorted
  BY <1>0 DEF AInv, Progress
<1> DEFINE h == Head(rest)
<1>2. /\ rest \in Seq(All) /\ Len(rest) \in Nat /\ Len(rest) > 0
      /\ DOMAIN rest = 1 .. Len(rest)
      /\ h = rest[1] /\ h \in All
      /\ rest' \in Seq(All) /\ DOMAIN rest' = 1 .. (Len(rest) - 1)
      /\ \A i \in 1 .. (Len(rest) - 1) : rest'[i] = rest[i + 1]
  BY <1>0, <1>1 DEF Sorted
<1>3. Loaded' /\ All' = All /\ (\A c, d : Less(c, d)' <=> Less(c, d)) /\ (\A n : Tried(n)' <=> Tried(n))
  BY <1>0, <1>1 DEF Loaded, All, Less, Tried
<1> HIDE DEF h
<1>4. \A a \in actions : Less(a, h)
  BY <1>1, <1>2 DEF Sorted
<1>5. \A i \in 1 .. (Len(rest) - 1) : Less(h, rest[i + 1])
  <2> TAKE i \in 1 .. (Len(rest) - 1)
  <2>1. 1 \in DOMAIN rest /\ i + 1 \in DOMAIN rest /\ 1 < i + 1
    BY <1>2
  <2> QED BY <1>1, <1>2, <2>1 DEF Sorted
<1>6. /\ \A c \in All : ~Less(c, c)
      /\ \A c, d, e \in All : Less(c, d) /\ Less(d, e) => Less(c, e)
      /\ actions \subseteq All
  BY <1>1, CheaperIsOrder DEF All, Less, Loaded, Greedy
<1>7. h \notin actions
  BY <1>2, <1>4, <1>6
<1>8. actions' = actions \cup {h}
  BY <1>0 DEF h
<1>9. \A c \in All : c \in actions \/ c = h \/ \E i \in 1 .. (Len(rest) - 1) : rest[i + 1] = c
  <2> TAKE c \in All
  <2>1. CASE c \in actions
    BY <2>1
  <2>2. ASSUME NEW i \in DOMAIN rest, rest[i] = c
        PROVE  c = h \/ \E j \in 1 .. (Len(rest) - 1) : rest[j + 1] = c
    <3>1. CASE i = 1
      BY <1>2, <2>2, <3>1
    <3>2. CASE i # 1
      <4>1. i - 1 \in 1 .. (Len(rest) - 1) /\ (i - 1) + 1 = i
        BY <1>2, <3>2
      <4> QED BY <2>2, <4>1
    <3> QED BY <3>1, <3>2
  <2> QED BY <1>1, <2>1, <2>2 DEF Sorted
<1>10. \A a \in actions', c \in All : Less(c, a) => c \in actions'
  <2> SUFFICES ASSUME NEW a \in actions', NEW c \in All, Less(c, a), c \notin actions'
               PROVE  FALSE
    OBVIOUS
  <2>1. c \notin actions /\ c # h
    BY <1>8
  <2>2. PICK i \in 1 .. (Len(rest) - 1) : rest[i + 1] = c
    BY <1>9, <2>1
  <2>3. Less(h, c)
    BY <1>5, <2>2
  <2>4. CASE a \in actions
    BY <1>1, <2>1, <2>4 DEF Greedy
  <2>5. CASE a = h
    BY <1>2, <1>6, <2>3, <2>5
  <2> QED BY <1>8, <2>4, <2>5
<1>11. \A n \in 0 .. (Cardinality(actions') - 1) : ~Tried(n)
  <2>1. /\ IsFiniteSet(actions) /\ Cardinality(actions) \in Nat
        /\ ~Tried(Cardinality(actions))
    BY <1>0, <1>1, ActionsCheapest
  <2>2. Cardinality(actions') = Cardinality(actions) + 1
    BY <1>7, <1>8, <2>1, FS_AddElement
  <2>3. \A n \in 0 .. (Cardinality(actions) - 1) : ~Tried(n)
    BY <1>1 DEF Greedy
  <2> TAKE n \in 0 .. (Cardinality(actions') - 1)
  <2>4. n \in 0 .. (Cardinality(actions) - 1) \/ n = Cardinality(actions)
    BY <2>1, <2>2
  <2> QED BY <2>1, <2>3, <2>4
<1>12. devs' = Displaced(snap.devices, actions')
  <2>1. devs' = Displaced(Displaced(snap.devices, actions), {h})
    BY <1>0, <1>1 DEF Greedy, h
  <2> QED BY <1>1, <1>8, <2>1, DisplacedAgain DEF Loaded
<1>13. Greedy'
  <2>1. actions' \subseteq All
    BY <1>2, <1>6, <1>8
  <2>2. snap' = snap
    BY <1>0
  <2> QED BY <1>3, <1>10, <1>11, <1>12, <2>1, <2>2 DEF Greedy
<1>14. Sorted'
  <2>1. \A i, j \in DOMAIN rest' : i < j => Less(rest'[i], rest'[j])
    <3> TAKE i, j \in DOMAIN rest'
    <3>1. i + 1 \in DOMAIN rest /\ j + 1 \in DOMAIN rest /\ (i < j => i + 1 < j + 1)
      BY <1>2
    <3>2. rest'[i] = rest[i + 1] /\ rest'[j] = rest[j + 1]
      BY <1>2
    <3> QED BY <1>1, <3>1, <3>2 DEF Sorted
  <2>2. \A a \in actions', i \in DOMAIN rest' : Less(a, rest'[i])
    <3> TAKE a \in actions', i \in DOMAIN rest'
    <3>1. rest'[i] = rest[i + 1] /\ i + 1 \in DOMAIN rest /\ Less(h, rest[i + 1])
      BY <1>2, <1>5
    <3> QED BY <1>1, <1>8, <3>1 DEF Sorted
  <2>3. \A c \in All : c \in actions' \/ \E i \in DOMAIN rest' : rest'[i] = c
    BY <1>2, <1>8, <1>9
  <2> QED BY <1>2, <1>3, <2>1, <2>2, <2>3 DEF Sorted
<1>15. Progress'
  BY <1>0, <1>1, <1>14 DEF Progress, Planned
<1>16. Carried'
  <2>1. PICK done \in SUBSET actions : live = Displaced(snap.devices, done)
    BY <1>1 DEF Carried
  <2>2. done \in SUBSET actions'
    BY <1>8
  <2> QED BY <1>0, <2>1, <2>2 DEF Carried
<1> QED BY <1>3, <1>13, <1>15, <1>16 DEF AInv

(* The candidates are listed before the loop begins.                       *)
LEMMA PlanKeeps ==
    ASSUME AInv, Plan
    PROVE  AInv'
<1>0. /\ phase = "PLAN"
      /\ phase' = IF PlanFits(devs, demand) THEN "NO_PLAN" ELSE "LOOP"
      /\ rest' = InOrder(devs)
      /\ UNCHANGED <<snap, demand, fit, devs, actions, live, verdict>>
  BY DEF Plan
<1>1. Loaded /\ Greedy /\ Progress /\ Carried /\ actions = {}
  BY <1>0 DEF AInv, Progress
<1>2. devs = snap.devices
  BY <1>1, DisplacedAgain DEF Greedy, Loaded
<1>3. Loaded' /\ Greedy' /\ All' = All /\ (\A c, d : Less(c, d)' <=> Less(c, d))
  BY <1>0, <1>1 DEF Loaded, Greedy, All, Less, Tried
<1>4. /\ rest' \in [1 .. Cardinality(All) -> All] /\ Cardinality(All) \in Nat
      /\ \A i, j \in 1 .. Cardinality(All) : i < j => Less(rest'[i], rest'[j])
      /\ \A c \in All : \E i \in 1 .. Cardinality(All) : rest'[i] = c
  BY <1>0, <1>1, <1>2, InOrderSorts, RankGrows DEF All, Less, Loaded
<1>5. DOMAIN rest' = 1 .. Cardinality(All) /\ rest' \in Seq(All)
  BY <1>4
<1>6. Sorted'
  BY <1>0, <1>1, <1>3, <1>4, <1>5 DEF Sorted
<1>7. Progress'
  BY <1>0, <1>1, <1>2, <1>6 DEF Progress, Planned
<1>8. Carried'
  BY <1>0, <1>1 DEF Carried
<1> QED BY <1>3, <1>7, <1>8 DEF AInv

(* The loop ends.                                                          *)
LEMMA FinishKeeps ==
    ASSUME AInv, Finish
    PROVE  AInv'
<1>0. /\ phase = "LOOP" /\ (PlanFits(devs, demand) \/ rest = <<>>)
      /\ phase' = IF PlanFits(devs, demand) THEN "PLANNED" ELSE "NO_PLAN"
      /\ UNCHANGED <<snap, demand, fit, devs, rest, actions, live, verdict>>
  BY DEF Finish
<1>1. Loaded /\ Greedy /\ Progress /\ Carried /\ Sorted
  BY <1>0 DEF AInv, Progress
<1>2. Loaded' /\ Greedy' /\ All' = All
  BY <1>0, <1>1 DEF Loaded, Greedy, All, Less, Tried
<1>3. ASSUME ~PlanFits(devs, demand) PROVE actions = All
  <2>1. rest = <<>>
    BY <1>0, <1>3
  <2>2. DOMAIN rest = {}
    BY <2>1
  <2>3. actions \subseteq All
    BY <1>1 DEF Greedy
  <2>4. \A c \in All : c \in actions \/ \E i \in DOMAIN rest : rest[i] = c
    BY <1>1 DEF Sorted
  <2> QED BY <2>2, <2>3, <2>4
<1>4. Progress'
  BY <1>0, <1>1, <1>2, <1>3 DEF Progress, Planned
<1>5. Carried'
  BY <1>0, <1>1 DEF Carried
<1> QED BY <1>2, <1>4, <1>5 DEF AInv

(* Every step keeps the invariant.                                         *)
LEMMA AInvKept == AInv /\ [Next]_avars => AInv'
<1> SUFFICES ASSUME AInv, [Next]_avars PROVE AInv'
  OBVIOUS
<1>0. Loaded /\ Greedy /\ Progress /\ Carried
  BY DEF AInv
<1>1. ASSUME UNCHANGED <<snap, demand, devs, actions>>
      PROVE  Loaded' /\ Greedy' /\ All' = All
  BY <1>0, <1>1 DEF Loaded, Greedy, All, Less, Tried
<1>2. CASE UNCHANGED avars
  <2>1. Progress' /\ Carried'
    BY <1>0, <1>2 DEF avars, Progress, Planned, Sorted, All, Less, Carried, After
  <2> QED BY <1>1, <1>2, <2>1 DEF avars, AInv
<1>3. CASE Analyze
  <2>1. Progress' /\ Carried'
    BY <1>0, <1>3 DEF Analyze, Progress, Planned, Carried
  <2> QED BY <1>1, <1>3, <2>1 DEF Analyze, AInv
<1>4. CASE VerifyNow
  <2>1. Progress' /\ Carried'
    BY <1>0, <1>4 DEF VerifyNow, Progress, Planned, Carried, After
  <2> QED BY <1>1, <1>4, <2>1 DEF VerifyNow, AInv
<1>5. ASSUME NEW c \in actions, Execute(c) PROVE AInv'
  <2>0. /\ phase = "PLANNED" /\ live' = Displaced(live, {c})
        /\ UNCHANGED <<snap, demand, fit, phase, devs, rest, actions, verdict>>
    BY <1>5 DEF Execute
  <2>1. PICK done \in SUBSET actions : live = Displaced(snap.devices, done)
    BY <1>0 DEF Carried
  <2>2. live' = Displaced(snap.devices, done \cup {c})
    BY <1>0, <2>0, <2>1, DisplacedAgain DEF Loaded
  <2>3. done \cup {c} \in SUBSET actions
    BY <1>5
  <2>4. Carried'
    BY <2>0, <2>2, <2>3 DEF Carried
  <2>5. Progress'
    BY <1>0, <2>0 DEF Progress, Planned
  <2> QED BY <1>1, <2>0, <2>4, <2>5 DEF AInv
<1> QED BY <1>2, <1>3, <1>4, <1>5, PlanKeeps, TakeKeeps, FinishKeeps DEF Next

(* AInv holds throughout a request.                                        *)
LEMMA AInvAlways == Spec => []AInv
BY CallLoaded, AInvKept, PTL DEF Spec

-----------------------------------------------------------------------------
(***************************************************************************)
(* The planner.                                                            *)
(***************************************************************************)

(* Min of a set of naturals that has the least member n.                   *)
LEMMA MinIs ==
    ASSUME NEW S, S \subseteq Nat, NEW n \in S, \A m \in S : n <= m
    PROVE  Min(S) = n
<1>1. Min(S) \in S /\ \A y \in S : Min(S) <= y
  BY DEF Min
<1> DEFINE l == Min(S)
<1>2. l <= n /\ n <= l /\ l \in Nat /\ n \in Nat
  BY <1>1
<1> HIDE DEF l
<1>3. l = n
  BY <1>2
<1> QED BY <1>3 DEF l

(* The greedy loop of plan_remediation, one candidate at a time, returns a *)
(* plan exactly when the closed form says so, with the same actions.       *)
THEOREM GreedyComputesClosedForm == Spec => []GreedyIsClosedForm
<1>1. AInv => GreedyIsClosedForm
  <2> SUFFICES ASSUME AInv PROVE GreedyIsClosedForm
    OBVIOUS
  <2>0. Loaded /\ Greedy /\ Progress
    BY DEF AInv
  <2> DEFINE fleet == snap.devices
             n == Cardinality(actions)
             S == Sufficient(fleet, demand)
  <2>1. Fleet(fleet) /\ IsDemand(demand)
    BY <2>0, LegalIsFleet DEF Loaded, LegalDemand, IsDemand
  <2>2. /\ n \in Nat /\ n <= Cardinality(All) /\ actions = Cheapest(fleet, n)
        /\ Tried(n) <=> PlanFits(devs, demand)
        /\ \A m \in 0 .. (n - 1) : ~Tried(m)
    BY <2>0, ActionsCheapest DEF Greedy
  <2>3. Cardinality(All) \in Nat
    BY <2>0, RankGrows DEF Loaded, All
  <2>4. S = {m \in 0 .. Cardinality(All) : Tried(m)}
    BY DEF Sufficient, Tried, All
  <2>5. HasPlan(fleet, demand) <=> 0 \notin S /\ S # {}
    BY DEF HasPlan
  <2> HIDE DEF S, n
  <2>6. ASSUME phase = "NO_PLAN" PROVE ~HasPlan(fleet, demand)
    <3>1. CASE PlanFits(fleet, demand)
      BY <2>1, <3>1, PlanMeansNoFit
    <3>2. CASE actions = All /\ ~PlanFits(devs, demand)
      <4>1. n = Cardinality(All)
        BY <3>2 DEF n
      <4>2. S = {}
        BY <2>2, <2>3, <2>4, <3>2, <4>1
      <4> QED BY <2>5, <4>2
    <3> QED BY <2>0, <2>6, <3>1, <3>2 DEF Progress
  <2>7. ASSUME phase = "PLANNED"
        PROVE  /\ HasPlan(fleet, demand)
               /\ Cheapest(fleet, Min(S)) = actions
    <3>1. PlanFits(devs, demand) /\ ~PlanFits(fleet, demand)
      BY <2>0, <2>7 DEF Progress, Planned
    <3>2. n # 0
      <4> SUFFICES ASSUME n = 0 PROVE FALSE
        OBVIOUS
      <4>1. actions = {}
        BY <2>0, ActionsCheapest, FS_EmptySet DEF n
      <4> QED BY <2>0, <3>1, <4>1, DisplacedAgain DEF Greedy, Loaded
    <3>3. n \in S /\ S \subseteq Nat /\ \A m \in S : n <= m
      BY <2>2, <2>3, <2>4, <3>1
    <3>4. Min(S) = n
      BY <3>3, MinIs
    <3>5. 0 \notin S
      BY <2>2, <3>2, <3>3
    <3> QED BY <2>2, <2>5, <3>3, <3>4, <3>5
  <2>8. PlannedActions(fleet, demand) =
           {[kind |-> KindFor(fleet[c.res].allocs[c.src].movability),
             res |-> c.res, src |-> c.src] : c \in Cheapest(fleet, Min(S))}
    BY DEF PlannedActions, S
  <2> QED BY <2>6, <2>7, <2>8 DEF GreedyIsClosedForm
<1> QED BY <1>1, AInvAlways, PTL

-----------------------------------------------------------------------------
(***************************************************************************)
(* Fit analysis, planner and verification agree.                           *)
(***************************************************************************)

(* analyze_fit on evidence, for a demand without a topology group.         *)
LEMMA FitWithoutGroup ==
    ASSUME NEW s, LegalFleet(s.devices), Complete(s.gens), s.prov # "UNKNOWN",
           NEW d, d.group = NoGroup
    PROVE  AnalyzeFit(s, d) =
              IF DOMAIN s.devices = {} THEN "INSUFFICIENT_EVIDENCE"
              ELSE IF AggregateFree(s.devices) < d.aggregate THEN "NO_FIT_RAW_CAPACITY"
              ELSE IF Satisfying(s.devices, d) < NeededCount(d)
              THEN ShortfallCause(s.devices, d)
              ELSE ReservationGate(s.reservations, d)
<1> DEFINE fleet == s.devices
           sel == Selected(fleet, d)
           part == [r \in sel |-> fleet[r]]
<1>1. sel = DOMAIN fleet
  BY DEF Selected
<1>2. part = fleet
  BY <1>1 DEF LegalFleet
<1>3. AnalyzeFit(s, d) =
         IF ~Complete(s.gens) \/ s.prov = "UNKNOWN" THEN "REVALIDATION_REQUIRED"
         ELSE IF DOMAIN fleet = {} THEN "INSUFFICIENT_EVIDENCE"
         ELSE IF AggregateFree(part) < d.aggregate THEN "NO_FIT_RAW_CAPACITY"
         ELSE IF Satisfying(part, d) < NeededCount(d) THEN ShortfallCause(part, d)
         ELSE ReservationGate(s.reservations, d)
  BY DEF AnalyzeFit
<1> HIDE DEF part
<1> QED BY <1>2, <1>3

(* What the simulated reclaim of fit.cpp leaves is what the planner leaves *)
(* when it takes every candidate.                                          *)
LEMMA ReclaimIsAll ==
    ASSUME NEW fleet, LegalFleet(fleet)
    PROVE  [r \in DOMAIN fleet |-> AfterReclaim(fleet[r])] = Displaced(fleet, Candidates(fleet))
<1> DEFINE Gone(r) == {i \in DOMAIN fleet[r].allocs : Reclaimable(fleet[r].allocs[i])}
<1>1. ASSUME NEW r \in DOMAIN fleet PROVE TakenFrom(Candidates(fleet), r) = Gone(r)
  <2>1. ASSUME NEW i \in TakenFrom(Candidates(fleet), r) PROVE i \in Gone(r)
    <3>1. PICK c \in Candidates(fleet) : c.res = r /\ c.src = i
      BY <2>1 DEF TakenFrom
    <3> QED BY <3>1, CandidateShape
  <2>2. ASSUME NEW i \in Gone(r) PROVE i \in TakenFrom(Candidates(fleet), r)
    <3> DEFINE c == [res |-> r, src |-> i]
    <3>1. c.res = r /\ c.src = i
      OBVIOUS
    <3>2. c \in Candidates(fleet)
      BY <3>1, CandidateShape
    <3> QED BY <3>1, <3>2 DEF TakenFrom
  <2> QED BY <2>1, <2>2
<1>2. \A r \in DOMAIN fleet : AfterReclaim(fleet[r]) = Without(fleet[r], Gone(r))
  BY DEF AfterReclaim
<1>3. Displaced(fleet, Candidates(fleet))
         = [r \in DOMAIN fleet |-> Without(fleet[r], TakenFrom(Candidates(fleet), r))]
  BY DEF Displaced, TakenFrom
<1> HIDE DEF Gone
<1> QED BY <1>1, <1>2, <1>3

(* The numbers that are compared, and a fleet in which a demand fits has a *)
(* device.                                                                 *)
LEMMA FitNumbers ==
    ASSUME NEW fleet, LegalFleet(fleet), NEW d \in LegalDemand
    PROVE  /\ AggregateFree(fleet) \in Nat /\ d.aggregate \in Nat
           /\ Satisfying(fleet, d) \in Nat /\ NeededCount(d) \in Nat
           /\ PlanFits(fleet, d) => DOMAIN fleet # {}
<1>1. Fleet(fleet) /\ IsDemand(d)
  BY LegalIsFleet DEF LegalDemand, IsDemand
<1>2. /\ AggregateFree(fleet) \in Nat /\ Satisfying(fleet, d) \in Nat /\ NeededCount(d) \in Nat
  BY <1>1, FleetMonotone
<1>3. NeededCount(d) # 0 /\ d.aggregate \in Nat
  BY <1>1 DEF NeededCount, IsDemand
<1>4. DOMAIN fleet = {} => Satisfying(fleet, d) = 0
  BY FS_EmptySet DEF Satisfying
<1>5. PlanFits(fleet, d) => Satisfying(fleet, d) >= NeededCount(d)
  BY DEF PlanFits
<1>6. PlanFits(fleet, d) => Satisfying(fleet, d) # 0
  BY <1>2, <1>3, <1>5
<1>7. PlanFits(fleet, d) => DOMAIN fleet # {}
  BY <1>4, <1>6
<1> QED BY <1>2, <1>3, <1>7

(* With the actions displaced, displacing the other candidates as well     *)
(* keeps the demand fitting.                                               *)
LEMMA AllIsEnough ==
    ASSUME Loaded, Greedy, PlanFits(devs, demand)
    PROVE  PlanFits(Displaced(snap.devices, All), demand)
<1> DEFINE more == Displaced(devs, All)
<1>1. LegalFleet(devs) /\ actions \cup All = All
  BY DisplacedAgain DEF Loaded, Greedy
<1>2. more = Displaced(snap.devices, All)
  BY <1>1, DisplacedAgain DEF Loaded, Greedy
<1>3. Fleet(devs) /\ IsDemand(demand)
  BY <1>1, LegalIsFleet DEF Loaded, LegalDemand, IsDemand
<1>4. /\ Fleet(more) /\ DOMAIN more = DOMAIN devs
      /\ \A r \in DOMAIN devs : FreeBytes(devs[r]) \subseteq FreeBytes(more[r])
  BY <1>3, DisplacedShape
<1> HIDE DEF more
<1>5. PlanFits(more, demand)
  BY <1>3, <1>4, FleetMonotone
<1> QED BY <1>2, <1>5

(* A snapshot is evidence when its provenance is known.                    *)
LEMMA EvidenceOfSnap ==
    ASSUME Loaded, Evidence
    PROVE  /\ snap.gens = [resource |-> 1, allocation |-> 1, reservation |-> 1]
           /\ Complete(snap.gens) /\ snap.prov # "UNKNOWN"
           /\ After.devices = live /\ After.gens = snap.gens /\ After.prov = snap.prov
           /\ After.reservations = snap.reservations
           /\ After.epoch = snap.epoch /\ After.policyGen = snap.policyGen
<1> DEFINE dv == snap.devices
           pv == snap.prov
           rs == snap.reservations
           g == [resource |-> 1, allocation |-> 1, reservation |-> 1]
           s == [devices |-> dv, prov |-> pv, reservations |-> rs, gens |-> g,
                 epoch |-> 1, policyGen |-> 1]
<1>1. snap = s
  BY DEF Loaded
<1>2. Complete(snap.gens) /\ snap.prov # "UNKNOWN"
  BY DEF Evidence
<1> HIDE DEF dv, pv, rs, g
<1>3. [s EXCEPT !.devices = live] =
         [devices |-> live, prov |-> pv, reservations |-> rs, gens |-> g,
          epoch |-> 1, policyGen |-> 1]
  OBVIOUS
<1>4. After = [devices |-> live, prov |-> pv, reservations |-> rs, gens |-> g,
               epoch |-> 1, policyGen |-> 1]
  BY <1>1, <1>3 DEF After
<1>5. /\ snap.gens = g /\ snap.epoch = 1 /\ snap.policyGen = 1
      /\ snap.prov = pv /\ snap.reservations = rs
  BY <1>1
<1>6. /\ After.devices = live /\ After.gens = g /\ After.prov = pv
      /\ After.reservations = rs /\ After.epoch = 1 /\ After.policyGen = 1
  BY <1>4
<1> QED BY <1>2, <1>5, <1>6 DEF g

(* On evidence and without a topology group, what analyze_fit says and     *)
(* what plan_remediation does never contradict each other.                 *)
THEOREM FitAlwaysAgrees == Spec => []FitAgrees
<1>1. AInv => FitAgrees
  <2> SUFFICES ASSUME AInv, Evidence, demand.group = NoGroup
               PROVE  /\ phase = "NO_PLAN" => fit # "FIT_AFTER_RECLAIM"
                      /\ Planned => fit \in {"FIT_AFTER_RECLAIM", "NO_FIT_RAW_CAPACITY"}
    BY DEF FitAgrees
  <2>0. Loaded /\ Greedy /\ Progress
    BY DEF AInv
  <2> DEFINE fleet == snap.devices
             reclaim == [r \in DOMAIN fleet |-> AfterReclaim(fleet[r])]
  <2>1. LegalFleet(fleet) /\ demand \in LegalDemand /\ Complete(snap.gens) /\ snap.prov # "UNKNOWN"
    BY <2>0 DEF Loaded, Evidence
  <2>2. AnalyzeFit(snap, demand) =
           IF DOMAIN fleet = {} THEN "INSUFFICIENT_EVIDENCE"
           ELSE IF AggregateFree(fleet) < demand.aggregate THEN "NO_FIT_RAW_CAPACITY"
           ELSE IF Satisfying(fleet, demand) < NeededCount(demand)
           THEN ShortfallCause(fleet, demand)
           ELSE ReservationGate(snap.reservations, demand)
    BY <2>1, FitWithoutGroup
  <2>3. /\ AggregateFree(fleet) \in Nat /\ demand.aggregate \in Nat
        /\ Satisfying(fleet, demand) \in Nat /\ NeededCount(demand) \in Nat
        /\ PlanFits(fleet, demand) => DOMAIN fleet # {}
    BY <2>1, FitNumbers
  <2>4. reclaim = Displaced(fleet, All)
    BY <2>1, ReclaimIsAll DEF All
  <2>5. PlanFits(reclaim, demand) <=>
           /\ Satisfying(reclaim, demand) >= NeededCount(demand)
           /\ AggregateFree(reclaim) >= demand.aggregate
    BY DEF PlanFits
  <2>6. PlanFits(reclaim, demand) <=> ShortfallCause(fleet, demand) = "FIT_AFTER_RECLAIM"
    BY <2>5 DEF ShortfallCause
  <2>7. ReservationGate(snap.reservations, demand) # "FIT_AFTER_RECLAIM"
    BY DEF ReservationGate
  <2> HIDE DEF reclaim, fleet
  <2>8. ASSUME phase = "NO_PLAN", fit = "FIT_AFTER_RECLAIM" PROVE FALSE
    <3>1. /\ Satisfying(fleet, demand) < NeededCount(demand)
          /\ ShortfallCause(fleet, demand) = "FIT_AFTER_RECLAIM"
      BY <2>0, <2>2, <2>7, <2>8 DEF Progress
    <3>2. ~PlanFits(fleet, demand)
      BY <2>3, <3>1 DEF PlanFits
    <3>3. actions = All /\ ~PlanFits(devs, demand)
      BY <2>0, <2>8, <3>2 DEF Progress, fleet
    <3>4. devs = reclaim
      BY <2>0, <2>4, <3>3 DEF Greedy, fleet
    <3> QED BY <2>6, <3>1, <3>3, <3>4
  <2>9. ASSUME Planned PROVE fit \in {"FIT_AFTER_RECLAIM", "NO_FIT_RAW_CAPACITY"}
    <3>1. PlanFits(devs, demand) /\ ~PlanFits(fleet, demand) /\ fit = AnalyzeFit(snap, demand)
      BY <2>0, <2>9 DEF Progress, Planned, fleet
    <3>2. PlanFits(reclaim, demand)
      BY <2>0, <2>4, <3>1, AllIsEnough DEF fleet
    <3>3. DOMAIN fleet # {}
      <4>1. LegalFleet(devs) /\ DOMAIN devs = DOMAIN fleet
        BY <2>0, <2>1, LegalIsFleet, DisplacedAgain, DisplacedShape DEF Greedy, fleet
      <4> QED BY <2>1, <3>1, <4>1, FitNumbers
    <3>4. AggregateFree(fleet) < demand.aggregate \/ Satisfying(fleet, demand) < NeededCount(demand)
      BY <2>3, <3>1 DEF PlanFits
    <3> QED BY <2>2, <2>6, <3>1, <3>2, <3>3, <3>4
  <2> QED BY <2>8, <2>9
<1> QED BY <1>1, AInvAlways, PTL

(* The state a plan leaves behind: its devices, and what is protected on   *)
(* them.                                                                   *)
LEMMA CarriedOut ==
    ASSUME AInv
    PROVE  /\ LegalFleet(live) /\ DOMAIN live = DOMAIN snap.devices
           /\ \A r \in DOMAIN live :
                 /\ live[r].cap = snap.devices[r].cap
                 /\ DOMAIN live[r].allocs \subseteq DOMAIN snap.devices[r].allocs
                 /\ \A i \in DOMAIN live[r].allocs : live[r].allocs[i] = snap.devices[r].allocs[i]
                 /\ \A i \in DOMAIN snap.devices[r].allocs :
                       ~Reclaimable(snap.devices[r].allocs[i]) => i \in DOMAIN live[r].allocs
           /\ Pending = {} => live = devs
<1>0. Loaded /\ Greedy /\ Carried
  BY DEF AInv
<1> DEFINE fleet == snap.devices
<1>1. PICK done \in SUBSET actions : live = Displaced(fleet, done)
  BY <1>0 DEF Carried
<1>2. LegalFleet(fleet) /\ LegalFleet(live) /\ done \subseteq All /\ actions \subseteq All
  BY <1>0, <1>1, DisplacedAgain DEF Loaded, Greedy
<1>3. /\ DOMAIN live = DOMAIN fleet
      /\ \A r \in DOMAIN fleet :
            /\ live[r].cap = fleet[r].cap
            /\ DOMAIN live[r].allocs = DOMAIN fleet[r].allocs \ TakenFrom(done, r)
            /\ \A i \in DOMAIN fleet[r].allocs \ TakenFrom(done, r) :
                  live[r].allocs[i] = fleet[r].allocs[i]
  BY <1>1, <1>2, LegalIsFleet, DisplacedShape
<1>4. ASSUME NEW r \in DOMAIN fleet, NEW i \in DOMAIN fleet[r].allocs,
             ~Reclaimable(fleet[r].allocs[i])
      PROVE  i \in DOMAIN live[r].allocs
  <2>1. i \notin TakenFrom(done, r)
    <3> SUFFICES ASSUME i \in TakenFrom(done, r) PROVE FALSE
      OBVIOUS
    <3>1. PICK c \in done : c.res = r /\ c.src = i
      BY DEF TakenFrom
    <3>2. c \in Candidates(fleet)
      BY <1>2 DEF All
    <3>3. Reclaimable(fleet[c.res].allocs[c.src])
      BY <3>2, CandidateShape
    <3> QED BY <1>4, <3>1, <3>3
  <2> QED BY <1>3, <2>1
<1>5. ASSUME Pending = {} PROVE live = devs
  <2>1. ASSUME NEW a \in actions PROVE a \in done
    <3>1. a \in Candidates(fleet)
      BY <1>2 DEF All
    <3>2. /\ a = [res |-> a.res, src |-> a.src] /\ a.res \in DOMAIN fleet
          /\ a.src \in DOMAIN fleet[a.res].allocs
      BY <3>1, CandidateShape
    <3>3. a.src \notin DOMAIN live[a.res].allocs
      BY <1>5 DEF Pending
    <3>4. a.src \in TakenFrom(done, a.res)
      BY <1>3, <3>2, <3>3
    <3>5. PICK c \in done : c.res = a.res /\ c.src = a.src
      BY <3>4 DEF TakenFrom
    <3>6. c \in Candidates(fleet)
      BY <1>2 DEF All
    <3>7. c = [res |-> c.res, src |-> c.src]
      BY <3>6, CandidateShape
    <3> QED BY <3>2, <3>5, <3>7
  <2>2. done = actions
    BY <1>1, <2>1
  <2> QED BY <1>0, <1>1, <2>2 DEF Greedy
<1> QED BY <1>2, <1>3, <1>4, <1>5

(* A plan of which all actions have been carried out, in whatever order,   *)
(* is verified as TARGET_FIT_ACHIEVED unless a group or a reservation      *)
(* stands in its way, and no part of a plan fails the verification.        *)
THEOREM PlanAlwaysVerifies == Spec => []PlanVerifies
<1>1. AInv => PlanVerifies
  <2> SUFFICES ASSUME AInv, phase = "VERIFIED", Evidence
               PROVE  /\ verdict # "VERIFICATION_FAILED"
                      /\ /\ Pending = {}
                         /\ demand.group = NoGroup
                         /\ ReservationGate(snap.reservations, demand) = "FIT_NOW"
                         => verdict = "TARGET_FIT_ACHIEVED"
    BY DEF PlanVerifies
  <2>0. Loaded /\ Greedy /\ Progress /\ Carried
    BY DEF AInv
  <2> DEFINE fleet == snap.devices
  <2>1. verdict = VerifyRemediation(snap, After, demand)
    BY <2>0 DEF Carried
  <2>2. /\ LegalFleet(fleet) /\ LegalFleet(live) /\ DOMAIN live = DOMAIN fleet
        /\ demand \in LegalDemand
    BY <2>0, CarriedOut DEF Loaded
  <2>3. /\ Complete(snap.gens) /\ snap.prov # "UNKNOWN"
        /\ After.devices = live /\ After.gens = snap.gens /\ After.prov = snap.prov
        /\ After.reservations = snap.reservations
        /\ After.epoch = snap.epoch /\ After.policyGen = snap.policyGen
    BY <2>0, EvidenceOfSnap
  <2>4. AccountingClosed(fleet) /\ AccountingClosed(After.devices)
    BY <2>2, <2>3, FreeIsCounted DEF AccountingClosed, LegalFleet, LegalDevice
  <2>5. CurrentGenerations(snap, After)
    BY <2>3 DEF CurrentGenerations
  <2>6. ProtectedIntact(snap, After)
    <3> SUFFICES ASSUME NEW r \in DOMAIN fleet, NEW i \in DOMAIN fleet[r].allocs,
                        Protected(fleet[r].allocs[i])
                 PROVE  i \in DOMAIN live[r].allocs
      BY <2>2, <2>3 DEF ProtectedIntact
    <3>1. ~Reclaimable(fleet[r].allocs[i])
      BY DEF Protected, Reclaimable, MayMove, Movable, Droppable
    <3> QED BY <2>2, <3>1, CarriedOut
  <2>7. verdict # "VERIFICATION_FAILED"
    BY <2>1, <2>4, <2>5, <2>6 DEF VerifyRemediation
  <2>8. ASSUME Pending = {}, demand.group = NoGroup,
               ReservationGate(snap.reservations, demand) = "FIT_NOW"
        PROVE  verdict = "TARGET_FIT_ACHIEVED"
    <3>1. PlanFits(live, demand) /\ ~PlanFits(fleet, demand)
      BY <2>0, <2>8, CarriedOut DEF Progress, Planned
    <3>2. AnalyzeFit(snap, demand) # "FIT_NOW"
      <4>1. Fleet(snap.devices) /\ IsDemand(demand)
        BY <2>2, LegalIsFleet DEF LegalDemand, IsDemand
      <4> QED BY <3>1, <4>1, FitMeansPlanFits
    <3>3. AnalyzeFit(After, demand) =
             IF DOMAIN live = {} THEN "INSUFFICIENT_EVIDENCE"
             ELSE IF AggregateFree(live) < demand.aggregate THEN "NO_FIT_RAW_CAPACITY"
             ELSE IF Satisfying(live, demand) < NeededCount(demand)
             THEN ShortfallCause(live, demand)
             ELSE ReservationGate(snap.reservations, demand)
      <4> DEFINE s == After
      <4>1. /\ s.devices = live /\ s.reservations = snap.reservations
            /\ LegalFleet(s.devices) /\ Complete(s.gens) /\ s.prov # "UNKNOWN"
        BY <2>2, <2>3
      <4> HIDE DEF s
      <4>2. AnalyzeFit(s, demand) =
               IF DOMAIN s.devices = {} THEN "INSUFFICIENT_EVIDENCE"
               ELSE IF AggregateFree(s.devices) < demand.aggregate THEN "NO_FIT_RAW_CAPACITY"
               ELSE IF Satisfying(s.devices, demand) < NeededCount(demand)
               THEN ShortfallCause(s.devices, demand)
               ELSE ReservationGate(s.reservations, demand)
        BY <2>8, <4>1, FitWithoutGroup
      <4> QED BY <4>1, <4>2 DEF s
    <3>4. /\ AggregateFree(live) \in Nat /\ demand.aggregate \in Nat
          /\ Satisfying(live, demand) \in Nat /\ NeededCount(demand) \in Nat
          /\ DOMAIN live # {}
      BY <2>2, <3>1, FitNumbers
    <3>5. ~(AggregateFree(live) < demand.aggregate)
          /\ ~(Satisfying(live, demand) < NeededCount(demand))
      BY <3>1, <3>4 DEF PlanFits
    <3>6. AnalyzeFit(After, demand) = "FIT_NOW"
      BY <2>8, <3>3, <3>4, <3>5
    <3>7. AnalyzeFit(snap, demand) # "THROWS"
      <4>1. ShortfallCause(fleet, demand) # "THROWS"
        BY DEF ShortfallCause
      <4> QED BY <2>2, <2>3, <2>8, <4>1, FitWithoutGroup
    <3> QED BY <2>1, <2>4, <2>5, <2>6, <3>2, <3>6, <3>7 DEF VerifyRemediation
  <2> QED BY <2>7, <2>8
<1> QED BY <1>1, AInvAlways, PTL

-----------------------------------------------------------------------------
(***************************************************************************)
(* The metrics.                                                            *)
(***************************************************************************)
CellsOf(d, ids) == UNION {Cells(d.allocs[i]) : i \in ids}
LengthOf(d, ids) == [i \in ids |-> d.allocs[i].length]

(* Bytes sums lengths.                                                     *)
LEMMA BytesIsSum ==
    ASSUME NEW d, NEW ids, IsFiniteSet(ids)
    PROVE  \E g : IsSum(g, LengthOf(d, ids), ids) /\ Bytes(d, ids) = g[ids]
<1> DEFINE IsAgg(g) == g = [s \in SUBSET ids |->
                              IF s = {} THEN 0 ELSE d.allocs[First(s)].length + g[s \ {First(s)}]]
<1>1. ASSUME NEW g PROVE IsAgg(g) <=> IsSum(g, LengthOf(d, ids), ids)
  <2>1. \A s \in SUBSET ids : s # {} => LengthOf(d, ids)[First(s)] = d.allocs[First(s)].length
    BY DEF First, LengthOf
  <2>2. [s \in SUBSET ids |->
            IF s = {} THEN 0 ELSE d.allocs[First(s)].length + g[s \ {First(s)}]]
        = [s \in SUBSET ids |->
            IF s = {} THEN 0 ELSE LengthOf(d, ids)[First(s)] + g[s \ {First(s)}]]
    BY <2>1
  <2> QED BY <2>2 DEF IsSum
<1>2. \E g : IsAgg(g)
  BY <1>1, SumExists
<1>3. Bytes(d, ids) = (CHOOSE g : IsAgg(g))[ids]
  BY DEF Bytes, MapThenSumSet, MapThenFoldSet, First
<1> HIDE DEF IsAgg
<1> QED BY <1>1, <1>2, <1>3

(* The bytes of a legal allocation.                                        *)
LEMMA CellsCounted ==
    ASSUME NEW a, NEW cap \in Nat, LegalAlloc(a, cap)
    PROVE  /\ IsFiniteSet(Cells(a)) /\ Cardinality(Cells(a)) = a.length
           /\ a.length \in Nat /\ Cells(a) \subseteq 0 .. (cap - 1)
<1> DEFINE o == a.offset
           l == a.length
           hi == o + l - 1
<1>1. o \in Nat /\ l \in Nat /\ l > 0 /\ o + l <= cap
  BY DEF LegalAlloc
<1>2. Cells(a) = o .. hi
  BY DEF Cells
<1> HIDE DEF o, l
<1>3. hi \in Int /\ o \in Int /\ ~(o > hi) /\ hi - o + 1 = l
  BY <1>1
<1>4. o .. hi \subseteq 0 .. (cap - 1)
  BY <1>1
<1> HIDE DEF hi
<1>5. IsFiniteSet(o .. hi) /\ Cardinality(o .. hi) = IF o > hi THEN 0 ELSE hi - o + 1
  BY <1>3, FS_Interval
<1>6. Cardinality(o .. hi) = l
  BY <1>3, <1>5
<1> QED BY <1>1, <1>2, <1>4, <1>5, <1>6 DEF l

(* The allocations of a legal device do not share bytes, so the sum of     *)
(* their lengths counts the bytes they occupy.                             *)
LEMMA BytesCounted ==
    ASSUME NEW d, LegalDevice(d), NEW ids, ids \subseteq DOMAIN d.allocs
    PROVE  /\ IsFiniteSet(CellsOf(d, ids)) /\ CellsOf(d, ids) \subseteq 0 .. (d.cap - 1)
           /\ Bytes(d, ids) = Cardinality(CellsOf(d, ids)) /\ Bytes(d, ids) \in Nat
<1> DEFINE as == d.allocs
           len == LengthOf(d, ids)
<1>0. /\ IsFiniteSet(ids) /\ d.cap \in Nat
      /\ \A i \in ids : LegalAlloc(as[i], d.cap)
      /\ \A i, j \in ids : i # j => Cells(as[i]) \cap Cells(as[j]) = {}
  BY FS_Subset DEF LegalDevice
<1>1. \A i \in ids : /\ IsFiniteSet(Cells(as[i])) /\ Cardinality(Cells(as[i])) = len[i]
                     /\ len[i] \in Nat /\ Cells(as[i]) \subseteq 0 .. (d.cap - 1)
  BY <1>0, CellsCounted DEF LengthOf
<1>2. PICK g : IsSum(g, len, ids) /\ Bytes(d, ids) = g[ids]
  BY <1>0, BytesIsSum
<1>3. \A T \in SUBSET ids : g[T] \in Nat
  BY <1>0, <1>1, <1>2, SumType
<1> HIDE DEF len
<1> DEFINE Good(T) == IsFiniteSet(CellsOf(d, T)) /\ Cardinality(CellsOf(d, T)) = g[T]
           Bad == {T \in SUBSET ids : ~Good(T)}
<1>4. ASSUME ids \in Bad PROVE FALSE
  <2>1. PICK T \in Bad : \A U \in Bad : U \subseteq T => U = T
    <3>1. Bad \subseteq SUBSET ids /\ Bad # {}
      BY <1>4
    <3> HIDE DEF Bad
    <3> QED BY <1>0, <3>1, MinimalSubset
  <2>2. T \in SUBSET ids /\ ~Good(T)
    BY <2>1
  <2>3. CASE T = {}
    <3>1. CellsOf(d, {}) = {}
      BY DEF CellsOf
    <3>2. g[{}] = 0
      BY <1>2, <2>2, <2>3, SumUnfolds
    <3> QED BY <2>2, <2>3, <3>1, <3>2, FS_EmptySet
  <2>4. CASE T # {}
    <3> DEFINE x == First(T)
               U == T \ {x}
               X == Cells(as[x])
               Y == CellsOf(d, U)
    <3>1. x \in T /\ g[T] = len[x] + g[U]
      BY <1>2, <2>2, <2>4, SumUnfolds
    <3> HIDE DEF x
    <3>2. U \in SUBSET ids /\ Good(U)
      <4>1. U \in SUBSET ids /\ U \subseteq T /\ U # T
        BY <2>2, <3>1
      <4>2. U \notin Bad
        BY <2>1, <4>1
      <4> QED BY <4>1, <4>2
    <3>3. CellsOf(d, T) = X \cup Y
      BY <3>1 DEF CellsOf
    <3>4. X \cap Y = {}
      BY <1>0, <2>2, <3>1 DEF CellsOf
    <3>5. IsFiniteSet(X) /\ Cardinality(X) = len[x] /\ len[x] \in Nat
      BY <1>1, <2>2, <3>1
    <3>6. IsFiniteSet(Y) /\ Cardinality(Y) = g[U] /\ g[U] \in Nat
      BY <1>3, <3>2
    <3> HIDE DEF X, Y, U
    <3>7. IsFiniteSet(X \cup Y) /\ Cardinality(X \cup Y) = Cardinality(X) + Cardinality(Y) - Cardinality(X \cap Y)
      BY <3>5, <3>6, FS_Union
    <3>8. Cardinality(X \cap Y) = 0
      BY <3>4, FS_EmptySet
    <3>9. Cardinality(X \cup Y) = g[T]
      BY <3>1, <3>5, <3>6, <3>7, <3>8
    <3> QED BY <2>2, <3>3, <3>7, <3>9
  <2> QED BY <2>3, <2>4
<1>5. Good(ids)
  BY <1>4
<1>6. CellsOf(d, ids) \subseteq 0 .. (d.cap - 1)
  BY <1>1 DEF CellsOf
<1> QED BY <1>2, <1>3, <1>5, <1>6

(* What is not free is in use.                                             *)
LEMMA UsedCounted ==
    ASSUME NEW d, LegalDevice(d)
    PROVE  /\ Free(d) \in Nat /\ d.cap \in Nat
           /\ d.cap - Free(d) = Cardinality(CellsOf(d, DOMAIN d.allocs))
<1> DEFINE cap == d.cap
           U == CellsOf(d, DOMAIN d.allocs)
           R == 0 .. (cap - 1)
<1>1. cap \in Nat /\ IsFiniteSet(U) /\ U \subseteq R
  BY BytesCounted DEF LegalDevice
<1>2. FreeBytes(d) = R \ U
  BY DEF FreeBytes, FreeCells, UsedCells, CellsOf
<1>3. IsFiniteSet(R) /\ Cardinality(R) = cap
  <2> DEFINE hi == cap - 1
  <2>1. hi \in Int /\ hi - 0 + 1 = cap /\ (0 > hi => cap = 0)
    BY <1>1
  <2> HIDE DEF hi
  <2>2. IsFiniteSet(0 .. hi) /\ Cardinality(0 .. hi) = IF 0 > hi THEN 0 ELSE hi - 0 + 1
    BY <2>1, FS_Interval
  <2>3. Cardinality(0 .. hi) = cap
    BY <2>1, <2>2
  <2> QED BY <2>2, <2>3 DEF hi
<1>4. Free(d) = Cardinality(FreeBytes(d)) /\ Free(d) \in Nat
  BY <1>1, FreeIsCounted
<1> HIDE DEF R, U, cap
<1>5. Cardinality(R \ U) = Cardinality(R) - Cardinality(R \cap U)
  BY <1>3, FS_Difference
<1>6. R \cap U = U
  BY <1>1
<1>7. Cardinality(U) \in Nat
  BY <1>1, FS_CardinalityType
<1>8. cap - Free(d) = Cardinality(U)
  <2>1. Cardinality(R \ U) = cap - Cardinality(U)
    BY <1>3, <1>5, <1>6
  <2>2. Free(d) = Cardinality(R \ U)
    BY <1>2, <1>4
  <2> DEFINE n == Cardinality(U)
             f == Free(d)
  <2>3. f = cap - n /\ n \in Nat /\ cap \in Nat
    BY <1>1, <1>7, <2>1, <2>2
  <2> HIDE DEF n, f
  <2>4. cap - f = n
    BY <2>3
  <2> QED BY <2>4 DEF n, f
<1> QED BY <1>1, <1>4, <1>8 DEF cap, U

(* An allocation is protected or reclaimable, never both.                  *)
LEMMA ProtectedOrNot ==
    ASSUME NEW a, NEW cap, LegalAlloc(a, cap)
    PROVE  IsProtected(a) <=> ~Reclaimable(a)
BY DEF LegalAlloc, IsProtected, Reclaimable, MayMove, Movability, Movable, Droppable, Fixed

(* So the two account for all used bytes.                                  *)
LEMMA PartsAccount ==
    ASSUME NEW d, LegalDevice(d)
    PROVE  LET P == {i \in DOMAIN d.allocs : IsProtected(d.allocs[i])}
               Q == {i \in DOMAIN d.allocs : Reclaimable(d.allocs[i])}
           IN  /\ Bytes(d, P) \in Nat /\ Bytes(d, Q) \in Nat
               /\ Bytes(d, P) + Bytes(d, Q) = d.cap - Free(d)
<1> DEFINE P == {i \in DOMAIN d.allocs : IsProtected(d.allocs[i])}
           Q == {i \in DOMAIN d.allocs : Reclaimable(d.allocs[i])}
<1>1. \A i \in DOMAIN d.allocs : LegalAlloc(d.allocs[i], d.cap)
  BY DEF LegalDevice
<1>2. P \cup Q = DOMAIN d.allocs /\ P \cap Q = {}
  BY <1>1, ProtectedOrNot
<1>3. P \subseteq DOMAIN d.allocs /\ Q \subseteq DOMAIN d.allocs
  OBVIOUS
<1> HIDE DEF P, Q
<1> DEFINE X == CellsOf(d, P)
           Y == CellsOf(d, Q)
<1>4. /\ IsFiniteSet(X) /\ Bytes(d, P) = Cardinality(X) /\ Bytes(d, P) \in Nat
      /\ IsFiniteSet(Y) /\ Bytes(d, Q) = Cardinality(Y) /\ Bytes(d, Q) \in Nat
  BY <1>3, BytesCounted
<1>5. CellsOf(d, DOMAIN d.allocs) = X \cup Y
  BY <1>2 DEF CellsOf
<1>6. X \cap Y = {}
  <2>1. \A i, j \in DOMAIN d.allocs : i # j => Cells(d.allocs[i]) \cap Cells(d.allocs[j]) = {}
    BY DEF LegalDevice
  <2> QED BY <1>2, <1>3, <2>1 DEF CellsOf
<1> HIDE DEF X, Y
<1>7. Cardinality(X \cup Y) = Cardinality(X) + Cardinality(Y) - Cardinality(X \cap Y)
  BY <1>4, FS_Union
<1>8. Cardinality(X \cap Y) = 0
  BY <1>6, FS_EmptySet
<1>9. d.cap - Free(d) = Cardinality(X \cup Y)
  BY <1>5, UsedCounted
<1>10. Bytes(d, P) + Bytes(d, Q) = d.cap - Free(d)
  BY <1>4, <1>7, <1>8, <1>9
<1> QED BY <1>4, <1>10 DEF P, Q

(* Bytes cut off at zero.                                                  *)
LEMMA MaxZero ==
    ASSUME NEW x \in Int
    PROVE  Max({0, x}) = IF x > 0 THEN x ELSE 0
<1> DEFINE m == IF x > 0 THEN x ELSE 0
           P(y) == y \in {0, x} /\ \A z \in {0, x} : y >= z
<1>1. P(m) /\ \A y : P(y) => y = m
  OBVIOUS
<1>2. Max({0, x}) = CHOOSE y : P(y)
  BY DEF Max
<1> HIDE DEF P, m
<1>3. (CHOOSE y : P(y)) = m
  BY <1>1
<1> QED BY <1>2, <1>3 DEF m

(* Free space that is not all in the largest block is in several blocks.   *)
LEMMA SeveralBlocks ==
    ASSUME NEW d, d.cap \in Nat, Free(d) > Largest(d)
    PROVE  Cardinality(FreeBlocks(d.cap, d.allocs)) > 1
<1> DEFINE Blocks == FreeBlocks(d.cap, d.allocs)
           F == FreeBytes(d)
           n == Cardinality(Blocks)
<1>1. /\ IsFiniteSet(F) /\ Free(d) = Cardinality(F) /\ Free(d) \in Nat
      /\ \A c \in F : c \in Nat
  BY FreeIsCounted
<1>2. /\ Largest(d) \in Nat
      /\ \A s, k \in Nat : FreeRun(d, s, k) => k <= Largest(d)
  BY LargestIsLongest
<1>3. IsFiniteSet(Blocks) /\ n \in Nat
  <2> DEFINE cap == d.cap
             hi == cap - 1
             A == 0 .. hi
             B == 1 .. cap
  <2>0. 0 \in Int /\ 1 \in Int /\ cap \in Int /\ hi \in Int
    OBVIOUS
  <2>1. IsFiniteSet(A) /\ IsFiniteSet(B)
    <3> HIDE DEF hi, cap
    <3> QED BY <2>0, FS_Interval
  <2>2. Blocks \subseteq A \X B
    BY DEF FreeBlocks
  <2> HIDE DEF A, B, Blocks
  <2>3. IsFiniteSet(A \X B)
    BY <2>1, FS_Product
  <2>4. IsFiniteSet(Blocks)
    BY <2>2, <2>3, FS_Subset
  <2> QED BY <2>4, FS_CardinalityType
<1>4. \A b \in Blocks : b[1] \in Nat /\ b[2] \in Nat /\ b[2] > 0 /\ FreeRun(d, b[1], b[2])
  BY DEF FreeBlocks, FreeRun, FreeBytes
<1>5. \A c \in F : \E b \in Blocks : b[1] <= c /\ c + 1 <= b[1] + b[2]
  <2> SUFFICES ASSUME NEW c \in F PROVE \E b \in Blocks : b[1] <= c /\ c + 1 <= b[1] + b[2]
    OBVIOUS
  <2>1. c \in Nat
    BY <1>1
  <2>2. c .. (c + 1 - 1) = {c}
    BY <2>1
  <2>3. FreeRun(d, c, 1)
    BY <2>2 DEF FreeRun
  <2>4. 1 \in Nat /\ 1 > 0
    OBVIOUS
  <2> QED BY <2>1, <2>3, <2>4, RunInBlock
<1> HIDE DEF Blocks, F
<1>6. ASSUME n = 0 PROVE FALSE
  <2>1. Blocks = {}
    BY <1>3, <1>6, FS_EmptySet
  <2>2. F = {}
    BY <1>5, <2>1
  <2>3. Free(d) = 0
    BY <1>1, <2>2, FS_EmptySet
  <2> QED BY <1>2, <2>3
<1>7. ASSUME n = 1 PROVE FALSE
  <2>1. PICK b : Blocks = {b}
    BY <1>3, <1>7, FS_Singleton
  <2> DEFINE lo == b[1]
             k == b[2]
             hi == lo + k - 1
  <2>2. lo \in Nat /\ k \in Nat /\ k > 0 /\ FreeRun(d, lo, k)
    BY <1>4, <2>1
  <2>3. \A c \in F : lo <= c /\ c + 1 <= lo + k
    BY <1>5, <2>1
  <2> HIDE DEF lo, k
  <2>4. k <= Largest(d)
    BY <1>2, <2>2
  <2>5. F \subseteq lo .. hi
    BY <1>1, <2>2, <2>3
  <2>6. hi \in Int /\ lo \in Int /\ ~(lo > hi) /\ hi - lo + 1 = k
    BY <2>2
  <2> HIDE DEF hi
  <2>7. IsFiniteSet(lo .. hi) /\ Cardinality(lo .. hi) = k
    BY <2>6, FS_Interval
  <2>8. Cardinality(F) <= k
    BY <2>5, <2>7, FS_Subset
  <2>9. Free(d) <= k
    BY <1>1, <2>8
  <2> QED BY <1>1, <1>2, <2>2, <2>4, <2>9
<1> HIDE DEF n
<1>8. n > 1
  BY <1>3, <1>6, <1>7
<1> QED BY <1>8 DEF n, Blocks

(* Every byte in use is protected or reclaimable at any point of a plan's  *)
(* execution, the protected ones stay, and only a device whose free space  *)
(* is in several blocks is reported as fragmented by ownership.            *)
THEOREM MetricsAlwaysAccount == Spec => []MetricsAccount
<1>1. AInv => MetricsAccount
  <2> SUFFICES ASSUME AInv, NEW r \in DOMAIN live
               PROVE  LET m == LayoutMetrics(live[r])
                      IN  /\ m.protected + m.reclaimable = m.used
                          /\ m.protected = LayoutMetrics(snap.devices[r]).protected
                          /\ "OWNERSHIP" \in Categories(m) => m.blocks > 1
    BY DEF MetricsAccount
  <2> DEFINE d == live[r]
             o == snap.devices[r]
             m == LayoutMetrics(d)
             P == {i \in DOMAIN d.allocs : IsProtected(d.allocs[i])}
             Q == {i \in DOMAIN d.allocs : Reclaimable(d.allocs[i])}
             R == {i \in DOMAIN o.allocs : IsProtected(o.allocs[i])}
  <2>1. LegalFleet(live) /\ LegalFleet(snap.devices) /\ DOMAIN live = DOMAIN snap.devices
    BY CarriedOut DEF AInv, Loaded
  <2>2. LegalDevice(d) /\ LegalDevice(o)
    BY <2>1 DEF LegalFleet
  <2>3. /\ d.cap = o.cap /\ DOMAIN d.allocs \subseteq DOMAIN o.allocs
        /\ \A i \in DOMAIN d.allocs : d.allocs[i] = o.allocs[i]
        /\ \A i \in DOMAIN o.allocs : ~Reclaimable(o.allocs[i]) => i \in DOMAIN d.allocs
    BY CarriedOut
  <2>4. /\ m.used = d.cap - Free(d) /\ m.blocks = Cardinality(FreeBlocks(d.cap, d.allocs))
        /\ m.protected = Bytes(d, P) /\ m.reclaimable = Bytes(d, Q)
        /\ m.stranded = Max({0, Free(d) - Largest(d)})
        /\ LayoutMetrics(o).protected = Bytes(o, R)
    BY DEF LayoutMetrics
  <2> HIDE DEF d, o, m
  <2>5. Bytes(d, P) + Bytes(d, Q) = d.cap - Free(d)
    BY <2>2, PartsAccount
  <2>6. P = R
    <3>1. \A i \in DOMAIN o.allocs : IsProtected(o.allocs[i]) => ~Reclaimable(o.allocs[i])
      BY <2>2, ProtectedOrNot DEF LegalDevice
    <3> QED BY <2>3, <3>1
  <2>7. Bytes(d, P) = Bytes(o, R)
    <3>1. P \subseteq DOMAIN d.allocs /\ R \subseteq DOMAIN o.allocs
      OBVIOUS
    <3>2. \A i \in P : d.allocs[i] = o.allocs[i]
      BY <2>3
    <3> HIDE DEF P, R
    <3>3. CellsOf(d, P) = CellsOf(o, R)
      BY <2>6, <3>2 DEF CellsOf
    <3>4. Bytes(d, P) = Cardinality(CellsOf(d, P)) /\ Bytes(o, R) = Cardinality(CellsOf(o, R))
      BY <2>2, <3>1, BytesCounted
    <3> QED BY <3>3, <3>4
  <2>8. ASSUME "OWNERSHIP" \in Categories(m) PROVE m.blocks > 1
    <3>1. m.stranded > 0
      BY <2>8 DEF Categories
    <3>2. d.cap \in Nat /\ Free(d) \in Nat /\ Largest(d) \in Nat
      BY <2>2, FreeIsCounted, LargestIsLongest DEF LegalDevice
    <3>3. Free(d) > Largest(d)
      <4> DEFINE x == Free(d) - Largest(d)
      <4>1. x \in Int
        BY <3>2
      <4> HIDE DEF x
      <4>2. m.stranded = IF x > 0 THEN x ELSE 0
        BY <2>4, <4>1, MaxZero DEF x
      <4>3. x > 0
        BY <3>1, <4>1, <4>2
      <4> QED BY <3>2, <4>3 DEF x
    <3> QED BY <2>4, <3>2, <3>3, SeveralBlocks
  <2> QED BY <2>4, <2>5, <2>7, <2>8 DEF m, d, o
<1> QED BY <1>1, AInvAlways, PTL

(* The largest free block is free.                                         *)
LEMMA LargestIsFree ==
    ASSUME NEW d, d.cap \in Nat
    PROVE  Largest(d) \in Nat /\ Free(d) \in Nat /\ Largest(d) <= Free(d)
<1> DEFINE n == Largest(d)
<1>1. n \in Nat /\ (n > 0 => \E s \in Nat : FreeRun(d, s, n))
  BY LargestIsLongest
<1>2. IsFiniteSet(FreeBytes(d)) /\ Free(d) = Cardinality(FreeBytes(d)) /\ Free(d) \in Nat
  BY FreeIsCounted
<1> HIDE DEF n
<1>3. ASSUME n > 0 PROVE n <= Free(d)
  <2>1. PICK s \in Nat : FreeRun(d, s, n)
    BY <1>1, <1>3
  <2> DEFINE hi == s + n - 1
  <2>2. s \in Int /\ hi \in Int /\ ~(s > hi) /\ hi - s + 1 = n
    BY <1>1, <1>3
  <2>3. s .. hi \subseteq FreeBytes(d)
    BY <2>1 DEF FreeRun
  <2> HIDE DEF hi
  <2>4. Cardinality(s .. hi) = n
    BY <2>2, FS_Interval
  <2>5. Cardinality(s .. hi) <= Cardinality(FreeBytes(d))
    BY <1>2, <2>3, FS_Subset
  <2> QED BY <1>2, <2>4, <2>5
<1>4. n <= Free(d)
  BY <1>1, <1>2, <1>3
<1> QED BY <1>1, <1>2, <1>4 DEF n

(* A fleet of one device has its free bytes, its largest block and its     *)
(* answer.                                                                 *)
LEMMA SingleDevice ==
    ASSUME NEW f, NEW r, DOMAIN f = {r}, f[r].cap \in Nat, NEW w
    PROVE  /\ AggregateFree(f) = Free(f[r])
           /\ Satisfying(f, w) = IF DeviceSatisfies(f[r], w) THEN 1 ELSE 0
           /\ LargestOf(f) = Largest(f[r])
<1>0. IsFiniteSet({r})
  BY FS_Singleton
<1>1. AggregateFree(f) = Free(f[r])
  <2>1. PICK g : IsSum(g, FreeOf(f), {r}) /\ AggregateFree(f) = g[{r}]
    BY <1>0, AggregateIsSum
  <2> DEFINE k == FreeOf(f)
             T == {r}
  <2>2. k[r] = Free(f[r]) /\ Free(f[r]) \in Nat
    BY FreeIsCounted DEF FreeOf
  <2>3. T \in SUBSET {r} /\ T # {} /\ {} \in SUBSET {r} /\ IsSum(g, k, {r})
    BY <2>1
  <2> HIDE DEF k, T
  <2>4. First(T) \in T /\ g[T] = k[First(T)] + g[T \ {First(T)}]
    BY <2>3, SumUnfolds
  <2>5. g[{}] = 0
    BY <2>3, SumUnfolds
  <2>6. First(T) = r /\ T \ {First(T)} = {}
    BY <2>4 DEF T
  <2>7. g[T] = k[r] + 0
    BY <2>4, <2>5, <2>6
  <2>8. g[T] = Free(f[r])
    BY <2>2, <2>7
  <2> QED BY <2>1, <2>8 DEF T
<1>2. Satisfying(f, w) = IF DeviceSatisfies(f[r], w) THEN 1 ELSE 0
  <2> DEFINE S == {q \in DOMAIN f : DeviceSatisfies(f[q], w)}
  <2>1. S = IF DeviceSatisfies(f[r], w) THEN {r} ELSE {}
    OBVIOUS
  <2>2. Satisfying(f, w) = Cardinality(S)
    BY DEF Satisfying
  <2> QED BY <2>1, <2>2, FS_Singleton, FS_EmptySet
<1>3. LargestOf(f) = Largest(f[r])
  <2> DEFINE n == Largest(f[r])
  <2>1. n \in Nat
    BY LargestIsLongest
  <2>2. {0} \cup {Largest(f[q]) : q \in DOMAIN f} = {0, n}
    OBVIOUS
  <2>3. LargestOf(f) = Max({0, n})
    BY <2>2 DEF LargestOf
  <2> HIDE DEF n
  <2>4. Max({0, n}) = n
    BY <2>1, MaxZero
  <2> QED BY <2>3, <2>4 DEF n
<1> QED BY <1>1, <1>2, <1>3

(* Reclaiming frees the reclaimable bytes.                                 *)
LEMMA ReclaimFrees ==
    ASSUME NEW d, LegalDevice(d)
    PROVE  LET Q == {i \in DOMAIN d.allocs : Reclaimable(d.allocs[i])}
           IN  /\ AfterReclaim(d).cap \in Nat
               /\ Bytes(d, Q) \in Nat
               /\ Free(AfterReclaim(d)) = Free(d) + Bytes(d, Q)
<1> DEFINE P == {i \in DOMAIN d.allocs : IsProtected(d.allocs[i])}
           Q == {i \in DOMAIN d.allocs : Reclaimable(d.allocs[i])}
           e == Without(d, Q)
<1>1. AfterReclaim(d) = e
  BY DEF AfterReclaim
<1>2. /\ Bytes(d, P) \in Nat /\ Bytes(d, Q) \in Nat
      /\ Bytes(d, P) + Bytes(d, Q) = d.cap - Free(d)
  BY PartsAccount
<1>3. DOMAIN d.allocs \ Q = P /\ P \subseteq DOMAIN d.allocs
  <2>1. \A i \in DOMAIN d.allocs : IsProtected(d.allocs[i]) <=> ~Reclaimable(d.allocs[i])
    BY ProtectedOrNot DEF LegalDevice
  <2> QED BY <2>1
<1> HIDE DEF P, Q
<1>4. LegalDevice(e)
  BY WithoutLegal
<1>5. /\ e.cap = d.cap /\ DOMAIN e.allocs = DOMAIN d.allocs \ Q
      /\ \A i \in DOMAIN d.allocs \ Q : e.allocs[i] = d.allocs[i]
  <2>1. IsDevice(d)
    BY DEF LegalDevice, IsDevice
  <2> QED BY <2>1, WithoutShape
<1> HIDE DEF e
<1>6. DOMAIN e.allocs = P /\ \A i \in P : e.allocs[i] = d.allocs[i]
  BY <1>3, <1>5
<1>7. CellsOf(e, DOMAIN e.allocs) = CellsOf(d, P)
  BY <1>6 DEF CellsOf
<1>8. Free(e) \in Nat /\ e.cap \in Nat /\ e.cap - Free(e) = Cardinality(CellsOf(d, P))
  BY <1>4, <1>7, UsedCounted
<1>9. Bytes(d, P) = Cardinality(CellsOf(d, P))
  BY <1>3, BytesCounted
<1>10. Free(d) \in Nat /\ d.cap \in Nat
  BY UsedCounted
<1> DEFINE cap == d.cap
           fd == Free(d)
           fe == Free(e)
           p == Bytes(d, P)
           q == Bytes(d, Q)
<1>11. /\ cap \in Nat /\ fd \in Nat /\ fe \in Nat /\ p \in Nat /\ q \in Nat
       /\ p + q = cap - fd /\ cap - fe = p
  BY <1>2, <1>5, <1>8, <1>9, <1>10
<1> HIDE DEF cap, fd, fe, p, q
<1>12. fe = fd + q
  BY <1>11
<1> QED BY <1>1, <1>2, <1>8, <1>12 DEF fe, fd, q, Q, e

(* What the three views say of one device, with the numbers they share.    *)
LEMMA ViewsAgree ==
    ASSUME NEW d, LegalDevice(d), NEW w \in LegalDemand,
           w.contiguous = w.perDevice, NeededCount(w) = 1, w.group = NoGroup,
           NEW s, NEW r, DOMAIN s.devices = {r}, s.devices[r] = d, LegalFleet(s.devices),
           Complete(s.gens), s.prov # "UNKNOWN", s.reservations = <<>>
    PROVE  /\ WorkloadMetrics(d, w).fits <=> AnalyzeFit(s, w) = "FIT_NOW"
           /\ AnalyzeFit(s, w) = "FIT_AFTER_RECLAIM" =>
                 /\ LayoutMetrics(d).largest < w.perDevice
                 /\ LayoutMetrics(d).largest + WorkloadMetrics(d, w).opportunity >= w.perDevice
                 /\ LayoutMetrics(d).largest + WorkloadMetrics(d, w).opportunity
                       <= LayoutMetrics(d).free + LayoutMetrics(d).reclaimable
           /\ LayoutMetrics(d).stranded = Stranded(s.devices)
<1> DEFINE f == s.devices
           Q == {i \in DOMAIN d.allocs : Reclaimable(d.allocs[i])}
           e == AfterReclaim(d)
           gone == [q \in DOMAIN f |-> AfterReclaim(f[q])]
           free == Free(d)
           large == Largest(d)
           more == Largest(e)
           want == w.perDevice
           agg == w.aggregate
           got == Bytes(d, Q)
           op == WorkloadMetrics(d, w).opportunity
<1>1. /\ free \in Nat /\ large \in Nat /\ large <= free /\ d.cap \in Nat
  BY LargestIsFree DEF LegalDevice
<1>2. want \in Nat /\ agg \in Nat
  BY DEF LegalDemand
<1>3. /\ e.cap \in Nat /\ got \in Nat /\ Free(e) = free + got
      /\ more \in Nat /\ more <= free + got
  <2>1. e.cap \in Nat /\ got \in Nat /\ Free(e) = free + got
    BY ReclaimFrees
  <2>2. more \in Nat /\ more <= Free(e)
    BY <2>1, LargestIsFree
  <2> QED BY <2>1, <2>2
<1>4. /\ AggregateFree(f) = free
      /\ Satisfying(f, w) = IF DeviceSatisfies(d, w) THEN 1 ELSE 0
      /\ LargestOf(f) = large
  BY <1>1, SingleDevice
<1>5. Satisfying(gone, w) = IF DeviceSatisfies(e, w) THEN 1 ELSE 0
  <2>1. DOMAIN gone = {r} /\ gone[r] = e
    OBVIOUS
  <2> HIDE DEF gone, e
  <2> QED BY <1>3, <2>1, SingleDevice
<1>6. DeviceSatisfies(d, w) <=> large >= want
  BY <1>1, <1>2 DEF DeviceSatisfies
<1>7. DeviceSatisfies(e, w) => more >= want
  BY DEF DeviceSatisfies
<1>8. AnalyzeFit(s, w) =
         IF DOMAIN f = {} THEN "INSUFFICIENT_EVIDENCE"
         ELSE IF AggregateFree(f) < agg THEN "NO_FIT_RAW_CAPACITY"
         ELSE IF Satisfying(f, w) < NeededCount(w) THEN ShortfallCause(f, w)
         ELSE ReservationGate(s.reservations, w)
  BY FitWithoutGroup
<1>9. ReservationGate(s.reservations, w) = "FIT_NOW"
  BY DEF ReservationGate
<1>10. /\ ShortfallCause(f, w) # "FIT_NOW"
       /\ ShortfallCause(f, w) = "FIT_AFTER_RECLAIM" => Satisfying(gone, w) >= 1
  BY DEF ShortfallCause
<1>11. WorkloadMetrics(d, w).fits <=> free >= agg /\ (want > 0 => large >= want)
  BY DEF WorkloadMetrics
<1>12. op = Max({0, more - large})
  BY DEF WorkloadMetrics, Opportunity
<1>13. /\ LayoutMetrics(d).largest = large /\ LayoutMetrics(d).free = free
       /\ LayoutMetrics(d).reclaimable = got
       /\ LayoutMetrics(d).stranded = Max({0, free - large})
  BY DEF LayoutMetrics
<1>14. Stranded(f) = IF free > large THEN free - large ELSE 0
  BY <1>4 DEF Stranded
<1> HIDE DEF f, e, gone, free, large, more, want, agg, got, op
<1>15. DOMAIN f # {}
  BY DEF f
<1>16. AnalyzeFit(s, w) =
          IF free < agg THEN "NO_FIT_RAW_CAPACITY"
          ELSE IF ~(large >= want) THEN ShortfallCause(f, w)
          ELSE "FIT_NOW"
  <2>1. AggregateFree(f) < agg <=> free < agg
    BY <1>4
  <2>2. Satisfying(f, w) < NeededCount(w) <=> ~(large >= want)
    BY <1>4, <1>6
  <2> QED BY <1>8, <1>9, <1>15, <2>1, <2>2
<1>17. WorkloadMetrics(d, w).fits <=> AnalyzeFit(s, w) = "FIT_NOW"
  <2>1. WorkloadMetrics(d, w).fits <=> ~(free < agg) /\ large >= want
    BY <1>1, <1>2, <1>11
  <2> QED BY <1>10, <1>16, <2>1
<1>18. op = IF more > large THEN more - large ELSE 0
  <2> DEFINE x == more - large
  <2>1. x \in Int /\ (x > 0 <=> more > large)
    BY <1>1, <1>3
  <2> HIDE DEF x
  <2>2. Max({0, x}) = IF x > 0 THEN x ELSE 0
    BY <2>1, MaxZero
  <2> QED BY <1>12, <2>1, <2>2 DEF x
<1>19. ASSUME AnalyzeFit(s, w) = "FIT_AFTER_RECLAIM"
       PROVE  large < want /\ large + op >= want /\ large + op <= free + got
  <2>1. ~(large >= want) /\ ShortfallCause(f, w) = "FIT_AFTER_RECLAIM"
    BY <1>16, <1>19
  <2>2. more >= want
    BY <1>5, <1>7, <1>10, <2>1
  <2> QED BY <1>1, <1>2, <1>3, <1>18, <2>1, <2>2
<1>20. LayoutMetrics(d).stranded = Stranded(f)
  <2> DEFINE x == free - large
  <2>1. x \in Int /\ (x > 0 <=> free > large)
    BY <1>1
  <2> HIDE DEF x
  <2>2. Max({0, x}) = IF x > 0 THEN x ELSE 0
    BY <2>1, MaxZero
  <2> QED BY <1>13, <1>14, <2>1, <2>2 DEF x
<1> QED BY <1>13, <1>17, <1>19, <1>20 DEF f, op, want

(* MetricsAgree for one device. *)
SameStory(r) ==
    LET alone  == [snap EXCEPT !.devices = [q \in {r} |-> snap.devices[q]],
                               !.reservations = <<>>]
        one    == [demand EXCEPT !.count = 1, !.group = NoGroup]
        layout == LayoutMetrics(snap.devices[r])
        work   == WorkloadMetrics(snap.devices[r], one)
    IN  /\ work.fits <=> AnalyzeFit(alone, one) = "FIT_NOW"
        /\ AnalyzeFit(alone, one) = "FIT_AFTER_RECLAIM" =>
              /\ layout.largest < one.perDevice
              /\ layout.largest + work.opportunity >= one.perDevice
              /\ layout.largest + work.opportunity <= layout.free + layout.reclaimable
        /\ layout.stranded = Stranded(alone.devices)

(* The metrics of a single device, its fit analysis and its verification   *)
(* tell the same story about a demand for one contiguous span.             *)
THEOREM MetricsAlwaysAgree == Spec => []MetricsAgree
<1>1. AInv => MetricsAgree
  <2> SUFFICES ASSUME AInv, NEW r \in DOMAIN snap.devices, Evidence,
                      demand.contiguous = demand.perDevice
               PROVE  SameStory(r)
    BY Zenon DEF MetricsAgree, SameStory
  <2> DEFINE d == snap.devices[r]
             f == [q \in {r} |-> snap.devices[q]]
             alone == [snap EXCEPT !.devices = f, !.reservations = <<>>]
             one == [demand EXCEPT !.count = 1, !.group = NoGroup]
  <2>0. Loaded
    BY DEF AInv
  <2>1. DOMAIN f = {r} /\ f[r] = d
    OBVIOUS
  <2>2. LegalDevice(d) /\ LegalFleet(f)
    <3>1. LegalDevice(d) /\ r \in Nat
      BY <2>0 DEF Loaded, LegalFleet
    <3>2. IsFiniteSet({r})
      BY FS_Singleton
    <3>3. f = [q \in DOMAIN f |-> f[q]]
      OBVIOUS
    <3> HIDE DEF f, d
    <3> QED BY <2>1, <3>1, <3>2, <3>3 DEF LegalFleet
  <2>3. /\ alone.devices = f /\ alone.reservations = <<>>
        /\ Complete(alone.gens) /\ alone.prov # "UNKNOWN"
    <3> DEFINE dv == snap.devices
               pv == snap.prov
               rs == snap.reservations
               g == [resource |-> 1, allocation |-> 1, reservation |-> 1]
               s == [devices |-> dv, prov |-> pv, reservations |-> rs, gens |-> g,
                     epoch |-> 1, policyGen |-> 1]
    <3>1. snap = s
      BY <2>0 DEF Loaded
    <3>2. Complete(snap.gens) /\ snap.prov # "UNKNOWN" /\ snap.gens = g
      BY <2>0, EvidenceOfSnap
    <3> DEFINE none == <<>>
    <3> HIDE DEF dv, pv, rs, g, f, none
    <3>3. DOMAIN s = {"devices", "prov", "reservations", "gens", "epoch", "policyGen"}
      OBVIOUS
    <3>4. s.gens = g /\ s.prov = pv
      OBVIOUS
    <3> HIDE DEF s
    <3>5. /\ alone.devices = f /\ alone.reservations = none
          /\ alone.gens = g /\ alone.prov = pv
      BY <3>1, <3>3, <3>4 DEF none
    <3> QED BY <3>2, <3>5 DEF pv, none
  <2>4. /\ one \in LegalDemand /\ one.count = 1 /\ one.group = NoGroup
        /\ one.contiguous = one.perDevice
    BY <2>0 DEF Loaded, LegalDemand
  <2>5. NeededCount(one) = 1
    BY <2>4 DEF NeededCount
  <2> HIDE DEF d, f, alone, one
  <2>6. /\ WorkloadMetrics(d, one).fits <=> AnalyzeFit(alone, one) = "FIT_NOW"
        /\ AnalyzeFit(alone, one) = "FIT_AFTER_RECLAIM" =>
              /\ LayoutMetrics(d).largest < one.perDevice
              /\ LayoutMetrics(d).largest + WorkloadMetrics(d, one).opportunity >= one.perDevice
              /\ LayoutMetrics(d).largest + WorkloadMetrics(d, one).opportunity
                    <= LayoutMetrics(d).free + LayoutMetrics(d).reclaimable
        /\ LayoutMetrics(d).stranded = Stranded(alone.devices)
    BY <2>1, <2>2, <2>3, <2>4, <2>5, ViewsAgree
  <2> QED BY <2>6, Zenon DEF SameStory, d, f, alone, one
<1> QED BY <1>1, AInvAlways, PTL

-----------------------------------------------------------------------------
(***************************************************************************)
(* The window search.                                                      *)
(***************************************************************************)

(* What temporal_continuous_fit answers about the window starts from 0 on. *)
LEMMA WindowAnswers ==
    ASSUME NEW rs, LegalTimetable(rs), NEW end \in Nat, NEW required \in Nat
    PROVE  LET found == TemporalContinuousFit(rs, 0, end, required)
               clear(t) == \A i \in DOMAIN rs : Avoids(rs[i], t, required)
           IN  /\ found.earliest \in Nat
               /\ found.result \in {"FOUND", "NONE", "THROWS"}
               /\ \A t \in Nat : t < found.earliest => ~clear(t)
               /\ found.result = "FOUND" => clear(found.earliest)
               /\ found.result # "FOUND" => found.earliest + required > end
               /\ (\A i \in DOMAIN rs : rs[i].end <= end) =>
                     /\ found.result # "THROWS"
                     /\ found.result = "FOUND" => found.earliest + required <= end
<1> DEFINE n == Len(rs)
           bs == ByStart(rs)
           found == TemporalContinuousFit(rs, 0, end, required)
           S == [start : Nat, end : Nat, hard : BOOLEAN]
           Clear(t) == \A i \in DOMAIN rs : Avoids(rs[i], t, required)
<1>1. rs \in Seq(S) /\ \A i \in DOMAIN rs : rs[i].start < rs[i].end
  BY DEF LegalTimetable
<1>2. /\ n \in Nat /\ DOMAIN rs = 1 .. n
      /\ \A i \in 1 .. n : /\ rs[i].start \in Nat /\ rs[i].end \in Nat
                           /\ rs[i].start < rs[i].end
  <2>1. n \in Nat /\ DOMAIN rs = 1 .. n /\ \A i \in 1 .. n : rs[i] \in S
    <3> HIDE DEF S
    <3> QED BY <1>1
  <2>2. \A r \in S : r.start \in Nat /\ r.end \in Nat
    OBVIOUS
  <2> HIDE DEF S, n
  <2> QED BY <1>1, <2>1, <2>2
<1>3. PICK g : /\ IsSweep(g, bs, n, 0, end, required)
               /\ found = SweepAnswer(g[n], 0, end, required)
  <2>1. \A i \in DOMAIN rs : rs[i].start \in Nat
    BY <1>2
  <2>2. rs \in Seq(S)
    BY <1>1
  <2> HIDE DEF S
  <2> QED BY <2>1, <2>2, WindowUnfolds, Zenon
<1>4. /\ \A i \in 1 .. n : \E k \in 1 .. n : bs[i] = rs[k]
      /\ \A k \in 1 .. n : \E i \in 1 .. n : bs[i] = rs[k]
      /\ \A i, j \in 1 .. n : i < j => bs[i].start <= bs[j].start
  <2>1. \A i \in 1 .. n : rs[i].start \in Nat
    BY <1>2
  <2>2. n \in Nat /\ DOMAIN rs = 1 .. n
    BY <1>2
  <2>3. /\ bs = [i \in 1 .. n |-> bs[i]]
        /\ \A i \in 1 .. n : \E k \in 1 .. n : bs[i] = rs[k]
        /\ \A k \in 1 .. n : \E i \in 1 .. n : bs[i] = rs[k]
        /\ \A i, j \in 1 .. n : i < j => bs[i].start <= bs[j].start
    <3> HIDE DEF n
    <3> QED BY <2>1, <2>2, ByStartSorts, Zenon
  <2> QED BY <2>3
<1> HIDE DEF n, bs, found
<1>5. \A i \in 1 .. n : /\ bs[i].start \in Nat /\ bs[i].end \in Nat
                        /\ bs[i].start < bs[i].end
  BY <1>2, <1>4
<1> DEFINE st == g[n]
           c == st.cursor
<1>6. SweepState(st, bs, n, n, 0, end, required)
  BY <1>2, <1>3, <1>4, <1>5, SweepEnds
<1>7. found = IF required = 0 THEN [result |-> "FOUND", earliest |-> 0]
              ELSE IF st.result = "FOUND" THEN [result |-> "FOUND", earliest |-> c]
              ELSE IF c > end THEN [result |-> "THROWS", earliest |-> c]
              ELSE IF end - c >= required THEN [result |-> "FOUND", earliest |-> c]
              ELSE [result |-> "NONE", earliest |-> c]
  BY <1>3 DEF SweepAnswer
<1> HIDE DEF st
<1>8. /\ c \in Nat /\ st.result \in {"SCAN", "FOUND", "LEFT"}
      /\ \A t \in Nat : t < c => \E i \in 1 .. n : ~Avoids(bs[i], t, required)
      /\ c = 0 \/ \E i \in 1 .. n : c = bs[i].end
      /\ st.result = "SCAN" => \A i \in 1 .. n : bs[i].end <= c
      /\ st.result = "FOUND" =>
            /\ \A i \in 1 .. n : Avoids(bs[i], c, required)
            /\ \E i \in 1 .. n : bs[i].start >= c + required
      /\ st.result = "LEFT" => c >= end
  <2>1. \A i \in 1 .. n : i <= n
    BY <1>2
  <2>2. \A t \in Nat : 0 <= t
    OBVIOUS
  <2> QED BY <1>6, <2>1, <2>2 DEF SweepState
<1> HIDE DEF c
<1>9. \A t : Clear(t) <=> \A i \in 1 .. n : Avoids(bs[i], t, required)
  BY <1>2, <1>4
<1>10. CASE required = 0
  <2>1. found.result = "FOUND" /\ found.earliest = 0
    BY <1>7, <1>10
  <2>2. Clear(0)
    BY <1>2, <1>10 DEF Avoids
  <2> HIDE DEF Clear
  <2>3. \A t \in Nat : ~(t < 0)
    OBVIOUS
  <2> QED BY <1>10, <2>1, <2>2, <2>3 DEF found, Clear
<1>11. CASE required # 0
  <2>1. \A t \in Nat : t < c => ~Clear(t)
    BY <1>8, <1>9
  <2>2. st.result = "SCAN" => Clear(c)
    BY <1>8, <1>9 DEF Avoids
  <2>3. st.result = "FOUND" => Clear(c)
    BY <1>8, <1>9
  <2>4. ASSUME \A i \in DOMAIN rs : rs[i].end <= end
        PROVE  c <= end /\ (st.result = "FOUND" => c + required <= end)
    <3>1. \A i \in 1 .. n : bs[i].end <= end
      BY <1>2, <1>4, <2>4
    <3>2. c <= end
      BY <1>8, <3>1
    <3>3. ASSUME st.result = "FOUND" PROVE c + required <= end
      <4>1. PICK i \in 1 .. n : bs[i].start >= c + required
        BY <1>8, <3>3
      <4>2. bs[i].start \in Nat /\ bs[i].end \in Nat /\ bs[i].start < bs[i].end /\ bs[i].end <= end
        BY <1>5, <3>1
      <4> DEFINE b == bs[i].start
                 e == bs[i].end
      <4>3. b \in Nat /\ e \in Nat /\ b < e /\ e <= end /\ b >= c + required
        BY <4>1, <4>2
      <4> HIDE DEF b, e
      <4> QED BY <1>8, <4>3
    <3> QED BY <3>2, <3>3
  <2> HIDE DEF Clear
  <2>5. CASE st.result = "FOUND"
    <3>1. found.result = "FOUND" /\ found.earliest = c
      BY <1>7, <1>11, <2>5
    <3> QED BY <1>8, <2>1, <2>3, <2>4, <2>5, <3>1 DEF found, Clear
  <2>6. CASE st.result # "FOUND" /\ c > end
    <3>1. found.result = "THROWS" /\ found.earliest = c
      BY <1>7, <1>11, <2>6
    <3>2. c + required > end /\ ~(c <= end)
      BY <1>8, <2>6
    <3> QED BY <1>8, <2>1, <2>4, <3>1, <3>2 DEF found, Clear
  <2>7. CASE st.result # "FOUND" /\ ~(c > end) /\ end - c >= required
    <3>1. found.result = "FOUND" /\ found.earliest = c
      BY <1>7, <1>11, <2>7
    <3>2. c + required <= end /\ ~(c >= end)
      BY <1>8, <1>11, <2>7
    <3>3. st.result = "SCAN"
      BY <1>8, <2>7, <3>2
    <3> QED BY <1>8, <2>1, <2>2, <3>1, <3>2, <3>3 DEF found, Clear
  <2>8. CASE st.result # "FOUND" /\ ~(c > end) /\ ~(end - c >= required)
    <3>1. found.result = "NONE" /\ found.earliest = c
      BY <1>7, <1>11, <2>8
    <3>2. c + required > end
      BY <1>8, <2>8
    <3> QED BY <1>8, <2>1, <3>1, <3>2 DEF found, Clear
  <2> QED BY <2>5, <2>6, <2>7, <2>8
<1> QED BY <1>10, <1>11

(* temporal_continuous_fit finds the earliest window within the horizon    *)
(* when there is one, for every timetable, and answers that there is none  *)
(* when there is none and every reservation ends within the horizon.       *)
THEOREM WindowAlwaysExact == Spec => []WindowExact
<1>1. AInv => WindowExact
  <2> SUFFICES ASSUME AInv, demand.duration # NoDuration PROVE WindowExact
    BY DEF WindowExact
  <2> DEFINE rs == snap.reservations
             len == demand.duration
             found == TemporalContinuousFit(rs, 0, Horizon, len)
             Clear(t) == \A i \in DOMAIN rs : Avoids(rs[i], t, len)
  <2>1. LegalTimetable(rs) /\ len \in Nat /\ Horizon \in Nat
    BY FamilyAssumption DEF AInv, Loaded, LegalDemand
  <2>2. \A t : t \in Windows <=> t \in 0 .. Horizon /\ t + len <= Horizon /\ Clear(t)
    BY DEF Windows, Undisturbed, Avoids
  <2>3. /\ found.earliest \in Nat
        /\ found.result \in {"FOUND", "NONE", "THROWS"}
        /\ \A t \in Nat : t < found.earliest => ~Clear(t)
        /\ found.result = "FOUND" => Clear(found.earliest)
        /\ found.result # "FOUND" => found.earliest + len > Horizon
        /\ (\A i \in DOMAIN rs : rs[i].end <= Horizon) =>
              /\ found.result # "THROWS"
              /\ found.result = "FOUND" => found.earliest + len <= Horizon
    <3> HIDE DEF rs, len
    <3> QED BY <2>1, WindowAnswers
  <2> DEFINE c == found.earliest
  <2>4. c \in Nat /\ (c + len > Horizon \/ found.result = "FOUND")
    BY <2>3
  <2>5. \A t \in Nat : Clear(t) => ~(t < c)
    BY <2>3
  <2>6. found.result = "FOUND" => Clear(c)
    BY <2>3
  <2>7. Search = found
    BY DEF Search
  <2> HIDE DEF rs, len, found, Clear, c
  <2>8. \A s \in Windows : found.result = "FOUND" /\ c <= s
    BY <2>1, <2>2, <2>4, <2>5
  <2>9. found.result = "FOUND" /\ c + len <= Horizon => c \in Windows
    BY <2>1, <2>2, <2>4, <2>6
  <2>10. ASSUME NEW s \in Windows PROVE c + len <= Horizon
    BY <2>1, <2>2, <2>4, <2>8, <2>10
  <2>11. /\ Windows = {} /\ \A i \in DOMAIN rs : rs[i].end <= Horizon
         => found.result = "NONE"
    BY <2>3, <2>9 DEF c
  <2> QED BY <2>7, <2>8, <2>9, <2>10, <2>11 DEF WindowExact, c, rs
<1> QED BY <1>1, AInvAlways, PTL

=============================================================================
