------------------------ MODULE ResourceLayoutProofs ------------------------
(***************************************************************************)
(* ResourceLayout: for every word size, capacity and set of ids, the       *)
(* interval map stays a tiling with maximal free regions, and registry,    *)
(* offset index and interval map agree.                                    *)
(***************************************************************************)
EXTENDS ResourceLayout, FiniteSetTheorems, TLAPS

(* What insert_allocation leaves in the interval map: the regions other    *)
(* than f as they were, all outside f, and up to three pieces of f.        *)
SplitShape(id, off, len, f, R) ==
    /\ f \in Nat /\ off \in Nat /\ len \in Nat /\ EndOf(f) \in Nat
    /\ f <= off /\ off + len <= EndOf(f) /\ len > 0 /\ EndOf(f) <= capacity
    /\ DOMAIN R = (DOMAIN regions \ {f}) \cup (IF off > f THEN {f} ELSE {}) \cup {off}
                  \cup (IF off + len < EndOf(f) THEN {off + len} ELSE {})
    /\ \A o \in DOMAIN regions \ {f} :
          R[o] = regions[o] /\ (EndOf(o) <= f \/ o >= EndOf(f))
    /\ R[off] = AllocatedRegion(len, id)
    /\ off > f => R[f] = FreeRegion(off - f)
    /\ off + len < EndOf(f) => R[off + len] = FreeRegion(EndOf(f) - (off + len))

(* An accepted insert splits its free region.                              *)
LEMMA SplitEffect ==
    ASSUME TypeOK, Tiling, NEW id \in Ids, NEW a \in Allocation,
           NEW f \in DOMAIN regions, InsertAccepted(id, a, f)
    PROVE  SplitShape(id, a.offset, a.length, f, SplitRegions(id, a.offset, a.length, f))
<1> DEFINE off == a.offset
           len == a.length
           end == EndOf(f)
           gone == Erase(regions, f)
           left == IF off > f THEN Emplace(gone, f, FreeRegion(off - f)) ELSE gone
           mid == Emplace(left, off, AllocatedRegion(len, id))
           R == SplitRegions(id, off, len, f)
<1>1. capacity \in Nat /\ off \in Nat /\ len \in Nat
  <2>1. capacity \in 0 .. UMax
    BY CapacitiesAssumption DEF TypeOK
  <2>2. off \in 0 .. UMax /\ len \in 0 .. UMax
    BY DEF Allocation, Uint
  <2> QED BY <2>1, <2>2, UMaxAssumption
<1>2. \A o \in DOMAIN regions : o \in Nat /\ regions[o].length \in Nat /\ EndOf(o) \in Nat
  BY <1>1, UMaxAssumption DEF TypeOK, Region, Uint, EndOf
<1>3. /\ f <= off /\ off + len <= end /\ len > 0 /\ end <= capacity
  BY <1>1, <1>2 DEF InsertAccepted, ValidateGeometry, RegionContaining, Tiling
<1>4. \A o \in DOMAIN regions \ {f} : EndOf(o) <= f \/ o >= end
  BY <1>2 DEF Tiling
<1>5. \A o \in DOMAIN regions \ {f} : o # off /\ (off + len < end => o # off + len)
  <2> TAKE o \in DOMAIN regions \ {f}
  <2>1. o < EndOf(o)
    BY <1>2 DEF Tiling, EndOf
  <2> QED BY <2>1, <1>1, <1>2, <1>3, <1>4
<1>6. /\ DOMAIN gone = DOMAIN regions \ {f}
      /\ \A o \in DOMAIN gone : gone[o] = regions[o]
  BY DEF Erase
<1>7. /\ DOMAIN left = DOMAIN gone \cup (IF off > f THEN {f} ELSE {})
      /\ \A o \in DOMAIN gone : left[o] = regions[o]
      /\ off > f => left[f] = FreeRegion(off - f)
  BY <1>6 DEF Emplace
<1>8. /\ DOMAIN mid = DOMAIN left \cup {off}
      /\ \A o \in DOMAIN gone : mid[o] = regions[o]
      /\ off > f => mid[f] = FreeRegion(off - f)
      /\ mid[off] = AllocatedRegion(len, id)
  <2>1. off \notin DOMAIN left
    BY <1>1, <1>2, <1>5, <1>6, <1>7
  <2> QED BY <2>1, <1>7 DEF Emplace
<1>9. R = IF off + len < end
          THEN Emplace(mid, off + len, FreeRegion(end - (off + len)))
          ELSE mid
  BY DEF SplitRegions
<1>10. off + len < end => off + len \notin DOMAIN mid
  BY <1>1, <1>2, <1>3, <1>5, <1>6, <1>7, <1>8
<1>11. /\ DOMAIN R = DOMAIN mid \cup (IF off + len < end THEN {off + len} ELSE {})
       /\ \A o \in DOMAIN mid : R[o] = mid[o]
       /\ off + len < end => R[off + len] = FreeRegion(end - (off + len))
  BY <1>9, <1>10 DEF Emplace
<1> HIDE DEF gone, left, mid, R
<1>12. DOMAIN R = (DOMAIN regions \ {f}) \cup (IF off > f THEN {f} ELSE {}) \cup {off}
                  \cup (IF off + len < end THEN {off + len} ELSE {})
  BY <1>6, <1>7, <1>8, <1>11
<1>13. \A o \in DOMAIN regions \ {f} : R[o] = regions[o]
  BY <1>6, <1>7, <1>8, <1>11
<1>14. /\ R[off] = AllocatedRegion(len, id)
       /\ off > f => R[f] = FreeRegion(off - f)
  BY <1>7, <1>8, <1>11
<1>15. SplitShape(id, off, len, f, R)
  BY <1>1, <1>2, <1>3, <1>4, <1>11, <1>12, <1>13, <1>14 DEF SplitShape
<1> QED BY <1>15 DEF R

(* The numbers of a layout are numbers.                                    *)
LEMMA Numbers ==
    ASSUME TypeOK
    PROVE  /\ capacity \in Nat
           /\ \A o \in DOMAIN regions :
                 o \in Nat /\ o < capacity /\ regions[o].length \in Nat /\ EndOf(o) \in Nat
<1>1. capacity \in 0 .. UMax
  BY CapacitiesAssumption DEF TypeOK
<1>2. \A o \in DOMAIN regions : o \in 0 .. (capacity - 1) /\ regions[o].length \in 0 .. UMax
  BY DEF TypeOK, Region, Uint
<1> QED BY <1>1, <1>2, UMaxAssumption DEF EndOf

(* std::prev and std::next of a region in a tiling are the regions that    *)
(* touch it.                                                               *)
LEMMA Neighbours ==
    ASSUME TypeOK, Tiling, NEW off \in DOMAIN regions, NEW p
    PROVE  /\ p \in Before(off) <=> p \in DOMAIN regions /\ EndOf(p) = off
           /\ p \in After(off) <=> p \in DOMAIN regions /\ p = EndOf(off)
<1> USE Numbers
<1>1. \A o \in DOMAIN regions : o < EndOf(o)
  BY DEF Tiling, EndOf
<1>2. \A o, q \in DOMAIN regions : o < q => EndOf(o) <= q
  BY DEF Tiling
<1>3. \A c \in 0 .. (capacity - 1) : \E o \in DOMAIN regions : o <= c /\ c < EndOf(o)
  BY DEF Tiling
<1>4. ASSUME p \in Before(off) PROVE p \in DOMAIN regions /\ EndOf(p) = off
  <2>1. p \in DOMAIN regions /\ p < off /\ \A q \in DOMAIN regions : q < off => q <= p
    BY <1>4 DEF Before
  <2>2. PICK q \in DOMAIN regions : q <= off - 1 /\ off - 1 < EndOf(q)
    BY <2>1, <1>3
  <2>3. q = p
    BY <2>1, <2>2, <1>2
  <2> QED BY <2>1, <2>2, <2>3, <1>2
<1>5. ASSUME p \in DOMAIN regions, EndOf(p) = off PROVE p \in Before(off)
  BY <1>1, <1>2, <1>5 DEF Before
<1>6. ASSUME p \in After(off) PROVE p \in DOMAIN regions /\ p = EndOf(off)
  <2>1. p \in DOMAIN regions /\ p > off /\ \A q \in DOMAIN regions : q > off => q >= p
    BY <1>6 DEF After
  <2>2. EndOf(off) <= p
    BY <2>1, <1>2
  <2>3. PICK q \in DOMAIN regions : q <= EndOf(off) /\ EndOf(off) < EndOf(q)
    BY <2>1, <2>2, <1>3
  <2>4. q > off
    BY <2>3, <1>1, <1>2
  <2> QED BY <2>1, <2>2, <2>3, <2>4
<1>7. ASSUME p \in DOMAIN regions, p = EndOf(off) PROVE p \in After(off)
  BY <1>1, <1>2, <1>7 DEF After
<1> QED BY <1>4, <1>5, <1>6, <1>7

(* What remove_allocation leaves in the interval map: one free region      *)
(* [s, e) around the freed span, bounded by no free region, and the        *)
(* regions outside it as they were.                                        *)
MergeShape(off, s, e, R) ==
    /\ s \in Nat /\ e \in Nat /\ s <= off /\ EndOf(off) <= e /\ e <= capacity /\ s < e
    /\ \A o \in DOMAIN regions : o < s => EndOf(o) <= s
    /\ \A o \in DOMAIN regions : s <= o /\ o < e => EndOf(o) <= e
    /\ \A o \in DOMAIN regions : s <= o /\ o < e /\ o # off => regions[o].kind = "FREE"
    /\ \A o \in DOMAIN regions : EndOf(o) = s \/ o = e => regions[o].kind # "FREE"
    /\ DOMAIN R = {o \in DOMAIN regions : o < s \/ e <= o} \cup {s}
    /\ R[s] = FreeRegion(e - s)
    /\ \A o \in DOMAIN regions : o < s \/ e <= o => R[o] = regions[o]

(* Removing an allocation merges the free space around it.                 *)
LEMMA MergeEffect ==
    ASSUME TypeOK, Tiling, FreeMaximal, NEW off \in DOMAIN regions,
           NEW len, len = regions[off].length
    PROVE  MergeShape(off, MergedStart(off), MergedEnd(off, len), MergeRegions(off, len))
<1> DEFINE s == MergedStart(off)
           e == MergedEnd(off, len)
           R == MergeRegions(off, len)
<1> USE Numbers
<1>1. \A o \in DOMAIN regions : o < EndOf(o) /\ EndOf(o) <= capacity
  BY DEF Tiling, EndOf
<1>2. \A o, q \in DOMAIN regions : o < q => EndOf(o) <= q
  BY DEF Tiling
<1>3. EndOf(off) = off + len
  BY DEF EndOf
<1>4. \A p : p \in FreeLeft(off) <=>
          p \in DOMAIN regions /\ EndOf(p) = off /\ regions[p].kind = "FREE"
  BY Neighbours DEF FreeLeft
<1>5. \A p : p \in FreeRight(off) <=>
          p \in DOMAIN regions /\ p = EndOf(off) /\ regions[p].kind = "FREE"
  BY Neighbours DEF FreeRight
<1>6. /\ s \in DOMAIN regions /\ s <= off
      /\ FreeLeft(off) = {} => s = off
      /\ FreeLeft(off) # {} => s \in FreeLeft(off) /\ FreeLeft(off) = {s}
  <2>1. CASE FreeLeft(off) = {}
    BY <2>1 DEF MergedStart
  <2>2. CASE FreeLeft(off) # {}
    <3>1. s \in FreeLeft(off)
      BY <2>2 DEF MergedStart
    <3>2. \A p \in FreeLeft(off) : p = s
      BY <3>1, <1>1, <1>2, <1>4
    <3> QED BY <3>1, <3>2, <1>1, <1>4, <2>2
  <2> QED BY <2>1, <2>2
<1>7. /\ e \in Nat /\ EndOf(off) <= e /\ e <= capacity
      /\ FreeRight(off) = {} => e = EndOf(off)
      /\ FreeRight(off) # {} => FreeRight(off) = {EndOf(off)} /\ EndOf(off) \in DOMAIN regions
                                  /\ e = EndOf(EndOf(off))
  <2>1. CASE FreeRight(off) = {}
    BY <2>1, <1>1, <1>3 DEF MergedEnd
  <2>2. CASE FreeRight(off) # {}
    <3>1. FreeRight(off) = {EndOf(off)} /\ EndOf(off) \in DOMAIN regions
      BY <2>2, <1>5
    <3>2. e = EndOf(EndOf(off))
      <4>1. (CHOOSE p \in FreeRight(off) : TRUE) = EndOf(off)
        BY <3>1
      <4> QED BY <4>1, <2>2 DEF MergedEnd
    <3> QED BY <3>1, <3>2, <1>1, <2>2
  <2> QED BY <2>1, <2>2
<1>8. \A o \in DOMAIN regions :
         o \in {off} \cup FreeLeft(off) \cup FreeRight(off) <=> s <= o /\ o < e
  <2> TAKE o \in DOMAIN regions
  <2>1. o = s \/ o = off \/ (FreeRight(off) # {} /\ o = EndOf(off)) <=> s <= o /\ o < e
    BY <1>1, <1>2, <1>4, <1>6, <1>7
  <2> QED BY <2>1, <1>6, <1>7
<1>9. \A o \in DOMAIN regions : s <= o /\ o < e => EndOf(o) <= e /\ (o # off => regions[o].kind = "FREE")
  BY <1>1, <1>2, <1>4, <1>5, <1>6, <1>7, <1>8
<1>10. \A o \in DOMAIN regions : EndOf(o) = s => regions[o].kind # "FREE"
  <2> SUFFICES ASSUME NEW o \in DOMAIN regions, EndOf(o) = s, regions[o].kind = "FREE"
               PROVE  FALSE
    OBVIOUS
  <2>1. CASE s = off
    BY <2>1, <1>1, <1>4, <1>6
  <2>2. CASE s # off
    BY <2>2, <1>4, <1>6 DEF FreeMaximal
  <2> QED BY <2>1, <2>2
<1>11. \A o \in DOMAIN regions : o = e => regions[o].kind # "FREE"
  BY <1>5, <1>7 DEF FreeMaximal
<1> DEFINE absorbed == {off} \cup FreeLeft(off) \cup FreeRight(off)
           rest == [o \in DOMAIN regions \ absorbed |-> regions[o]]
<1>12. R = Emplace(rest, s, FreeRegion(e - s))
  BY DEF MergeRegions
<1>13. s \in absorbed
  BY <1>6
<1>14. /\ DOMAIN R = (DOMAIN regions \ absorbed) \cup {s}
       /\ R[s] = FreeRegion(e - s)
       /\ \A o \in DOMAIN regions \ absorbed : R[o] = regions[o]
  BY <1>12, <1>13 DEF Emplace
<1>15. \A o \in DOMAIN regions : o \notin absorbed <=> o < s \/ e <= o
  BY <1>6, <1>7, <1>8
<1> HIDE DEF absorbed, s, e, R
<1>16. s < e
  BY <1>1, <1>6, <1>7
<1>17. \A o \in DOMAIN regions : o < s => EndOf(o) <= s
  BY <1>2, <1>6
<1>18. DOMAIN R = {o \in DOMAIN regions : o < s \/ e <= o} \cup {s}
  BY <1>14, <1>15
<1>19. MergeShape(off, s, e, R)
  BY <1>6, <1>7, <1>9, <1>10, <1>11, <1>14, <1>15, <1>16, <1>17, <1>18 DEF MergeShape
<1> QED BY <1>19 DEF s, e, R

-----------------------------------------------------------------------------
(***************************************************************************)
(* Cardinalities of the allocations and of the free bytes.                 *)
(***************************************************************************)

(* Removing a part of a finite set.                                        *)
LEMMA CardMinus ==
    ASSUME NEW S, IsFiniteSet(S), NEW I, I \subseteq S
    PROVE  /\ Cardinality(S \ I) = Cardinality(S) - Cardinality(I)
           /\ Cardinality(I) <= Cardinality(S)
           /\ Cardinality(S) \in Nat
<1>1. S \cap I = I
  OBVIOUS
<1>2. Cardinality(S \ I) = Cardinality(S) - Cardinality(S \cap I)
  BY FS_Difference
<1>3. Cardinality(I) <= Cardinality(S)
  BY FS_Subset
<1> QED BY <1>1, <1>2, <1>3, FS_CardinalityType

(* Adding a disjoint finite set.                                           *)
LEMMA CardPlus ==
    ASSUME NEW S, IsFiniteSet(S), NEW I, IsFiniteSet(I), S \cap I = {}
    PROVE  Cardinality(S \cup I) = Cardinality(S) + Cardinality(I)
<1>1. Cardinality(S \cup I) = Cardinality(S) + Cardinality(I) - Cardinality(S \cap I)
  BY FS_Union
<1>2. Cardinality(S) \in Nat /\ Cardinality(I) \in Nat
  BY FS_CardinalityType
<1> QED BY <1>1, <1>2, FS_EmptySet

(* The number of bytes of an allocation is its length.                     *)
LEMMA CardSpan ==
    ASSUME NEW lo \in Nat, NEW n \in Nat, n > 0
    PROVE  IsFiniteSet(lo .. (lo + n - 1)) /\ Cardinality(lo .. (lo + n - 1)) = n
<1> DEFINE hi == lo + n - 1
<1>1. lo \in Int /\ hi \in Int /\ ~(lo > hi) /\ hi - lo + 1 = n
  OBVIOUS
<1> HIDE DEF hi
<1>2. IsFiniteSet(lo .. hi) /\ Cardinality(lo .. hi) = IF lo > hi THEN 0 ELSE hi - lo + 1
  BY <1>1, FS_Interval
<1> QED BY <1>1, <1>2 DEF hi

(* The same for the bytes of an allocation record.                         *)
LEMMA CardCells ==
    ASSUME NEW a, a.offset \in Nat, a.length \in Nat, a.length > 0
    PROVE  IsFiniteSet(Cells(a)) /\ Cardinality(Cells(a)) = a.length
<1> DEFINE lo == a.offset
           n == a.length
<1>1. Cells(a) = lo .. (lo + n - 1) /\ lo \in Nat /\ n \in Nat /\ n > 0
  BY DEF Cells
<1> HIDE DEF lo, n
<1>2. IsFiniteSet(Cells(a)) /\ Cardinality(Cells(a)) = n
  BY <1>1, CardSpan
<1> QED BY <1>2 DEF n

(* The resource has capacity bytes.                                        *)
LEMMA CardResource ==
    ASSUME TypeOK
    PROVE  IsFiniteSet(0 .. (capacity - 1)) /\ Cardinality(0 .. (capacity - 1)) = capacity
<1>1. capacity \in Nat
  BY Numbers
<1>2. CASE capacity = 0
  <2>1. 0 .. (capacity - 1) = {}
    BY <1>2
  <2> QED BY <2>1, <1>2, FS_EmptySet
<1>3. CASE capacity > 0
  <2>1. 0 \in Nat /\ 0 + capacity - 1 = capacity - 1
    BY <1>1
  <2>2. IsFiniteSet(0 .. (0 + capacity - 1)) /\ Cardinality(0 .. (0 + capacity - 1)) = capacity
    BY <1>1, <1>3, <2>1, CardSpan
  <2> QED BY <2>1, <2>2
<1> QED BY <1>1, <1>2, <1>3

(* The free bytes of a layout are finitely many.                           *)
LEMMA FreeCellsFinite ==
    ASSUME TypeOK
    PROVE  /\ IsFiniteSet(FreeCells(capacity, allocations))
           /\ FreeCapacity(capacity, allocations) <= capacity
<1>1. IsFiniteSet(0 .. (capacity - 1)) /\ Cardinality(0 .. (capacity - 1)) = capacity
  BY CardResource
<1>2. FreeCells(capacity, allocations) \in SUBSET (0 .. (capacity - 1))
  BY DEF FreeCells
<1> QED BY <1>1, <1>2, FS_Subset DEF FreeCapacity

(* An allocation occupies its region, inside the resource and apart from   *)
(* every other region.                                                     *)
LEMMA CellsOfAllocation ==
    ASSUME TypeOK, Tiling, Registry, NEW i \in DOMAIN allocations
    PROVE  LET o == allocOffsets[i] IN
           /\ o \in DOMAIN regions /\ o \in Nat /\ EndOf(o) \in Nat /\ EndOf(o) <= capacity
           /\ regions[o].kind = "ALLOCATED"
           /\ allocations[i].offset = o /\ allocations[i].length = regions[o].length
           /\ allocations[i].length \in Nat /\ allocations[i].length > 0
           /\ Cells(allocations[i]) = o .. (EndOf(o) - 1)
           /\ \A f \in DOMAIN regions : f # o =>
                  Cells(allocations[i]) \cap (f .. (EndOf(f) - 1)) = {}
<1> DEFINE o == allocOffsets[i]
<1>1. /\ o \in DOMAIN regions /\ regions[o] = AllocatedRegion(allocations[i].length, i)
      /\ allocations[i].offset = o
  BY DEF Registry
<1>2. regions[o].kind = "ALLOCATED" /\ regions[o].length = allocations[i].length
  BY <1>1 DEF AllocatedRegion
<1>3. o \in Nat /\ EndOf(o) \in Nat /\ regions[o].length \in Nat
  BY <1>1, Numbers
<1>4. EndOf(o) <= capacity /\ regions[o].length > 0
  BY <1>1 DEF Tiling
<1>5. Cells(allocations[i]) = o .. (EndOf(o) - 1)
  BY <1>1, <1>2, <1>3 DEF Cells, EndOf
<1>6. ASSUME NEW f \in DOMAIN regions, f # o
      PROVE  Cells(allocations[i]) \cap (f .. (EndOf(f) - 1)) = {}
  <2>1. f \in Nat /\ EndOf(f) \in Nat
    BY Numbers
  <2>2. EndOf(f) <= o \/ EndOf(o) <= f
    BY <1>1, <1>3, <1>6, <2>1 DEF Tiling
  <2> QED BY <1>3, <1>5, <2>1, <2>2
<1> QED BY <1>1, <1>2, <1>3, <1>4, <1>5, <1>6

(* Two allocations have different offsets.                                 *)
LEMMA OffsetsDistinct ==
    ASSUME Registry, NEW i \in DOMAIN allocations, NEW j \in DOMAIN allocations, i # j
    PROVE  allocOffsets[i] # allocOffsets[j]
<1>1. /\ regions[allocOffsets[i]] = AllocatedRegion(allocations[i].length, i)
      /\ regions[allocOffsets[j]] = AllocatedRegion(allocations[j].length, j)
  BY DEF Registry
<1>2. \A l, x : AllocatedRegion(l, x).id = x
  BY DEF AllocatedRegion
<1>3. regions[allocOffsets[i]].id = i /\ regions[allocOffsets[j]].id = j
  BY <1>1, <1>2
<1> QED BY <1>3

-----------------------------------------------------------------------------
(* The two counters say what the registry implies.                         *)
Counters ==
    /\ IsFiniteSet(DOMAIN allocations)
    /\ allocCount = Cardinality(DOMAIN allocations)
    /\ freeCapacity = FreeCapacity(capacity, allocations)

(* The inductive invariant.  The counters are part of it because checked   *)
(* subtraction keeps them in range only while they are exact.              *)
LayoutInv == TypeOK /\ Tiling /\ FreeMaximal /\ Registry /\ Counters

(* The constructor of ResourceLayout establishes the invariant.            *)
LEMMA InitEstablishes == Init => LayoutInv
<1> SUFFICES ASSUME Init PROVE LayoutInv
  OBVIOUS
<1>1. capacity \in Capacities /\ capacity \in 0 .. UMax /\ capacity \in Nat
  BY CapacitiesAssumption, UMaxAssumption DEF Init
<1>2. DOMAIN EmptyMap = {}
  BY DEF EmptyMap
<1>3. DOMAIN allocations = {} /\ DOMAIN allocOffsets = {}
  BY <1>2 DEF Init
<1>4. capacity = 0 => DOMAIN regions = {}
  BY <1>2 DEF Init
<1>5. capacity # 0 => DOMAIN regions = {0} /\ regions[0] = FreeRegion(capacity)
  BY <1>2 DEF Init, Emplace
<1>6. FreeRegion(capacity) \in Region /\ FreeRegion(capacity).length = capacity
  BY <1>1 DEF FreeRegion, Region, Uint
<1>7. DOMAIN regions \subseteq 0 .. (capacity - 1)
      /\ \A o \in DOMAIN regions : o = 0 /\ regions[o] = FreeRegion(capacity)
  BY <1>1, <1>4, <1>5
<1>8. TypeOK
  <2>1. freeLengths \in [Uint -> Nat]
    BY DEF Init
  <2> QED BY <2>1, <1>1, <1>3, <1>6, <1>7 DEF Init, TypeOK, Uint
<1>9. Tiling
  <2>1. \A o \in DOMAIN regions : EndOf(o) = capacity /\ regions[o].length = capacity
    BY <1>1, <1>6, <1>7 DEF EndOf
  <2> QED BY <2>1, <1>1, <1>4, <1>5, <1>7 DEF Tiling
<1>10. FreeMaximal
  BY <1>1, <1>6, <1>7 DEF FreeMaximal, EndOf
<1>11. Registry
  BY <1>3, <1>6, <1>7 DEF Registry, FreeRegion
<1>12. Counters
  <2>1. UsedCells(allocations) = {}
    BY <1>3 DEF UsedCells
  <2>2. FreeCells(capacity, allocations) = 0 .. (capacity - 1)
    BY <2>1 DEF FreeCells
  <2>3. FreeCapacity(capacity, allocations) = capacity
    BY <2>2, <1>1, FS_Interval DEF FreeCapacity
  <2> QED BY <2>3, <1>3, FS_EmptySet DEF Counters, Init
<1> QED BY <1>8, <1>9, <1>10, <1>11, <1>12 DEF LayoutInv

(* The interval map after an accepted insert_allocation.                   *)
LEMMA InsertKeepsMap ==
    ASSUME TypeOK, Tiling, FreeMaximal, NEW id \in Ids, NEW a \in Allocation,
           NEW f \in DOMAIN regions, InsertAccepted(id, a, f),
           regions' = SplitRegions(id, a.offset, a.length, f), capacity' = capacity
    PROVE  /\ Tiling' /\ FreeMaximal'
           /\ DOMAIN regions' \subseteq 0 .. (capacity - 1)
           /\ \A o \in DOMAIN regions' : regions'[o] \in Region
<1> DEFINE off == a.offset
           len == a.length
           end == EndOf(f)
           R == regions'
<1>0. SplitShape(id, off, len, f, R)
  BY SplitEffect
<1> HIDE DEF R
<1>1. /\ f \in Nat /\ off \in Nat /\ len \in Nat /\ end \in Nat
      /\ f <= off /\ off + len <= end /\ len > 0 /\ end <= capacity
      /\ \A o \in DOMAIN regions \ {f} : R[o] = regions[o] /\ (EndOf(o) <= f \/ o >= end)
      /\ R[off] = AllocatedRegion(len, id)
      /\ off > f => R[f] = FreeRegion(off - f)
      /\ off + len < end => R[off + len] = FreeRegion(end - (off + len))
  BY <1>0 DEF SplitShape
<1>2. \A o : o \in DOMAIN R <=> \/ o \in DOMAIN regions /\ o # f
                                \/ o = f /\ off > f
                                \/ o = off
                                \/ o = off + len /\ off + len < end
  BY <1>0 DEF SplitShape
<1>3. /\ capacity \in Nat /\ capacity <= UMax
      /\ \A o \in DOMAIN regions :
            /\ o \in Nat /\ o < capacity /\ EndOf(o) \in Nat /\ o < EndOf(o)
            /\ EndOf(o) <= capacity /\ EndOf(o) = o + regions[o].length
            /\ regions[o].length \in Nat
  <2>1. capacity \in 0 .. UMax
    BY CapacitiesAssumption DEF TypeOK
  <2> QED BY <2>1, UMaxAssumption, Numbers DEF Tiling, EndOf
<1>4. \A o \in DOMAIN R : EndOf(o)' = o + R[o].length
  BY DEF EndOf, R
<1>5. \A l \in Nat : \A x : FreeRegion(l).length = l /\ FreeRegion(l).kind = "FREE"
                               /\ AllocatedRegion(l, x).length = l
                               /\ AllocatedRegion(l, x).kind = "ALLOCATED"
  BY DEF FreeRegion, AllocatedRegion
<1>6. /\ \A o \in DOMAIN regions \ {f} : EndOf(o)' = EndOf(o)
      /\ EndOf(off)' = off + len
      /\ off > f => EndOf(f)' = off
      /\ off + len < end => EndOf(off + len)' = end
  <2>1. \A o \in DOMAIN regions \ {f} : EndOf(o)' = EndOf(o)
    BY <1>1, <1>2, <1>3, <1>4
  <2>2. EndOf(off)' = off + len
    BY <1>1, <1>2, <1>4, <1>5
  <2>3. off > f => EndOf(f)' = off
    <3> SUFFICES ASSUME off > f PROVE EndOf(f)' = off
      OBVIOUS
    <3>1. off - f \in Nat /\ f \in DOMAIN R
      BY <1>1, <1>2
    <3> QED BY <3>1, <1>1, <1>4, <1>5
  <2>4. off + len < end => EndOf(off + len)' = end
    <3> SUFFICES ASSUME off + len < end PROVE EndOf(off + len)' = end
      OBVIOUS
    <3>1. end - (off + len) \in Nat /\ off + len \in DOMAIN R
      BY <1>1, <1>2
    <3> QED BY <3>1, <1>1, <1>4, <1>5
  <2> QED BY <2>1, <2>2, <2>3, <2>4
<1>7. \A o \in DOMAIN R : /\ o \in Nat /\ o < capacity
                          /\ R[o].length \in 0 .. UMax /\ R[o] \in Region
                          /\ o < EndOf(o)' /\ EndOf(o)' <= capacity /\ R[o].length > 0
  <2> TAKE o \in DOMAIN R
  <2>1. CASE o \in DOMAIN regions /\ o # f
    <3>1. R[o] = regions[o] /\ EndOf(o)' = EndOf(o)
      BY <2>1, <1>1, <1>6
    <3>2. regions[o] \in Region
      BY <2>1 DEF TypeOK
    <3>3. /\ o \in Nat /\ o < capacity /\ o < EndOf(o) /\ EndOf(o) <= capacity
          /\ EndOf(o) = o + regions[o].length /\ regions[o].length \in Nat
      BY <2>1, <1>3
    <3>4. regions[o].length > 0 /\ regions[o].length \in 0 .. UMax
      BY <3>3, <1>3, UMaxAssumption
    <3> QED BY <3>1, <3>2, <3>3, <3>4
  <2>2. CASE o = off
    <3>1. AllocatedRegion(len, id) \in Region
      BY <1>1, <1>3, UMaxAssumption DEF AllocatedRegion, Region, Uint
    <3> QED BY <2>2, <3>1, <1>1, <1>3, <1>5, <1>6, UMaxAssumption
  <2>3. CASE o = f /\ off > f
    <3>1. FreeRegion(off - f) \in Region
      BY <2>3, <1>1, <1>3, UMaxAssumption DEF FreeRegion, Region, Uint
    <3>2. off - f \in Nat /\ off - f > 0 /\ off - f <= UMax
      BY <2>3, <1>1, <1>3, UMaxAssumption
    <3> QED BY <2>3, <3>1, <3>2, <1>1, <1>3, <1>5, <1>6, UMaxAssumption
  <2>4. CASE o = off + len /\ off + len < end
    <3>1. FreeRegion(end - (off + len)) \in Region
      BY <2>4, <1>1, <1>3, UMaxAssumption DEF FreeRegion, Region, Uint
    <3>2. end - (off + len) \in Nat /\ end - (off + len) > 0 /\ end - (off + len) <= UMax
      BY <2>4, <1>1, <1>3, UMaxAssumption
    <3> QED BY <2>4, <3>1, <3>2, <1>1, <1>3, <1>5, <1>6, UMaxAssumption
  <2> QED BY <2>1, <2>2, <2>3, <2>4, <1>2
<1>8. \A o, p \in DOMAIN R : o < p => EndOf(o)' <= p
  <2>1. \A o, p \in DOMAIN regions : o < p => EndOf(o) <= p
    BY DEF Tiling
  <2> QED BY <2>1, <1>1, <1>2, <1>3, <1>6
<1>9. \A c \in 0 .. (capacity - 1) : \E o \in DOMAIN R : o <= c /\ c < EndOf(o)'
  <2> TAKE c \in 0 .. (capacity - 1)
  <2>1. PICK q \in DOMAIN regions : q <= c /\ c < EndOf(q)
    BY DEF Tiling
  <2>2. CASE q # f
    BY <2>1, <2>2, <1>2, <1>6
  <2>3. CASE q = f
    BY <2>1, <2>3, <1>1, <1>2, <1>3, <1>6
  <2> QED BY <2>2, <2>3
<1>10. Tiling'
  BY <1>7, <1>8, <1>9 DEF Tiling, R
<1>11. FreeMaximal'
  <2>1. regions[f].kind = "FREE"
    BY DEF InsertAccepted
  <2>2. \A o \in DOMAIN regions : regions[o].kind = "FREE" /\ EndOf(o) \in DOMAIN regions
                                    => regions[EndOf(o)].kind = "ALLOCATED"
    BY DEF FreeMaximal
  <2>3. \A o \in DOMAIN regions \ {f} : regions[o].kind = "FREE" => EndOf(o) # f
    BY <2>1, <2>2
  <2> SUFFICES ASSUME NEW o \in DOMAIN R, R[o].kind = "FREE", EndOf(o)' \in DOMAIN R
               PROVE  R[EndOf(o)'].kind = "ALLOCATED"
    BY DEF FreeMaximal, R
  <2>4. CASE o \in DOMAIN regions /\ o # f
    <3>1. EndOf(o)' = EndOf(o) /\ regions[o].kind = "FREE" /\ EndOf(o) # f
      BY <2>3, <2>4, <1>1, <1>6
    <3>2. EndOf(o) \in DOMAIN regions
      BY <2>4, <3>1, <1>1, <1>2, <1>3
    <3> QED BY <2>2, <2>4, <3>1, <3>2, <1>1
  <2>5. CASE o = off
    BY <2>5, <1>1, <1>5
  <2>6. CASE o = f /\ off > f
    BY <2>6, <1>1, <1>5, <1>6
  <2>7. CASE o = off + len /\ off + len < end
    <3>1. EndOf(o)' = end /\ end \in DOMAIN regions /\ end # f
      BY <2>7, <1>1, <1>2, <1>3, <1>6
    <3> QED BY <2>1, <2>2, <3>1, <1>1
  <2> QED BY <2>4, <2>5, <2>6, <2>7, <1>2
<1> QED BY <1>3, <1>7, <1>10, <1>11 DEF R

(* The interval map after remove_allocation.                               *)
LEMMA RemoveKeepsMap ==
    ASSUME TypeOK, Tiling, FreeMaximal, NEW off \in DOMAIN regions,
           NEW len, len = regions[off].length,
           regions' = MergeRegions(off, len), capacity' = capacity
    PROVE  /\ Tiling' /\ FreeMaximal'
           /\ DOMAIN regions' \subseteq 0 .. (capacity - 1)
           /\ \A o \in DOMAIN regions' : regions'[o] \in Region
<1> DEFINE R == regions'
<1>0. PICK s, e : MergeShape(off, s, e, R)
  BY MergeEffect
<1> HIDE DEF R
<1>1. /\ s \in Nat /\ e \in Nat /\ s <= off /\ EndOf(off) <= e /\ e <= capacity /\ s < e
      /\ \A o \in DOMAIN regions : o < s => EndOf(o) <= s
      /\ \A o \in DOMAIN regions : s <= o /\ o < e => EndOf(o) <= e
      /\ \A o \in DOMAIN regions : EndOf(o) = s \/ o = e => regions[o].kind # "FREE"
      /\ R[s] = FreeRegion(e - s)
      /\ \A o \in DOMAIN regions : o < s \/ e <= o => R[o] = regions[o]
  BY <1>0 DEF MergeShape
<1>2. \A o : o \in DOMAIN R <=> o = s \/ (o \in DOMAIN regions /\ (o < s \/ e <= o))
  BY <1>0 DEF MergeShape
<1>3. /\ capacity \in Nat /\ capacity <= UMax
      /\ \A o \in DOMAIN regions :
            /\ o \in Nat /\ o < capacity /\ EndOf(o) \in Nat /\ o < EndOf(o)
            /\ EndOf(o) <= capacity /\ EndOf(o) = o + regions[o].length
            /\ regions[o].length \in Nat
  <2>1. capacity \in 0 .. UMax
    BY CapacitiesAssumption DEF TypeOK
  <2> QED BY <2>1, UMaxAssumption, Numbers DEF Tiling, EndOf
<1>4. FreeRegion(e - s).length = e - s /\ FreeRegion(e - s).kind = "FREE"
      /\ FreeRegion(e - s) \in Region
  BY <1>1, <1>3, UMaxAssumption DEF FreeRegion, Region, Uint
<1>5. /\ EndOf(s)' = e
      /\ \A o \in DOMAIN regions : o < s \/ e <= o => EndOf(o)' = EndOf(o)
  <2>1. \A o \in DOMAIN R : EndOf(o)' = o + R[o].length
    BY DEF EndOf, R
  <2>2. EndOf(s)' = e
    BY <2>1, <1>1, <1>2, <1>4
  <2> QED BY <2>1, <2>2, <1>1, <1>2, <1>3
<1>6. \A o \in DOMAIN R : /\ o \in Nat /\ o < capacity /\ R[o] \in Region
                          /\ R[o].length > 0 /\ EndOf(o)' <= capacity
  <2> TAKE o \in DOMAIN R
  <2>1. CASE o = s
    BY <2>1, <1>1, <1>3, <1>4, <1>5
  <2>2. CASE o \in DOMAIN regions /\ (o < s \/ e <= o)
    BY <2>2, <1>1, <1>3, <1>5 DEF TypeOK
  <2> QED BY <2>1, <2>2, <1>2
<1>7. \A o, p \in DOMAIN R : o < p => EndOf(o)' <= p
  <2>1. \A o, p \in DOMAIN regions : o < p => EndOf(o) <= p
    BY DEF Tiling
  <2> QED BY <2>1, <1>1, <1>2, <1>3, <1>5
<1>8. \A c \in 0 .. (capacity - 1) : \E o \in DOMAIN R : o <= c /\ c < EndOf(o)'
  <2> TAKE c \in 0 .. (capacity - 1)
  <2>1. PICK q \in DOMAIN regions : q <= c /\ c < EndOf(q)
    BY DEF Tiling
  <2>2. CASE q < s \/ e <= q
    <3>1. q \in DOMAIN R /\ EndOf(q)' = EndOf(q)
      BY <2>2, <1>2, <1>5
    <3> QED BY <2>1, <3>1
  <2>3. CASE s <= q /\ q < e
    <3>1. s \in DOMAIN R /\ s <= c /\ c < EndOf(s)'
      BY <2>1, <2>3, <1>1, <1>2, <1>3, <1>5
    <3> QED BY <3>1
  <2> QED BY <2>2, <2>3, <1>1, <1>3
<1>9. Tiling'
  BY <1>6, <1>7, <1>8 DEF Tiling, R
<1>10. FreeMaximal'
  <2> SUFFICES ASSUME NEW o \in DOMAIN R, R[o].kind = "FREE", EndOf(o)' \in DOMAIN R
               PROVE  R[EndOf(o)'].kind = "ALLOCATED"
    BY DEF FreeMaximal, R
  <2>1. \A q \in DOMAIN regions : regions[q].kind \in {"FREE", "ALLOCATED"}
    BY DEF TypeOK, Region
  <2>2. CASE o = s
    BY <2>1, <2>2, <1>1, <1>2, <1>5
  <2>3. CASE o \in DOMAIN regions /\ (o < s \/ e <= o)
    <3>1. EndOf(o)' = EndOf(o) /\ regions[o].kind = "FREE" /\ EndOf(o) # s
      BY <2>3, <1>1, <1>5
    <3>2. EndOf(o) \in DOMAIN regions /\ (EndOf(o) < s \/ e <= EndOf(o))
      BY <2>3, <3>1, <1>2
    <3>3. regions[EndOf(o)].kind = "ALLOCATED"
      BY <2>3, <3>1, <3>2 DEF FreeMaximal
    <3> QED BY <3>1, <3>2, <3>3, <1>1
  <2> QED BY <2>2, <2>3, <1>2
<1> QED BY <1>3, <1>6, <1>9, <1>10 DEF R

(* free_lengths_ stays a multiset of words.                                *)
LEMMA BagTypes ==
    ASSUME NEW bag \in [Uint -> Nat], NEW l \in Uint
    PROVE  AddFree(bag, l) \in [Uint -> Nat] /\ ConsumeFree(bag, l) \in [Uint -> Nat]
BY DEF AddFree, ConsumeFree

(* An interval inside another.                                             *)
LEMMA SubInterval ==
    ASSUME NEW x \in Nat, NEW y \in Nat, NEW lo \in Nat, NEW hi \in Nat, lo <= x, y <= hi
    PROVE  x .. (y - 1) \subseteq lo .. (hi - 1)
OBVIOUS

(* The bytes of an accepted insert exist and are free.                     *)
LEMMA AcceptedFree ==
    ASSUME LayoutInv, NEW id \in Ids, NEW a \in Allocation, NEW f \in DOMAIN regions,
           InsertAccepted(id, a, f)
    PROVE  /\ Cells(a) \subseteq FreeCells(capacity, allocations)
           /\ Cells(a) \cap UsedCells(allocations) = {}
           /\ a.offset \in Nat /\ a.length \in Nat /\ a.length > 0
           /\ a.offset + a.length <= capacity
           /\ FreeCapacity(capacity, allocations) \in Nat
           /\ Cardinality(FreeCells(capacity, allocations) \ Cells(a))
                = FreeCapacity(capacity, allocations) - a.length
           /\ a.length <= FreeCapacity(capacity, allocations)
<1> USE DEF LayoutInv
<1>0. /\ f \in Nat /\ a.offset \in Nat /\ a.length \in Nat /\ EndOf(f) \in Nat
      /\ f <= a.offset /\ a.offset + a.length <= EndOf(f) /\ a.length > 0
      /\ EndOf(f) <= capacity /\ capacity \in Nat
  BY SplitEffect, Numbers DEF SplitShape
<1>1. Cells(a) = a.offset .. (a.offset + a.length - 1)
  BY DEF Cells
<1>2. Cells(a) \subseteq f .. (EndOf(f) - 1) /\ Cells(a) \subseteq 0 .. (capacity - 1)
  <2>1. /\ a.offset + a.length \in Nat /\ a.offset + a.length <= capacity
        /\ 0 \in Nat /\ 0 <= a.offset
    BY <1>0
  <2>2. Cells(a) \subseteq f .. (EndOf(f) - 1)
    BY <1>0, <1>1, <2>1, SubInterval
  <2>3. Cells(a) \subseteq 0 .. (capacity - 1)
    BY <1>0, <1>1, <2>1, SubInterval
  <2> QED BY <2>2, <2>3
<1>3. \A i \in DOMAIN allocations : Cells(allocations[i]) \cap Cells(a) = {}
  <2> TAKE i \in DOMAIN allocations
  <2>1. regions[f].kind = "FREE"
    BY DEF InsertAccepted
  <2>2. f # allocOffsets[i]
    BY <2>1, CellsOfAllocation
  <2>3. Cells(allocations[i]) \cap (f .. (EndOf(f) - 1)) = {}
    BY <2>2, CellsOfAllocation
  <2> QED BY <2>3, <1>2
<1>4. Cells(a) \cap UsedCells(allocations) = {}
  BY <1>3 DEF UsedCells
<1>5. Cells(a) \subseteq FreeCells(capacity, allocations)
  BY <1>2, <1>4 DEF FreeCells
<1>6. IsFiniteSet(FreeCells(capacity, allocations))
  BY FreeCellsFinite
<1>7. /\ Cardinality(FreeCells(capacity, allocations) \ Cells(a))
            = Cardinality(FreeCells(capacity, allocations)) - a.length
       /\ a.length <= Cardinality(FreeCells(capacity, allocations))
       /\ Cardinality(FreeCells(capacity, allocations)) \in Nat
  <2>1. Cardinality(Cells(a)) = a.length
    BY <1>0, CardCells
  <2> QED BY <2>1, <1>5, <1>6, CardMinus
<1> QED BY <1>0, <1>4, <1>5, <1>7 DEF FreeCapacity

(* The bytes of an accepted insert are free and stop being free; the       *)
(* counters follow.                                                        *)
LEMMA InsertCounts ==
    ASSUME LayoutInv, NEW id \in Ids, NEW a \in Allocation, NEW f \in DOMAIN regions,
           InsertAccepted(id, a, f), allocations' = Emplace(allocations, id, a),
           capacity' = capacity
    PROVE  /\ Cells(a) \subseteq FreeCells(capacity, allocations)
           /\ FreeCapacity(capacity, allocations)' = FreeCapacity(capacity, allocations) - a.length
           /\ FreeCapacity(capacity, allocations) \in Nat
           /\ a.length \in Nat /\ a.length <= FreeCapacity(capacity, allocations)
           /\ IsFiniteSet(DOMAIN allocations')
           /\ Cardinality(DOMAIN allocations') = Cardinality(DOMAIN allocations) + 1
<1> USE DEF LayoutInv
<1>6. id \notin DOMAIN allocations
  BY DEF InsertAccepted
<1>7. /\ DOMAIN allocations' = DOMAIN allocations \cup {id}
      /\ allocations'[id] = a
      /\ \A i \in DOMAIN allocations : allocations'[i] = allocations[i]
  BY <1>6 DEF Emplace
<1>8. UsedCells(allocations)' = UsedCells(allocations) \cup Cells(a)
  <2>1. UsedCells(allocations)' = UNION {Cells(allocations'[i]) : i \in DOMAIN allocations'}
    BY DEF UsedCells, Cells
  <2>2. UsedCells(allocations) = UNION {Cells(allocations[i]) : i \in DOMAIN allocations}
    BY DEF UsedCells
  <2> QED BY <2>1, <2>2, <1>7
<1>9. FreeCells(capacity, allocations)' = FreeCells(capacity, allocations) \ Cells(a)
  BY <1>8 DEF FreeCells
<1>12. FreeCapacity(capacity, allocations)' = FreeCapacity(capacity, allocations) - a.length
  BY <1>9, AcceptedFree DEF FreeCapacity
<1>13. /\ IsFiniteSet(DOMAIN allocations')
       /\ Cardinality(DOMAIN allocations') = Cardinality(DOMAIN allocations) + 1
  BY <1>6, <1>7, FS_AddElement DEF Counters
<1> QED BY <1>12, <1>13, AcceptedFree

(* insert_allocation preserves the invariant.                              *)
LEMMA InsertPreserves ==
    ASSUME LayoutInv, NEW id \in Ids, NEW a \in Allocation, InsertAllocation(id, a)
    PROVE  LayoutInv'
<1> USE DEF LayoutInv
<1>1. PICK f \in DOMAIN regions :
        /\ InsertAccepted(id, a, f)
        /\ regions' = SplitRegions(id, a.offset, a.length, f)
        /\ freeLengths' = SplitFreeLengths(a.offset, a.length, f)
        /\ allocations' = Emplace(allocations, id, a)
        /\ allocOffsets' = Assign(allocOffsets, id, a.offset)
        /\ freeCapacity' = freeCapacity - a.length
        /\ allocCount' = allocCount + 1
        /\ capacity' = capacity
  BY DEF InsertAllocation
<1>2. SplitShape(id, a.offset, a.length, f, regions')
  BY <1>1, SplitEffect
<1>3. /\ Tiling' /\ FreeMaximal'
      /\ DOMAIN regions' \subseteq 0 .. (capacity - 1)
      /\ \A o \in DOMAIN regions' : regions'[o] \in Region
  BY <1>1, InsertKeepsMap
<1>4. Counters'
  <2>1. freeCapacity' = FreeCapacity(capacity, allocations)'
    BY <1>1, InsertCounts DEF Counters
  <2> QED BY <2>1, <1>1, InsertCounts DEF Counters
<1>5. id \notin DOMAIN allocations /\ id \notin DOMAIN allocOffsets
  BY <1>1 DEF InsertAccepted, Registry
<1>6. /\ DOMAIN allocations' = DOMAIN allocations \cup {id}
      /\ allocations'[id] = a
      /\ \A i \in DOMAIN allocations : allocations'[i] = allocations[i]
  BY <1>1, <1>5 DEF Emplace
<1>7. /\ DOMAIN allocOffsets' = DOMAIN allocOffsets \cup {id}
      /\ allocOffsets'[id] = a.offset
      /\ \A i \in DOMAIN allocOffsets : allocOffsets'[i] = allocOffsets[i]
  BY <1>1, <1>5 DEF Assign
<1>8. TypeOK'
  <2>1. freeLengths' \in [Uint -> Nat]
    <3> DEFINE off == a.offset
               len == a.length
               end == EndOf(f)
               gone == ConsumeFree(freeLengths, regions[f].length)
               left == IF off > f THEN AddFree(gone, off - f) ELSE gone
    <3>1. capacity \in 0 .. UMax
      BY CapacitiesAssumption DEF TypeOK
    <3>2. /\ f \in Nat /\ off \in Nat /\ len \in Nat /\ end \in Nat
          /\ f <= off /\ off + len <= end /\ end <= capacity
      BY <1>2 DEF SplitShape
    <3>3. gone \in [Uint -> Nat]
      BY BagTypes DEF TypeOK, Region
    <3>4. left \in [Uint -> Nat]
      <4>1. off > f => off - f \in Uint
        BY <3>1, <3>2, UMaxAssumption DEF Uint
      <4> HIDE DEF gone
      <4> QED BY <4>1, <3>3, BagTypes
    <3>5. off + len < end => end - (off + len) \in Uint
      BY <3>1, <3>2, UMaxAssumption DEF Uint
    <3>6. freeLengths' = IF off + len < end THEN AddFree(left, end - (off + len)) ELSE left
      BY <1>1 DEF SplitFreeLengths
    <3> HIDE DEF left
    <3> QED BY <3>4, <3>5, <3>6, BagTypes
  <2>2. freeCapacity' \in Uint
    <3>1. /\ freeCapacity \in Nat /\ freeCapacity <= UMax
          /\ freeCapacity = FreeCapacity(capacity, allocations)
      BY UMaxAssumption DEF Counters, TypeOK, Uint
    <3>2. a.length \in Nat /\ a.length <= FreeCapacity(capacity, allocations)
      BY <1>1, AcceptedFree
    <3> QED BY <1>1, <3>1, <3>2, UMaxAssumption DEF Uint
  <2>3. allocCount' \in Nat
    BY <1>1 DEF TypeOK
  <2>4. a.offset \in Uint
    BY DEF Allocation
  <2> QED BY <2>1, <2>2, <2>3, <2>4, <1>1, <1>3, <1>6, <1>7 DEF TypeOK
<1>9. Registry'
  <2>1. DOMAIN allocOffsets' = DOMAIN allocations'
    BY <1>6, <1>7 DEF Registry
  <2>2. ASSUME NEW i \in DOMAIN allocations'
        PROVE  /\ allocOffsets'[i] = allocations'[i].offset
               /\ allocOffsets'[i] \in DOMAIN regions'
               /\ regions'[allocOffsets'[i]] = AllocatedRegion(allocations'[i].length, i)
    <3>1. CASE i = id
      BY <3>1, <1>2, <1>6, <1>7 DEF SplitShape
    <3>2. CASE i \in DOMAIN allocations
      <4>1. allocOffsets[i] # f
        BY <3>2, <1>1, CellsOfAllocation DEF InsertAccepted
      <4> QED BY <3>2, <4>1, <1>2, <1>6, <1>7 DEF SplitShape, Registry
    <3> QED BY <3>1, <3>2, <1>6
  <2>3. ASSUME NEW o \in DOMAIN regions'
        PROVE  /\ regions'[o].kind = "ALLOCATED" =>
                     /\ regions'[o].id \in DOMAIN allocations'
                     /\ allocOffsets'[regions'[o].id] = o
               /\ regions'[o].kind = "FREE" => regions'[o] = FreeRegion(regions'[o].length)
    <3>1. CASE o \in DOMAIN regions \ {f}
      <4>1. regions'[o] = regions[o]
        BY <3>1, <1>2 DEF SplitShape
      <4>2. regions[o].kind = "ALLOCATED" =>
               regions[o].id \in DOMAIN allocations /\ allocOffsets[regions[o].id] = o
        BY <3>1 DEF Registry
      <4>3. regions[o].kind = "FREE" => regions[o] = FreeRegion(regions[o].length)
        BY <3>1 DEF Registry
      <4> QED BY <4>1, <4>2, <4>3, <1>6, <1>7 DEF Registry
    <3>2. CASE o = a.offset
      BY <3>2, <1>2, <1>6, <1>7 DEF SplitShape, AllocatedRegion
    <3>3. CASE o = f /\ a.offset > f
      BY <3>3, <1>2 DEF SplitShape, FreeRegion
    <3>4. CASE o = a.offset + a.length /\ a.offset + a.length < EndOf(f)
      BY <3>4, <1>2 DEF SplitShape, FreeRegion
    <3> QED BY <3>1, <3>2, <3>3, <3>4, <1>2 DEF SplitShape
  <2> QED BY <2>1, <2>2, <2>3 DEF Registry, AllocatedRegion, FreeRegion
<1> QED BY <1>3, <1>4, <1>8, <1>9

(* Giving back the bytes of an allocation stays within the resource.       *)
LEMMA Removable ==
    ASSUME LayoutInv, NEW id \in DOMAIN allocations
    PROVE  LET F == FreeCells(capacity, allocations)
               I == Cells(allocations[id])
           IN  /\ I \subseteq 0 .. (capacity - 1)
               /\ Cardinality(F \cup I) = Cardinality(F) + allocations[id].length
               /\ Cardinality(F \cup I) <= capacity
               /\ Cardinality(F) \in Nat
               /\ Cardinality(DOMAIN allocations) \in Nat
               /\ Cardinality(DOMAIN allocations) > 0
<1> USE DEF LayoutInv
<1> DEFINE F == FreeCells(capacity, allocations)
           I == Cells(allocations[id])
<1>1. LET o == allocOffsets[id] IN
      /\ o \in DOMAIN regions /\ o \in Nat /\ EndOf(o) \in Nat /\ EndOf(o) <= capacity
      /\ I = o .. (EndOf(o) - 1)
      /\ allocations[id].offset \in Nat
      /\ allocations[id].length \in Nat /\ allocations[id].length > 0
  BY CellsOfAllocation
<1>2. I \subseteq 0 .. (capacity - 1)
  BY <1>1, Numbers
<1>3. I \cap F = {}
  BY DEF FreeCells, UsedCells
<1>4. IsFiniteSet(F) /\ IsFiniteSet(I) /\ Cardinality(I) = allocations[id].length
  BY <1>1, FreeCellsFinite, CardCells
<1>5. /\ Cardinality(F \cup I) = Cardinality(F) + allocations[id].length
      /\ Cardinality(F) \in Nat
  <2>1. F \cap I = {}
    BY <1>3
  <2> HIDE DEF F, I
  <2> QED BY <2>1, <1>4, CardPlus, FS_CardinalityType
<1>6. Cardinality(F \cup I) <= capacity
  <2>1. IsFiniteSet(0 .. (capacity - 1)) /\ Cardinality(0 .. (capacity - 1)) = capacity
    BY CardResource
  <2>2. F \cup I \in SUBSET (0 .. (capacity - 1))
    BY <1>2 DEF FreeCells
  <2> QED BY <2>1, <2>2, FS_Subset
<1>7. Cardinality(DOMAIN allocations) \in Nat /\ Cardinality(DOMAIN allocations) > 0
  BY FS_CardinalityType, FS_EmptySet DEF Counters
<1> QED BY <1>2, <1>5, <1>6, <1>7

(* The bytes of a removed allocation were used and become free; the        *)
(* counters follow.                                                        *)
LEMMA RemoveCounts ==
    ASSUME LayoutInv, NEW id \in DOMAIN allocations,
           allocations' = Erase(allocations, id), capacity' = capacity
    PROVE  /\ FreeCapacity(capacity, allocations)'
                = FreeCapacity(capacity, allocations) + allocations[id].length
           /\ FreeCapacity(capacity, allocations) \in Nat
           /\ FreeCapacity(capacity, allocations) + allocations[id].length <= capacity
           /\ IsFiniteSet(DOMAIN allocations')
           /\ Cardinality(DOMAIN allocations') = Cardinality(DOMAIN allocations) - 1
           /\ Cardinality(DOMAIN allocations) \in Nat /\ Cardinality(DOMAIN allocations) > 0
<1> USE DEF LayoutInv
<1> DEFINE F == FreeCells(capacity, allocations)
           I == Cells(allocations[id])
<1>1. LET o == allocOffsets[id] IN
      /\ o \in DOMAIN regions /\ o \in Nat /\ EndOf(o) \in Nat /\ EndOf(o) <= capacity
      /\ I = o .. (EndOf(o) - 1)
      /\ allocations[id].offset \in Nat
      /\ allocations[id].length \in Nat /\ allocations[id].length > 0
  BY CellsOfAllocation
<1>2. I \subseteq 0 .. (capacity - 1)
  BY Removable
<1>4. /\ DOMAIN allocations' = DOMAIN allocations \ {id}
      /\ \A i \in DOMAIN allocations' : allocations'[i] = allocations[i]
  BY DEF Erase
<1>5. \A i \in DOMAIN allocations' : Cells(allocations[i]) \cap I = {}
  <2> TAKE i \in DOMAIN allocations'
  <2>1. i \in DOMAIN allocations /\ i # id
    BY <1>4
  <2>2. allocOffsets[i] # allocOffsets[id]
    BY <2>1, OffsetsDistinct
  <2>3. Cells(allocations[i]) \cap (allocOffsets[id] .. (EndOf(allocOffsets[id]) - 1)) = {}
    BY <2>1, <2>2, <1>1, CellsOfAllocation
  <2> QED BY <2>3, <1>1
<1>6. UsedCells(allocations)' = UsedCells(allocations) \ I
  <2>1. UsedCells(allocations)' = UNION {Cells(allocations'[i]) : i \in DOMAIN allocations'}
    BY DEF UsedCells, Cells
  <2>2. UsedCells(allocations) = UNION {Cells(allocations[i]) : i \in DOMAIN allocations}
    BY DEF UsedCells
  <2>3. \A i \in DOMAIN allocations : i = id \/ i \in DOMAIN allocations'
    BY <1>4
  <2> QED BY <2>1, <2>2, <2>3, <1>4, <1>5
<1>7. FreeCells(capacity, allocations)' = F \cup I
  BY <1>2, <1>6 DEF FreeCells
<1>11. FreeCapacity(capacity, allocations)' = Cardinality(F \cup I)
  BY <1>7 DEF FreeCapacity
<1>12. FreeCapacity(capacity, allocations) = Cardinality(F)
  BY DEF FreeCapacity
<1>13. /\ IsFiniteSet(DOMAIN allocations')
       /\ Cardinality(DOMAIN allocations') = Cardinality(DOMAIN allocations) - 1
  BY <1>4, FS_RemoveElement DEF Counters
<1> QED BY <1>11, <1>12, <1>13, Removable

(* remove_allocation preserves the invariant.                              *)
LEMMA RemovePreserves ==
    ASSUME LayoutInv, NEW id \in Ids, RemoveAllocation(id)
    PROVE  LayoutInv'
<1> USE DEF LayoutInv
<1> DEFINE off == allocOffsets[id]
           len == allocations[id].length
<1>1. /\ id \in DOMAIN allocations
      /\ regions' = MergeRegions(off, len)
      /\ freeLengths' = MergeFreeLengths(off, len)
      /\ freeCapacity' = freeCapacity + len
      /\ allocCount' = allocCount - 1
      /\ allocations' = Erase(allocations, id)
      /\ allocOffsets' = Erase(allocOffsets, id)
      /\ capacity' = capacity
  BY DEF RemoveAllocation
<1>2. off \in DOMAIN regions /\ len = regions[off].length /\ regions[off].kind = "ALLOCATED"
  BY <1>1, CellsOfAllocation
<1>3. PICK s, e : s = MergedStart(off) /\ e = MergedEnd(off, len)
                  /\ MergeShape(off, s, e, regions')
  BY <1>1, <1>2, MergeEffect
<1>4. /\ Tiling' /\ FreeMaximal'
      /\ DOMAIN regions' \subseteq 0 .. (capacity - 1)
      /\ \A o \in DOMAIN regions' : regions'[o] \in Region
  <2> HIDE DEF off, len
  <2> QED BY <1>1, <1>2, RemoveKeepsMap
<1>5. Counters'
  BY <1>1, RemoveCounts DEF Counters
<1>6. /\ DOMAIN allocations' = DOMAIN allocations \ {id}
      /\ \A i \in DOMAIN allocations' : allocations'[i] = allocations[i]
  BY <1>1 DEF Erase
<1>7. /\ DOMAIN allocOffsets' = DOMAIN allocOffsets \ {id}
      /\ \A i \in DOMAIN allocOffsets' : allocOffsets'[i] = allocOffsets[i]
  BY <1>1 DEF Erase
<1>8. capacity \in 0 .. UMax
  BY CapacitiesAssumption DEF TypeOK
<1>9. freeLengths' \in [Uint -> Nat]
  <2> DEFINE left == IF FreeLeft(off) = {} THEN freeLengths
                     ELSE ConsumeFree(freeLengths, regions[MergedStart(off)].length)
             nxt == CHOOSE p \in FreeRight(off) : TRUE
             right == IF FreeRight(off) = {} THEN left
                      ELSE ConsumeFree(left, regions[nxt].length)
  <2>1. \A o \in DOMAIN regions : regions[o].length \in Uint
    BY DEF TypeOK, Region
  <2>2. FreeLeft(off) # {} => MergedStart(off) \in DOMAIN regions
    BY DEF MergedStart, FreeLeft, Before
  <2>3. FreeRight(off) # {} => nxt \in DOMAIN regions
    BY DEF FreeRight, After
  <2>4. left \in [Uint -> Nat]
    BY <2>1, <2>2, BagTypes DEF TypeOK
  <2>5. right \in [Uint -> Nat]
    <3> HIDE DEF left, nxt
    <3> QED BY <2>1, <2>3, <2>4, BagTypes
  <2>6. e - s \in Uint
    BY <1>3, <1>8, UMaxAssumption DEF MergeShape, Uint
  <2>7. freeLengths' = AddFree(right, e - s)
    BY <1>1, <1>3 DEF MergeFreeLengths
  <2> HIDE DEF right
  <2> QED BY <2>5, <2>6, <2>7, BagTypes
<1>10. TypeOK'
  <2>1. freeCapacity' \in Uint
    <3>1. allocations[id].length \in Nat
      BY <1>1, CellsOfAllocation
    <3>2. freeCapacity \in Nat /\ freeCapacity + allocations[id].length <= capacity
      BY <1>1, RemoveCounts DEF Counters
    <3>3. freeCapacity' = freeCapacity + allocations[id].length
      BY <1>1
    <3> QED BY <3>1, <3>2, <3>3, <1>8, UMaxAssumption DEF Uint
  <2>2. allocCount' \in Nat
    BY <1>1, RemoveCounts DEF Counters
  <2> QED BY <2>1, <2>2, <1>1, <1>4, <1>6, <1>7, <1>9 DEF TypeOK
<1>11. Registry'
  <2>1. DOMAIN allocOffsets' = DOMAIN allocations'
    BY <1>6, <1>7 DEF Registry
  <2>2. \A o \in DOMAIN regions : regions[o].kind = "ALLOCATED" /\ o # off =>
            o \in DOMAIN regions' /\ regions'[o] = regions[o] /\ o # s
    <3> TAKE o \in DOMAIN regions
    <3> HAVE regions[o].kind = "ALLOCATED" /\ o # off
    <3>1. o < s \/ e <= o
      BY <1>3, Numbers DEF MergeShape
    <3> QED BY <3>1, <1>3, Numbers DEF MergeShape
  <2>3. ASSUME NEW i \in DOMAIN allocations'
        PROVE  /\ allocOffsets'[i] = allocations'[i].offset
               /\ allocOffsets'[i] \in DOMAIN regions'
               /\ regions'[allocOffsets'[i]] = AllocatedRegion(allocations'[i].length, i)
    <3>1. i \in DOMAIN allocations /\ i # id
      BY <1>6
    <3>2. allocOffsets[i] \in DOMAIN regions /\ regions[allocOffsets[i]].kind = "ALLOCATED"
      BY <3>1, CellsOfAllocation
    <3>3. allocOffsets[i] # off
      BY <3>1, <1>1, OffsetsDistinct
    <3> QED BY <2>1, <2>2, <3>1, <3>2, <3>3, <1>6, <1>7 DEF Registry
  <2>4. ASSUME NEW o \in DOMAIN regions'
        PROVE  /\ regions'[o].kind = "ALLOCATED" =>
                     /\ regions'[o].id \in DOMAIN allocations'
                     /\ allocOffsets'[regions'[o].id] = o
               /\ regions'[o].kind = "FREE" => regions'[o] = FreeRegion(regions'[o].length)
    <3>1. CASE o = s
      BY <3>1, <1>3 DEF MergeShape, FreeRegion
    <3>2. CASE o \in DOMAIN regions /\ (o < s \/ e <= o)
      <4>1. regions'[o] = regions[o] /\ o # off
        BY <3>2, <1>2, <1>3, Numbers DEF MergeShape, Tiling, EndOf
      <4>2. regions[o].kind = "ALLOCATED" =>
               /\ regions[o].id \in DOMAIN allocations /\ allocOffsets[regions[o].id] = o
               /\ regions[o].id # id
        BY <3>2, <4>1 DEF Registry
      <4>3. regions[o].kind = "FREE" => regions[o] = FreeRegion(regions[o].length)
        BY <3>2 DEF Registry
      <4> QED BY <4>1, <4>2, <4>3, <2>1, <1>6, <1>7
    <3> QED BY <3>1, <3>2, <1>3 DEF MergeShape
  <2> QED BY <2>1, <2>3, <2>4 DEF Registry, AllocatedRegion, FreeRegion
<1> QED BY <1>4, <1>5, <1>10, <1>11

(* update_allocation preserves the invariant: the geometry is unchanged.   *)
LEMMA UpdatePreserves ==
    ASSUME LayoutInv, NEW id \in Ids, NEW a \in Allocation, UpdateAllocation(id, a)
    PROVE  LayoutInv'
<1> USE DEF LayoutInv
<1>1. /\ id \in DOMAIN allocations
      /\ allocations[id].offset = a.offset /\ allocations[id].length = a.length
      /\ allocations' = Assign(allocations, id, a)
      /\ allocOffsets' = Assign(allocOffsets, id, a.offset)
      /\ UNCHANGED <<capacity, regions, freeLengths, freeCapacity, allocCount>>
  BY DEF UpdateAllocation
<1>2. /\ DOMAIN allocations' = DOMAIN allocations /\ DOMAIN allocOffsets' = DOMAIN allocOffsets
      /\ \A i \in DOMAIN allocations : i # id => allocations'[i] = allocations[i]
      /\ allocations'[id] = a
      /\ \A i \in DOMAIN allocOffsets : i # id => allocOffsets'[i] = allocOffsets[i]
      /\ allocOffsets'[id] = a.offset
  BY <1>1 DEF Assign, Registry
<1>3. \A i \in DOMAIN allocations :
         /\ allocOffsets'[i] = allocOffsets[i]
         /\ allocations'[i].offset = allocations[i].offset
         /\ allocations'[i].length = allocations[i].length
  BY <1>1, <1>2 DEF Registry
<1>4. TypeOK'
  BY <1>1, <1>2, <1>3 DEF TypeOK, Registry
<1>5. Tiling' /\ FreeMaximal'
  BY <1>1 DEF Tiling, FreeMaximal, EndOf
<1>6. Registry'
  BY <1>1, <1>2, <1>3 DEF Registry, AllocatedRegion, FreeRegion
<1>7. Counters'
  <2>1. \A i \in DOMAIN allocations : Cells(allocations'[i]) = Cells(allocations[i])
    BY <1>3 DEF Cells
  <2>2. UsedCells(allocations)' = UNION {Cells(allocations'[i]) : i \in DOMAIN allocations'}
    BY DEF UsedCells, Cells
  <2>3. UsedCells(allocations)' = UsedCells(allocations)
    BY <2>1, <2>2, <1>2 DEF UsedCells
  <2>4. FreeCapacity(capacity, allocations)' = FreeCapacity(capacity, allocations)
    BY <2>3, <1>1 DEF FreeCapacity, FreeCells
  <2> QED BY <2>4, <1>1, <1>2 DEF Counters
<1> QED BY <1>4, <1>5, <1>6, <1>7

(* The invariant holds after any sequence of insert_allocation,            *)
(* update_allocation and remove_allocation calls.                          *)
THEOREM LayoutInvariant == Spec => []LayoutInv
<1>1. Init => LayoutInv
  BY InitEstablishes
<1>2. LayoutInv /\ [Next]_vars => LayoutInv'
  <2> SUFFICES ASSUME LayoutInv, [Next]_vars PROVE LayoutInv'
    OBVIOUS
  <2>1. ASSUME NEW id \in Ids, NEW a \in Allocation, InsertAllocation(id, a)
        PROVE  LayoutInv'
    BY <2>1, InsertPreserves
  <2>2. ASSUME NEW id \in Ids, NEW a \in Allocation, UpdateAllocation(id, a)
        PROVE  LayoutInv'
    BY <2>2, UpdatePreserves
  <2>3. ASSUME NEW id \in Ids, RemoveAllocation(id)
        PROVE  LayoutInv'
    BY <2>3, RemovePreserves
  <2>4. CASE UNCHANGED vars
    BY <2>4 DEF vars, LayoutInv, TypeOK, Tiling, FreeMaximal, Registry, Counters, EndOf,
                FreeCapacity, FreeCells, UsedCells, Cells
  <2> QED BY <2>1, <2>2, <2>3, <2>4 DEF Next
<1> QED BY <1>1, <1>2, PTL DEF Spec

(* Every field of the layout keeps its type: in particular free_capacity_  *)
(* never leaves the machine word and alloc_count_ never goes below zero.   *)
THEOREM TypeCorrect == Spec => []TypeOK
<1>1. LayoutInv => TypeOK
  BY DEF LayoutInv
<1> QED BY <1>1, LayoutInvariant, PTL

(* The interval map always covers the resource without gap or overlap.     *)
THEOREM AlwaysTiled == Spec => []Tiling
<1>1. LayoutInv => Tiling
  BY DEF LayoutInv
<1> QED BY <1>1, LayoutInvariant, PTL

(* Adjacent free regions are always merged.                                *)
THEOREM AlwaysMaximal == Spec => []FreeMaximal
<1>1. LayoutInv => FreeMaximal
  BY DEF LayoutInv
<1> QED BY <1>1, LayoutInvariant, PTL

(* Registry, offset index and interval map never disagree:                 *)
(* remove_allocation always finds the region it looks for.                 *)
THEOREM AlwaysRegistered == Spec => []Registry
<1>1. LayoutInv => Registry
  BY DEF LayoutInv
<1> QED BY <1>1, LayoutInvariant, PTL

(* insert_allocation accepts no allocation whose id is taken or whose      *)
(* bytes are not all there and free, and every other one that is not       *)
(* stale, for every word size.  The proof shows the equivalence that the   *)
(* code has: the generation makes no difference.                           *)
THEOREM InsertDecidesExactly == Spec => []InsertExact
<1>1. LayoutInv => InsertExact
  <2> USE DEF LayoutInv
  <2> SUFFICES ASSUME LayoutInv, NEW id \in Ids, NEW a \in Allocation
               PROVE  (\E f \in DOMAIN regions : InsertAccepted(id, a, f))
                         <=> CanInsert(capacity, allocations, id, a)
    BY DEF InsertExact
  <2>1. ASSUME NEW f \in DOMAIN regions, InsertAccepted(id, a, f)
        PROVE  CanInsert(capacity, allocations, id, a)
    <3>1. /\ Cells(a) \cap UsedCells(allocations) = {}
          /\ a.length \in Nat /\ a.length > 0 /\ a.offset + a.length <= capacity
      BY <2>1, AcceptedFree
    <3>2. id \notin DOMAIN allocations
      BY <2>1 DEF InsertAccepted
    <3> QED BY <3>1, <3>2 DEF CanInsert
  <2>2. ASSUME CanInsert(capacity, allocations, id, a)
        PROVE  \E f \in DOMAIN regions : InsertAccepted(id, a, f)
    <3>1. capacity \in 0 .. UMax /\ a.offset \in 0 .. UMax /\ a.length \in 0 .. UMax
      BY CapacitiesAssumption DEF TypeOK, Allocation, Uint
    <3>2. /\ a.length > 0 /\ a.offset + a.length <= capacity /\ id \notin DOMAIN allocations
          /\ Cells(a) \cap UsedCells(allocations) = {}
      BY <2>2, <3>1, UMaxAssumption DEF CanInsert
    <3>3. ValidateGeometry(a.offset, a.length)
      <4>1. (a.offset + a.length) % (UMax + 1) = a.offset + a.length
        BY <3>1, <3>2, UMaxAssumption
      <4> QED BY <4>1, <3>1, <3>2, UMaxAssumption DEF ValidateGeometry
    <3>4. PICK f \in DOMAIN regions : f <= a.offset /\ a.offset < EndOf(f)
      BY <3>1, <3>2, UMaxAssumption DEF Tiling
    <3>5. f \in Nat /\ EndOf(f) \in Nat /\ EndOf(f) <= capacity
      BY Numbers DEF Tiling
    <3>6. RegionContaining(f, a.offset)
      BY <3>1, <3>4, <3>5, Numbers, UMaxAssumption DEF RegionContaining, Tiling
    <3>7. \A o \in DOMAIN regions : regions[o].kind = "ALLOCATED" =>
             o .. (EndOf(o) - 1) \subseteq UsedCells(allocations)
      <4> TAKE o \in DOMAIN regions
      <4> HAVE regions[o].kind = "ALLOCATED"
      <4>1. regions[o].id \in DOMAIN allocations /\ allocOffsets[regions[o].id] = o
        BY DEF Registry
      <4>2. Cells(allocations[regions[o].id]) = o .. (EndOf(o) - 1)
        BY <4>1, CellsOfAllocation
      <4> QED BY <4>1, <4>2 DEF UsedCells
    <3>8. \A o \in DOMAIN regions : regions[o].kind \in {"FREE", "ALLOCATED"}
      BY DEF TypeOK, Region
    <3>9. Cells(a) = a.offset .. (a.offset + a.length - 1)
      BY DEF Cells
    <3>10. regions[f].kind = "FREE"
      <4>1. a.offset \in f .. (EndOf(f) - 1) /\ a.offset \in Cells(a)
        BY <3>1, <3>2, <3>4, <3>5, <3>9, UMaxAssumption
      <4> QED BY <4>1, <3>2, <3>7, <3>8
    <3>11. a.offset + a.length <= EndOf(f)
      <4> SUFFICES ASSUME EndOf(f) < a.offset + a.length PROVE FALSE
        BY <3>1, <3>5, UMaxAssumption
      <4>1. EndOf(f) \in 0 .. (capacity - 1) /\ EndOf(f) \in Cells(a)
        BY <3>1, <3>2, <3>4, <3>5, <3>9, UMaxAssumption
      <4>2. PICK q \in DOMAIN regions : q <= EndOf(f) /\ EndOf(f) < EndOf(q)
        BY <4>1 DEF Tiling
      <4>3. q = EndOf(f)
        <5>1. q \in Nat /\ EndOf(q) \in Nat /\ f < EndOf(f)
          BY <3>1, <3>4, <3>5, Numbers, UMaxAssumption
        <5>2. (q < f => EndOf(q) <= f) /\ (f < q => EndOf(f) <= q)
          BY DEF Tiling
        <5> QED BY <5>1, <5>2, <4>2, <3>5
      <4>4. regions[q].kind = "ALLOCATED"
        <5>1. EndOf(f) \in DOMAIN regions
          BY <4>2, <4>3
        <5> QED BY <5>1, <4>3, <3>10 DEF FreeMaximal
      <4>5. EndOf(f) \in q .. (EndOf(q) - 1)
        BY <4>2, <4>3, <3>5, Numbers
      <4> QED BY <4>1, <4>2, <4>4, <4>5, <3>2, <3>7
    <3> QED BY <3>2, <3>3, <3>6, <3>10, <3>11 DEF InsertAccepted
  <2> QED BY <2>1, <2>2
<1> QED BY <1>1, LayoutInvariant, PTL

(* No checked arithmetic of insert_allocation, remove_allocation or        *)
(* used_capacity() ever throws, so no call leaves the layout half-done.    *)
THEOREM ArithmeticNeverThrows == Spec => []NeverThrows
<1>1. LayoutInv => NeverThrows
  <2> USE DEF LayoutInv
  <2> SUFFICES ASSUME LayoutInv PROVE NeverThrows
    OBVIOUS
  <2>1. capacity \in 0 .. UMax
    BY CapacitiesAssumption DEF TypeOK
  <2>2. ASSUME NEW a \in Allocation, ValidateGeometry(a.offset, a.length)
        PROVE  a.offset + a.length <= UMax
    <3>1. a.offset \in 0 .. UMax /\ a.length \in 0 .. UMax
      BY DEF Allocation, Uint
    <3> QED BY <2>1, <2>2, <3>1, UMaxAssumption DEF ValidateGeometry
  <2>3. ASSUME NEW id \in Ids, NEW a \in Allocation, NEW f \in DOMAIN regions,
               InsertAccepted(id, a, f)
        PROVE  a.length <= freeCapacity
    BY <2>3, AcceptedFree DEF Counters
  <2>4. ASSUME NEW id \in DOMAIN allocations
        PROVE  freeCapacity + allocations[id].length <= UMax /\ allocCount > 0
    <3>1. freeCapacity + allocations[id].length <= capacity /\ allocCount > 0
      BY Removable DEF Counters, FreeCapacity
    <3>2. freeCapacity \in Nat /\ allocations[id].length \in Nat
      BY Removable, CellsOfAllocation DEF Counters, FreeCapacity
    <3> QED BY <3>1, <3>2, <2>1, UMaxAssumption
  <2>5. freeCapacity <= capacity
    BY FreeCellsFinite DEF Counters
  <2> QED BY <2>2, <2>3, <2>4, <2>5 DEF NeverThrows
<1> QED BY <1>1, LayoutInvariant, PTL

-----------------------------------------------------------------------------
(***************************************************************************)
(* ResourceLayout implements CellMap: for every word size, capacity and    *)
(* set of ids, an insert grants free bytes, a remove releases the bytes of *)
(* that allocation, and nothing else changes the owner of a byte.          *)
(***************************************************************************)

(* What the refinement mapping says, in terms of the registry.             *)
ByteOwners ==
    \A c \in 0 .. (capacity - 1) :
        /\ OwnerOf(c) \in DOMAIN allocations \cup {NoId}
        /\ \A id \in DOMAIN allocations :
              OwnerOf(c) = id <=> c \in Cells(allocations[id])

(* The region over a byte carries the id of the allocation that holds it.  *)
LEMMA OwnersFromRegistry == LayoutInv => ByteOwners
<1> SUFFICES ASSUME LayoutInv, NEW c \in 0 .. (capacity - 1)
             PROVE  /\ OwnerOf(c) \in DOMAIN allocations \cup {NoId}
                    /\ \A id \in DOMAIN allocations :
                          OwnerOf(c) = id <=> c \in Cells(allocations[id])
  BY DEF ByteOwners
<1> USE DEF LayoutInv
<1>0. capacity \in Nat /\ c \in Nat
      /\ \A o \in DOMAIN regions : o \in Nat /\ EndOf(o) \in Nat
  BY Numbers
<1> DEFINE o == CHOOSE q \in DOMAIN regions : q <= c /\ c < EndOf(q)
<1>1. o \in DOMAIN regions /\ o <= c /\ c < EndOf(o)
  BY DEF Tiling
<1>2. OwnerOf(c) = regions[o].id
  BY DEF OwnerOf
<1> HIDE DEF o
<1>3. \A q \in DOMAIN regions : q <= c /\ c < EndOf(q) => q = o
  <2> SUFFICES ASSUME NEW q \in DOMAIN regions, q <= c, c < EndOf(q), q # o PROVE FALSE
    OBVIOUS
  <2>1. q < o => EndOf(q) <= o
    BY <1>1 DEF Tiling
  <2>2. o < q => EndOf(o) <= q
    BY <1>1 DEF Tiling
  <2> QED BY <1>0, <1>1, <2>1, <2>2
<1>4. ASSUME NEW id \in DOMAIN allocations
      PROVE  c \in Cells(allocations[id]) <=> allocOffsets[id] = o
  <2>1. /\ allocOffsets[id] \in DOMAIN regions
        /\ Cells(allocations[id]) = allocOffsets[id] .. (EndOf(allocOffsets[id]) - 1)
    BY CellsOfAllocation
  <2>2. c \in Cells(allocations[id]) <=>
           allocOffsets[id] <= c /\ c < EndOf(allocOffsets[id])
    BY <1>0, <2>1
  <2> QED BY <1>1, <1>3, <2>1, <2>2
<1>5. \A id \in DOMAIN allocations : regions[allocOffsets[id]].id = id
  <2> TAKE id \in DOMAIN allocations
  <2>1. regions[allocOffsets[id]] = AllocatedRegion(allocations[id].length, id)
    BY DEF Registry
  <2>2. \A l, x : AllocatedRegion(l, x).id = x
    BY DEF AllocatedRegion
  <2> QED BY <2>1, <2>2
<1>6. CASE regions[o].kind = "ALLOCATED"
  <2>1. regions[o].id \in DOMAIN allocations /\ allocOffsets[regions[o].id] = o
    BY <1>1, <1>6 DEF Registry
  <2> QED BY <1>2, <1>4, <1>5, <2>1
<1>7. CASE regions[o].kind = "FREE"
  <2>1. regions[o] = FreeRegion(regions[o].length)
    BY <1>1, <1>7 DEF Registry
  <2>2. regions[o].id = NoId
    BY <2>1 DEF FreeRegion
  <2>3. \A id \in DOMAIN allocations : allocOffsets[id] # o
    <3>1. \A id \in DOMAIN allocations : regions[allocOffsets[id]].kind = "ALLOCATED"
      BY CellsOfAllocation
    <3> QED BY <1>7, <3>1
  <2>4. NoId \notin DOMAIN allocations
    BY NoIdAssumption DEF TypeOK
  <2> QED BY <1>2, <1>4, <2>2, <2>3, <2>4
<1>8. regions[o].kind \in {"FREE", "ALLOCATED"}
  BY <1>1 DEF TypeOK, Region
<1> QED BY <1>6, <1>7, <1>8

(* The owner of every byte: what the refinement mapping substitutes.       *)
Owners == [c \in 0 .. (capacity - 1) |-> OwnerOf(c)]

(* A new layout is a map of unowned bytes.                                 *)
LEMMA InitImplements == Init /\ ByteOwners => Abstract!Init
<1> SUFFICES ASSUME Init, ByteOwners PROVE Abstract!Init
  OBVIOUS
<1>1. capacity \in Capacities /\ DOMAIN allocations = {}
  BY DEF Init, EmptyMap
<1>2. \A c \in 0 .. (capacity - 1) : OwnerOf(c) = NoId
  BY <1>1 DEF ByteOwners
<1>3. Owners = [c \in 0 .. (capacity - 1) |-> NoId]
  BY <1>2 DEF Owners
<1> QED BY <1>1, <1>3 DEF Abstract!Init, Owners

(* insert_allocation is a grant.                                           *)
LEMMA InsertGrants ==
    ASSUME LayoutInv, LayoutInv', ByteOwners, ByteOwners', NEW id \in Ids,
           NEW a \in Allocation, InsertAllocation(id, a)
    PROVE  Abstract!Grant(id, a.offset, a.length)
<1>1. PICK f \in DOMAIN regions : InsertAccepted(id, a, f)
  BY DEF InsertAllocation
<1>2. capacity' = capacity /\ allocations' = Emplace(allocations, id, a)
      /\ id \notin DOMAIN allocations
  BY <1>1 DEF InsertAllocation, InsertAccepted
<1>3. /\ DOMAIN allocations' = DOMAIN allocations \cup {id} /\ allocations'[id] = a
      /\ \A i \in DOMAIN allocations : allocations'[i] = allocations[i]
  BY <1>2 DEF Emplace
<1>4. /\ Cells(a) = a.offset .. (a.offset + a.length - 1) /\ a.length > 0
      /\ Cells(a) \subseteq 0 .. (capacity - 1)
      /\ \A i \in DOMAIN allocations : Cells(a) \cap Cells(allocations[i]) = {}
  BY <1>1, AcceptedFree DEF Cells, FreeCells, UsedCells
<1>5. NoId # id /\ NoId \notin DOMAIN allocations
  BY NoIdAssumption DEF LayoutInv, TypeOK
<1>6. \A c \in 0 .. (capacity - 1) : OwnerOf(c) # id
  BY <1>2, <1>5 DEF ByteOwners
<1>7. \A c \in Cells(a) : OwnerOf(c) = NoId
  BY <1>4 DEF ByteOwners
<1>8. \A c \in 0 .. (capacity - 1) :
         OwnerOf(c)' = IF c \in Cells(a) THEN id ELSE OwnerOf(c)
  <2> SUFFICES ASSUME NEW c \in 0 .. (capacity - 1)
               PROVE  OwnerOf(c)' = IF c \in Cells(a) THEN id ELSE OwnerOf(c)
    OBVIOUS
  <2>1. /\ OwnerOf(c)' \in DOMAIN allocations' \cup {NoId}
        /\ \A i \in DOMAIN allocations' : OwnerOf(c)' = i <=> c \in Cells(allocations'[i])
    BY <1>2 DEF ByteOwners
  <2>2. /\ OwnerOf(c) \in DOMAIN allocations \cup {NoId}
        /\ \A i \in DOMAIN allocations : OwnerOf(c) = i <=> c \in Cells(allocations[i])
    BY DEF ByteOwners
  <2> QED BY <1>3, <1>5, <2>1, <2>2
<1>9. Owners' = [c \in 0 .. (capacity - 1) |-> IF c \in Cells(a) THEN id ELSE OwnerOf(c)]
  BY <1>2, <1>8 DEF Owners
<1> QED BY <1>4, <1>6, <1>7, <1>9 DEF Abstract!Grant, Abstract!Held, Owners

(* remove_allocation is a release.                                         *)
LEMMA RemoveReleases ==
    ASSUME LayoutInv, LayoutInv', ByteOwners, ByteOwners', NEW id \in Ids,
           RemoveAllocation(id)
    PROVE  Abstract!Release(id)
<1>1. id \in DOMAIN allocations /\ capacity' = capacity
      /\ allocations' = Erase(allocations, id)
  BY DEF RemoveAllocation
<1>2. /\ DOMAIN allocations' = DOMAIN allocations \ {id}
      /\ \A i \in DOMAIN allocations' : allocations'[i] = allocations[i]
  BY <1>1 DEF Erase
<1>3. NoId # id
  BY NoIdAssumption
<1>4. \E c \in 0 .. (capacity - 1) : OwnerOf(c) = id
  <2>1. /\ allocOffsets[id] \in DOMAIN regions /\ allocOffsets[id] \in Nat
        /\ Cells(allocations[id]) = allocOffsets[id] .. (EndOf(allocOffsets[id]) - 1)
        /\ EndOf(allocOffsets[id]) \in Nat /\ EndOf(allocOffsets[id]) <= capacity
    BY <1>1, CellsOfAllocation DEF LayoutInv
  <2>2. allocOffsets[id] < EndOf(allocOffsets[id])
    BY <2>1, Numbers DEF LayoutInv, Tiling, EndOf
  <2>3. capacity \in Nat
    BY Numbers DEF LayoutInv
  <2>4. allocOffsets[id] \in Cells(allocations[id]) /\ allocOffsets[id] \in 0 .. (capacity - 1)
    BY <2>1, <2>2, <2>3
  <2> QED BY <1>1, <2>4 DEF ByteOwners
<1>5. \A c \in 0 .. (capacity - 1) :
         OwnerOf(c)' = IF OwnerOf(c) = id THEN NoId ELSE OwnerOf(c)
  <2> SUFFICES ASSUME NEW c \in 0 .. (capacity - 1)
               PROVE  OwnerOf(c)' = IF OwnerOf(c) = id THEN NoId ELSE OwnerOf(c)
    OBVIOUS
  <2>1. /\ OwnerOf(c)' \in DOMAIN allocations' \cup {NoId}
        /\ \A i \in DOMAIN allocations' : OwnerOf(c)' = i <=> c \in Cells(allocations'[i])
    BY <1>1 DEF ByteOwners
  <2>2. /\ OwnerOf(c) \in DOMAIN allocations \cup {NoId}
        /\ \A i \in DOMAIN allocations : OwnerOf(c) = i <=> c \in Cells(allocations[i])
    BY DEF ByteOwners
  <2>3. NoId \notin DOMAIN allocations
    BY NoIdAssumption DEF LayoutInv, TypeOK
  <2> QED BY <1>2, <2>1, <2>2, <2>3
<1>6. Owners' = [c \in 0 .. (capacity - 1) |-> IF OwnerOf(c) = id THEN NoId ELSE OwnerOf(c)]
  BY <1>1, <1>5 DEF Owners
<1> QED BY <1>4, <1>6 DEF Abstract!Release, Abstract!Held, Owners

(* update_allocation changes no owner.                                     *)
LEMMA UpdateStutters ==
    ASSUME LayoutInv, NEW id \in Ids, NEW a \in Allocation, UpdateAllocation(id, a)
    PROVE  Owners' = Owners
<1>1. capacity' = capacity /\ regions' = regions
  BY DEF UpdateAllocation
<1> QED BY <1>1 DEF Owners, OwnerOf, EndOf

(* The layout keeps the promise of the byte-ownership map.                 *)
THEOREM LayoutImplementsCellMap == Spec => ImplementsCellMap
<1>1. Init /\ ByteOwners => Abstract!Init
  BY InitImplements
<1>2. LayoutInv /\ LayoutInv' /\ ByteOwners /\ ByteOwners' /\ [Next]_vars
         => [Abstract!Next]_Owners
  <2> SUFFICES ASSUME LayoutInv, LayoutInv', ByteOwners, ByteOwners', [Next]_vars
               PROVE  Abstract!Next \/ UNCHANGED Owners
    OBVIOUS
  <2>1. ASSUME NEW id \in Ids, NEW a \in Allocation, InsertAllocation(id, a)
        PROVE  Abstract!Next
    <3>1. a.offset \in 0 .. UMax /\ a.length \in 0 .. UMax
      BY DEF Allocation, Uint
    <3> QED BY <2>1, <3>1, InsertGrants DEF Abstract!Next
  <2>2. ASSUME NEW id \in Ids, RemoveAllocation(id) PROVE Abstract!Next
    BY <2>2, RemoveReleases DEF Abstract!Next
  <2>3. ASSUME NEW id \in Ids, NEW a \in Allocation, UpdateAllocation(id, a)
        PROVE  UNCHANGED Owners
    BY <2>3, UpdateStutters
  <2>4. CASE UNCHANGED vars
    BY <2>4 DEF vars, Owners, OwnerOf, EndOf
  <2> QED BY <2>1, <2>2, <2>3, <2>4 DEF Next
<1>3. Spec => [](LayoutInv /\ ByteOwners)
  BY LayoutInvariant, OwnersFromRegistry, PTL
<1> QED BY <1>1, <1>2, <1>3, PTL DEF Spec, ImplementsCellMap, Abstract!Spec, Owners

=============================================================================
