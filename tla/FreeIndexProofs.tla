--------------------------- MODULE FreeIndexProofs ---------------------------
(***************************************************************************)
(* The incremental indexes of ResourceLayout are exact: free_lengths_ is   *)
(* the multiset of the lengths of the maximal runs of free bytes, for      *)
(* every word size, capacity and history of calls.                         *)
(***************************************************************************)
EXTENDS ResourceLayoutProofs

(* The free regions, as pairs <<start, length>>. *)
FreeSpans ==
    {<<o, regions[o].length>> : o \in {q \in DOMAIN regions : regions[q].kind = "FREE"}}

OfLength(S, l) == {b \in S : b[2] = l}

(* The multiset bag holds the lengths of the spans in S. *)
Counts(bag, S) == \A l \in Uint : bag[l] = Cardinality(OfLength(S, l))

(* The last part of the inductive invariant. *)
LengthsExact == Counts(freeLengths, FreeSpans)

-----------------------------------------------------------------------------
(* Adding a span: free_lengths_.insert.                                    *)
LEMMA AddCounts ==
    ASSUME NEW bag \in [Uint -> Nat], NEW S, IsFiniteSet(S), Counts(bag, S),
           NEW b, b \notin S, b[2] \in Uint
    PROVE  /\ AddFree(bag, b[2]) \in [Uint -> Nat]
           /\ IsFiniteSet(S \cup {b})
           /\ Counts(AddFree(bag, b[2]), S \cup {b})
<1>1. AddFree(bag, b[2]) \in [Uint -> Nat]
  BY BagTypes
<1>2. IsFiniteSet(S \cup {b})
  BY FS_AddElement
<1>3. ASSUME NEW l \in Uint
      PROVE  AddFree(bag, b[2])[l] = Cardinality(OfLength(S \cup {b}, l))
  <2>1. IsFiniteSet(OfLength(S, l)) /\ b \notin OfLength(S, l)
    BY FS_Subset DEF OfLength
  <2>2. CASE l = b[2]
    <3>1. OfLength(S \cup {b}, l) = OfLength(S, l) \cup {b}
      BY <2>2 DEF OfLength
    <3>2. AddFree(bag, b[2])[l] = bag[l] + 1
      BY <2>2 DEF AddFree
    <3> QED BY <2>1, <3>1, <3>2, FS_AddElement DEF Counts
  <2>3. CASE l # b[2]
    <3>1. OfLength(S \cup {b}, l) = OfLength(S, l)
      BY <2>3 DEF OfLength
    <3>2. AddFree(bag, b[2])[l] = bag[l]
      BY <2>3 DEF AddFree
    <3> QED BY <3>1, <3>2 DEF Counts
  <2> QED BY <2>2, <2>3
<1> QED BY <1>1, <1>2, <1>3 DEF Counts

(* Taking a span away: consume_free finds its length.                      *)
LEMMA ConsumeCounts ==
    ASSUME NEW bag \in [Uint -> Nat], NEW S, IsFiniteSet(S), Counts(bag, S),
           NEW b, b \in S, b[2] \in Uint
    PROVE  /\ ConsumeFree(bag, b[2]) \in [Uint -> Nat]
           /\ IsFiniteSet(S \ {b})
           /\ Counts(ConsumeFree(bag, b[2]), S \ {b})
<1>1. ConsumeFree(bag, b[2]) \in [Uint -> Nat]
  BY BagTypes
<1>2. IsFiniteSet(S \ {b})
  BY FS_RemoveElement
<1>3. ASSUME NEW l \in Uint
      PROVE  ConsumeFree(bag, b[2])[l] = Cardinality(OfLength(S \ {b}, l))
  <2>1. IsFiniteSet(OfLength(S, l))
    BY FS_Subset DEF OfLength
  <2>2. CASE l = b[2]
    <3>1. OfLength(S \ {b}, l) = OfLength(S, l) \ {b} /\ b \in OfLength(S, l)
      BY <2>2 DEF OfLength
    <3>2. Cardinality(OfLength(S, l)) # 0 /\ bag[l] = Cardinality(OfLength(S, l)) /\ bag[l] \in Nat
      BY <2>1, <3>1, FS_EmptySet DEF Counts
    <3>3. bag[l] > 0
      BY <3>2
    <3>4. ConsumeFree(bag, b[2])[l] = bag[l] - 1
      BY <2>2, <3>3 DEF ConsumeFree
    <3>5. Cardinality(OfLength(S, l) \ {b}) = Cardinality(OfLength(S, l)) - 1
      BY <2>1, <3>1, FS_RemoveElement
    <3> QED BY <3>1, <3>2, <3>4, <3>5
  <2>3. CASE l # b[2]
    <3>1. OfLength(S \ {b}, l) = OfLength(S, l)
      BY <2>3 DEF OfLength
    <3>2. ConsumeFree(bag, b[2])[l] = bag[l]
      BY <2>3 DEF ConsumeFree
    <3> QED BY <3>1, <3>2 DEF Counts
  <2> QED BY <2>2, <2>3
<1> QED BY <1>1, <1>2, <1>3 DEF Counts

-----------------------------------------------------------------------------
(* A byte is free exactly if the region over it is.                        *)
LEMMA FreeByte ==
    ASSUME LayoutInv, NEW o \in DOMAIN regions, NEW c \in Nat, o <= c, c < EndOf(o)
    PROVE  c \in FreeCells(capacity, allocations) <=> regions[o].kind = "FREE"
<1> USE DEF LayoutInv
<1>0. /\ capacity \in Nat /\ o \in Nat /\ EndOf(o) \in Nat /\ EndOf(o) <= capacity
      /\ c \in o .. (EndOf(o) - 1) /\ c \in 0 .. (capacity - 1)
  BY Numbers DEF Tiling
<1>1. ASSUME regions[o].kind = "FREE" PROVE c \notin UsedCells(allocations)
  <2> SUFFICES ASSUME NEW i \in DOMAIN allocations PROVE c \notin Cells(allocations[i])
    BY DEF UsedCells
  <2>1. allocOffsets[i] # o
    BY <1>1, CellsOfAllocation
  <2> QED BY <1>0, <2>1, CellsOfAllocation
<1>2. ASSUME regions[o].kind = "ALLOCATED" PROVE c \in UsedCells(allocations)
  <2>1. regions[o].id \in DOMAIN allocations /\ allocOffsets[regions[o].id] = o
    BY <1>2 DEF Registry
  <2>2. Cells(allocations[regions[o].id]) = o .. (EndOf(o) - 1)
    BY <2>1, CellsOfAllocation
  <2> QED BY <1>0, <2>1, <2>2 DEF UsedCells
<1>3. regions[o].kind \in {"FREE", "ALLOCATED"}
  BY DEF TypeOK, Region
<1> QED BY <1>0, <1>1, <1>2, <1>3 DEF FreeCells

(* Neither the byte before a free region nor the byte after it is free.    *)
LEMMA FreeBounded ==
    ASSUME LayoutInv, NEW o \in DOMAIN regions, regions[o].kind = "FREE"
    PROVE  /\ (o - 1) \notin FreeCells(capacity, allocations)
           /\ EndOf(o) \notin FreeCells(capacity, allocations)
<1> USE DEF LayoutInv
<1>0. /\ capacity \in Nat
      /\ \A q \in DOMAIN regions : /\ q \in Nat /\ EndOf(q) \in Nat /\ q < EndOf(q)
                                   /\ EndOf(q) <= capacity
  BY Numbers DEF Tiling, EndOf
<1>1. \A q, p \in DOMAIN regions : q < p => EndOf(q) <= p
  BY DEF Tiling
<1>2. \A c \in FreeCells(capacity, allocations) :
         c \in Nat /\ \E q \in DOMAIN regions : q <= c /\ c < EndOf(q)
  BY <1>0 DEF FreeCells, Tiling
<1>3. ASSUME (o - 1) \in FreeCells(capacity, allocations) PROVE FALSE
  <2>1. o - 1 \in Nat
    BY <1>2, <1>3
  <2>2. PICK q \in DOMAIN regions : q <= o - 1 /\ o - 1 < EndOf(q)
    BY <1>2, <1>3
  <2>3. EndOf(q) = o
    BY <1>0, <1>1, <2>1, <2>2
  <2>4. regions[q].kind = "FREE"
    BY <1>3, <2>1, <2>2, FreeByte
  <2> QED BY <2>3, <2>4 DEF FreeMaximal
<1>4. ASSUME EndOf(o) \in FreeCells(capacity, allocations) PROVE FALSE
  <2>1. PICK q \in DOMAIN regions : q <= EndOf(o) /\ EndOf(o) < EndOf(q)
    BY <1>2, <1>4
  <2>2. ~(q < o) /\ q # o
    BY <1>0, <1>1, <2>1
  <2>3. o < q
    BY <1>0, <2>2
  <2>4. EndOf(o) = q
    BY <1>0, <1>1, <2>1, <2>3
  <2>5. regions[q].kind = "FREE"
    BY <1>0, <1>4, <2>1, FreeByte
  <2> QED BY <2>4, <2>5 DEF FreeMaximal
<1> QED BY <1>3, <1>4

(* The free regions are exactly the maximal runs of free bytes that the    *)
(* allocations alone leave.                                                *)
LEMMA SpansAreBlocks == LayoutInv => FreeBlocks(capacity, allocations) = FreeSpans
<1> SUFFICES ASSUME LayoutInv PROVE FreeBlocks(capacity, allocations) = FreeSpans
  OBVIOUS
<1> USE DEF LayoutInv
<1> DEFINE free == FreeCells(capacity, allocations)
<1>0. /\ capacity \in Nat
      /\ \A q \in DOMAIN regions :
            /\ q \in Nat /\ EndOf(q) \in Nat /\ q < EndOf(q) /\ EndOf(q) <= capacity
            /\ regions[q].length \in Nat /\ EndOf(q) = q + regions[q].length
  BY Numbers DEF Tiling, EndOf
<1>1. ASSUME NEW b \in FreeBlocks(capacity, allocations) PROVE b \in FreeSpans
  <2>1. /\ b \in (0 .. (capacity - 1)) \X (1 .. capacity)
        /\ b[1] .. (b[1] + b[2] - 1) \subseteq free
        /\ (b[1] - 1) \notin free /\ (b[1] + b[2]) \notin free
    BY <1>1 DEF FreeBlocks
  <2> DEFINE s == b[1]
             n == b[2]
  <2>2. s \in Nat /\ n \in Nat /\ n > 0 /\ s < capacity /\ b = <<s, n>>
    BY <1>0, <2>1
  <2>3. s .. (s + n - 1) \subseteq free /\ (s - 1) \notin free /\ (s + n) \notin free
    BY <2>1
  <2> HIDE DEF s, n, free
  <2>4. PICK o \in DOMAIN regions : o <= s /\ s < EndOf(o)
    BY <1>0, <2>2 DEF Tiling
  <2>5. \A c \in Nat : o <= c /\ c < EndOf(o) => (c \in free <=> regions[o].kind = "FREE")
    BY FreeByte DEF free
  <2>6. s \in free
    BY <2>2, <2>3
  <2>7. regions[o].kind = "FREE"
    BY <2>2, <2>4, <2>5, <2>6
  <2>8. o = s
    <3> SUFFICES ASSUME o < s PROVE FALSE
      BY <1>0, <2>2, <2>4
    <3>1. s - 1 \in Nat /\ o <= s - 1 /\ s - 1 < EndOf(o)
      BY <1>0, <2>2, <2>4
    <3> QED BY <2>3, <2>5, <2>7, <3>1
  <2>9. EndOf(o) \notin free
    BY <2>7, FreeBounded DEF free
  <2>10. ~(s + n < EndOf(o))
    BY <1>0, <2>2, <2>3, <2>4, <2>5, <2>7, <2>8
  <2>11. ~(EndOf(o) < s + n)
    <3> SUFFICES ASSUME EndOf(o) < s + n PROVE FALSE
      OBVIOUS
    <3>1. EndOf(o) \in s .. (s + n - 1)
      BY <1>0, <2>2, <2>4
    <3> QED BY <2>3, <2>9, <3>1
  <2>12. regions[o].length = n
    BY <1>0, <2>2, <2>8, <2>10, <2>11
  <2> QED BY <2>2, <2>7, <2>8, <2>12 DEF FreeSpans
<1>2. ASSUME NEW b \in FreeSpans PROVE b \in FreeBlocks(capacity, allocations)
  <2>1. PICK o \in DOMAIN regions : regions[o].kind = "FREE" /\ b = <<o, regions[o].length>>
    BY <1>2 DEF FreeSpans
  <2>2. b[1] = o /\ b[2] = regions[o].length /\ o + regions[o].length = EndOf(o)
    BY <1>0, <2>1
  <2>3. o .. (o + regions[o].length - 1) \subseteq free
    <3> SUFFICES ASSUME NEW c \in o .. (o + regions[o].length - 1) PROVE c \in free
      OBVIOUS
    <3>1. c \in Nat /\ o <= c /\ c < EndOf(o)
      BY <1>0, <2>2
    <3> QED BY <2>1, <3>1, FreeByte
  <2>4. (o - 1) \notin free /\ (o + regions[o].length) \notin free
    BY <2>1, <2>2, FreeBounded
  <2>5. b \in (0 .. (capacity - 1)) \X (1 .. capacity)
    <3>1. o \in 0 .. (capacity - 1) /\ regions[o].length \in 1 .. capacity
      BY <1>0
    <3> QED BY <2>1, <3>1
  <2> HIDE DEF free
  <2>6. b[1] .. (b[1] + b[2] - 1) \subseteq free /\ (b[1] - 1) \notin free /\ (b[1] + b[2]) \notin free
    BY <2>2, <2>3, <2>4
  <2> QED BY <2>5, <2>6 DEF FreeBlocks, free
<1> QED BY <1>1, <1>2

(* There are finitely many of them, and their lengths are words.           *)
LEMMA SpansFinite ==
    ASSUME LayoutInv
    PROVE  /\ IsFiniteSet(FreeSpans)
           /\ \A b \in FreeSpans : b[2] \in Uint /\ b[2] \in Nat
           /\ \A o \in DOMAIN regions : regions[o].length \in Uint
           /\ capacity \in Nat /\ capacity <= UMax
<1> USE DEF LayoutInv
<1>1. capacity \in 0 .. UMax
  BY CapacitiesAssumption DEF TypeOK
<1>2. capacity \in Nat /\ capacity <= UMax
  BY <1>1, UMaxAssumption
<1>3. IsFiniteSet((0 .. (capacity - 1)) \X (1 .. capacity))
  <2>1. 0 \in Int /\ 1 \in Int /\ capacity \in Int /\ capacity - 1 \in Int
    BY <1>2
  <2>2. IsFiniteSet(0 .. (capacity - 1)) /\ IsFiniteSet(1 .. capacity)
    BY <2>1, FS_Interval
  <2> QED BY <2>2, FS_Product
<1>4. FreeSpans \subseteq (0 .. (capacity - 1)) \X (1 .. capacity)
  BY SpansAreBlocks DEF FreeBlocks
<1>5. IsFiniteSet(FreeSpans)
  BY <1>3, <1>4, FS_Subset
<1>6. \A b \in FreeSpans : b[2] \in Uint /\ b[2] \in Nat
  BY <1>2, <1>4, UMaxAssumption DEF Uint
<1>7. \A o \in DOMAIN regions : regions[o].length \in Uint
  BY DEF TypeOK, Region
<1> QED BY <1>2, <1>5, <1>6, <1>7

-----------------------------------------------------------------------------
(* The constructor: one free span, or none at capacity zero.               *)
LEMMA InitCounts == Init => LengthsExact
<1> SUFFICES ASSUME Init, NEW l \in Uint PROVE freeLengths[l] = Cardinality(OfLength(FreeSpans, l))
  BY DEF LengthsExact, Counts
<1>1. freeLengths[l] = IF l = capacity /\ l # 0 THEN 1 ELSE 0
  BY DEF Init
<1>2. CASE capacity = 0
  <2>1. regions = EmptyMap
    BY <1>2 DEF Init
  <2>2. OfLength(FreeSpans, l) = {}
    BY <2>1 DEF OfLength, FreeSpans, EmptyMap
  <2> QED BY <1>1, <1>2, <2>2, FS_EmptySet
<1>3. CASE capacity # 0
  <2>1. DOMAIN regions = {0} /\ regions[0] = FreeRegion(capacity)
    BY <1>3 DEF Init, Emplace, EmptyMap
  <2>2. regions[0].kind = "FREE" /\ regions[0].length = capacity
    BY <2>1 DEF FreeRegion
  <2>3. FreeSpans = {<<0, capacity>>}
    BY <2>1, <2>2 DEF FreeSpans
  <2>4. l = capacity => OfLength(FreeSpans, l) = {<<0, capacity>>}
    BY <2>3 DEF OfLength
  <2>5. l # capacity => OfLength(FreeSpans, l) = {}
    BY <2>3 DEF OfLength
  <2> QED BY <1>1, <1>3, <2>4, <2>5, FS_EmptySet, FS_Singleton
<1> QED BY <1>2, <1>3

(* An accepted insert consumes one span and adds what is left of it on     *)
(* either side.                                                            *)
LEMMA InsertSpans ==
    ASSUME LayoutInv, NEW id \in Ids, NEW a \in Allocation, NEW f \in DOMAIN regions,
           InsertAccepted(id, a, f), regions' = SplitRegions(id, a.offset, a.length, f)
    PROVE  LET left == <<f, a.offset - f>>
               right == <<a.offset + a.length, EndOf(f) - (a.offset + a.length)>>
               gone == FreeSpans \ {<<f, regions[f].length>>}
           IN  /\ <<f, regions[f].length>> \in FreeSpans
               /\ left \notin gone /\ right \notin gone /\ left # right
               /\ FreeSpans' = gone \cup (IF a.offset > f THEN {left} ELSE {})
                                   \cup (IF a.offset + a.length < EndOf(f) THEN {right} ELSE {})
<1> DEFINE off == a.offset
           len == a.length
           end == EndOf(f)
           left == <<f, off - f>>
           right == <<off + len, end - (off + len)>>
           gone == FreeSpans \ {<<f, regions[f].length>>}
           R == regions'
<1> USE DEF LayoutInv
<1>1. SplitShape(id, off, len, f, R)
  BY SplitEffect
<1>2. regions[f].kind = "FREE"
  BY DEF InsertAccepted
<1>3. /\ f \in Nat /\ off \in Nat /\ len \in Nat /\ end \in Nat
      /\ f <= off /\ off + len <= end /\ len > 0
  BY <1>1 DEF SplitShape
<1>4. \A o : o \in DOMAIN R <=>
         \/ o \in DOMAIN regions \ {f}
         \/ off > f /\ o = f
         \/ o = off
         \/ off + len < end /\ o = off + len
  BY <1>1 DEF SplitShape
<1>5. \A o \in DOMAIN regions \ {f} : R[o] = regions[o] /\ (EndOf(o) <= f \/ o >= end)
  BY <1>1 DEF SplitShape
<1>6. \A o \in DOMAIN regions : o \in Nat /\ EndOf(o) \in Nat /\ o < EndOf(o)
  BY Numbers DEF Tiling, EndOf
<1>7. \A b : b \in gone <=> \E o \in DOMAIN regions \ {f} :
                               regions[o].kind = "FREE" /\ b = <<o, regions[o].length>>
  <2>1. \A b : b \in FreeSpans <=> \E o \in DOMAIN regions :
                               regions[o].kind = "FREE" /\ b = <<o, regions[o].length>>
    BY DEF FreeSpans
  <2> QED BY <2>1
<1>8. <<f, regions[f].length>> \in FreeSpans
  BY <1>2 DEF FreeSpans
<1>9. \A b : b \in FreeSpans' <=> \E o \in DOMAIN R : R[o].kind = "FREE" /\ b = <<o, R[o].length>>
  BY DEF FreeSpans
<1>10. /\ R[off].kind = "ALLOCATED"
       /\ off > f => R[f].kind = "FREE" /\ R[f].length = off - f
       /\ off + len < end => R[off + len].kind = "FREE" /\ R[off + len].length = end - (off + len)
  <2>1. \A n : FreeRegion(n).kind = "FREE" /\ FreeRegion(n).length = n
    BY DEF FreeRegion
  <2>2. \A n, x : AllocatedRegion(n, x).kind = "ALLOCATED"
    BY DEF AllocatedRegion
  <2> QED BY <1>1, <2>1, <2>2 DEF SplitShape
<1> HIDE DEF R, off, len, end, gone
<1>11. left \notin gone /\ right \notin gone /\ left # right
  <2>1. f # off + len /\ left # right
    BY <1>3
  <2>2. left \notin gone
    BY <1>7
  <2>3. ASSUME right \in gone PROVE FALSE
    <3>1. PICK o \in DOMAIN regions \ {f} : o = off + len /\ regions[o].length = end - (off + len)
      BY <1>7, <2>3
    <3>2. EndOf(o) <= f \/ o >= end
      BY <1>5
    <3>3. EndOf(o) = end
      BY <1>3, <3>1 DEF EndOf
    <3> QED BY <1>3, <1>6, <3>1, <3>2, <3>3
  <2> QED BY <2>1, <2>2, <2>3
<1>12. ASSUME NEW b
       PROVE  b \in FreeSpans' <=> \/ b \in gone
                                   \/ off > f /\ b = left
                                   \/ off + len < end /\ b = right
  <2>1. ASSUME b \in gone PROVE b \in FreeSpans'
    BY <1>4, <1>5, <1>7, <1>9, <2>1
  <2>2. ASSUME off > f, b = left PROVE b \in FreeSpans'
    BY <1>4, <1>9, <1>10, <2>2
  <2>3. ASSUME off + len < end, b = right PROVE b \in FreeSpans'
    BY <1>4, <1>9, <1>10, <2>3
  <2>4. ASSUME NEW o \in DOMAIN R, R[o].kind = "FREE", b = <<o, R[o].length>>
        PROVE  \/ b \in gone
               \/ off > f /\ b = left
               \/ off + len < end /\ b = right
    <3>1. CASE o \in DOMAIN regions \ {f}
      BY <1>5, <1>7, <2>4, <3>1
    <3>2. CASE off > f /\ o = f
      BY <1>10, <2>4, <3>2
    <3>3. CASE o = off
      BY <1>10, <2>4, <3>3
    <3>4. CASE off + len < end /\ o = off + len
      BY <1>10, <2>4, <3>4
    <3> QED BY <1>4, <3>1, <3>2, <3>3, <3>4
  <2> QED BY <1>9, <2>1, <2>2, <2>3, <2>4
<1>13. FreeSpans' = gone \cup (IF off > f THEN {left} ELSE {})
                        \cup (IF off + len < end THEN {right} ELSE {})
  BY <1>12
<1> QED BY <1>8, <1>11, <1>13 DEF gone, off, len, end

(* insert_allocation keeps free_lengths_ exact.                            *)
LEMMA InsertKeepsLengths ==
    ASSUME LayoutInv, LengthsExact, NEW id \in Ids, NEW a \in Allocation, InsertAllocation(id, a)
    PROVE  LengthsExact'
<1> USE DEF LayoutInv
<1>1. PICK f \in DOMAIN regions :
        /\ InsertAccepted(id, a, f)
        /\ regions' = SplitRegions(id, a.offset, a.length, f)
        /\ freeLengths' = SplitFreeLengths(a.offset, a.length, f)
  BY DEF InsertAllocation
<1> DEFINE off == a.offset
           len == a.length
           end == EndOf(f)
           span == <<f, regions[f].length>>
           left == <<f, off - f>>
           right == <<off + len, end - (off + len)>>
           gone == FreeSpans \ {span}
           kept == IF off > f THEN gone \cup {left} ELSE gone
           bag1 == ConsumeFree(freeLengths, regions[f].length)
           bag2 == IF off > f THEN AddFree(bag1, off - f) ELSE bag1
<1>2. /\ span \in FreeSpans /\ left \notin gone /\ right \notin gone /\ left # right
      /\ FreeSpans' = gone \cup (IF off > f THEN {left} ELSE {})
                          \cup (IF off + len < end THEN {right} ELSE {})
  BY <1>1, InsertSpans
<1>3. FreeSpans' = IF off + len < end THEN kept \cup {right} ELSE kept
  BY <1>2
<1>4. freeLengths' = IF off + len < end THEN AddFree(bag2, end - (off + len)) ELSE bag2
  BY <1>1 DEF SplitFreeLengths
<1>5. freeLengths \in [Uint -> Nat] /\ IsFiniteSet(FreeSpans) /\ Counts(freeLengths, FreeSpans)
  BY SpansFinite DEF TypeOK, LengthsExact
<1>6. /\ off \in Nat /\ len \in Nat /\ f \in Nat /\ end \in Nat /\ f <= off
      /\ off + len <= end /\ end <= capacity /\ capacity \in Nat /\ capacity <= UMax
      /\ regions[f].length \in Uint
  BY <1>1, SplitEffect, SpansFinite DEF SplitShape
<1>7. off - f \in Uint /\ (off + len < end => end - (off + len) \in Uint)
  BY <1>6, UMaxAssumption DEF Uint
<1>8. span[2] = regions[f].length /\ left[2] = off - f /\ right[2] = end - (off + len)
  OBVIOUS
<1> HIDE DEF off, len, end, span, left, right, bag1, gone
<1>9. bag1 \in [Uint -> Nat] /\ IsFiniteSet(gone) /\ Counts(bag1, gone)
  BY <1>2, <1>5, <1>6, <1>8, ConsumeCounts DEF bag1, gone
<1>10. bag2 \in [Uint -> Nat] /\ IsFiniteSet(kept) /\ Counts(bag2, kept) /\ right \notin kept
  <2>1. CASE off > f
    <3>1. AddFree(bag1, off - f) \in [Uint -> Nat] /\ IsFiniteSet(gone \cup {left})
          /\ Counts(AddFree(bag1, off - f), gone \cup {left})
      BY <1>2, <1>7, <1>8, <1>9, AddCounts
    <3> QED BY <1>2, <2>1, <3>1
  <2>2. CASE ~(off > f)
    BY <1>2, <1>9, <2>2
  <2> QED BY <2>1, <2>2
<1> HIDE DEF bag2, kept
<1>11. Counts(freeLengths', FreeSpans')
  <2>1. CASE off + len < end
    <3>1. Counts(AddFree(bag2, end - (off + len)), kept \cup {right})
      BY <1>7, <1>8, <1>10, <2>1, AddCounts
    <3> QED BY <1>3, <1>4, <2>1, <3>1
  <2>2. CASE ~(off + len < end)
    BY <1>3, <1>4, <1>10, <2>2
  <2> QED BY <2>1, <2>2
<1> QED BY <1>11 DEF LengthsExact, Counts

(* The free regions that a removal absorbs are the free ones between the   *)
(* merged start and the merged end: at most one on each side.              *)
LEMMA Absorbed ==
    ASSUME LayoutInv, NEW off \in DOMAIN regions, regions[off].kind = "ALLOCATED",
           NEW len, len = regions[off].length
    PROVE  LET s == MergedStart(off)
               e == MergedEnd(off, len)
               r == CHOOSE p \in FreeRight(off) : TRUE
           IN  /\ FreeLeft(off) = {} => s = off
               /\ FreeLeft(off) # {} => s \in DOMAIN regions /\ s < off /\ regions[s].kind = "FREE"
               /\ FreeRight(off) = {} => e = EndOf(off)
               /\ FreeRight(off) # {} =>
                     r \in DOMAIN regions /\ off < r /\ r < e /\ regions[r].kind = "FREE"
               /\ \A o \in DOMAIN regions : s <= o /\ o < e /\ regions[o].kind = "FREE" =>
                     (FreeLeft(off) # {} /\ o = s) \/ (FreeRight(off) # {} /\ o = r)
<1> DEFINE s == MergedStart(off)
           e == MergedEnd(off, len)
           r == CHOOSE p \in FreeRight(off) : TRUE
<1> USE DEF LayoutInv
<1>1. \A o \in DOMAIN regions : o \in Nat /\ EndOf(o) \in Nat /\ o < EndOf(o)
  BY Numbers DEF Tiling, EndOf
<1>2. \A o, q \in DOMAIN regions : o < q => EndOf(o) <= q
  BY DEF Tiling
<1>3. \A p : p \in FreeLeft(off) <=>
          p \in DOMAIN regions /\ EndOf(p) = off /\ regions[p].kind = "FREE"
  BY Neighbours DEF FreeLeft
<1>4. \A p : p \in FreeRight(off) <=>
          p \in DOMAIN regions /\ p = EndOf(off) /\ regions[p].kind = "FREE"
  BY Neighbours DEF FreeRight
<1>5. /\ FreeLeft(off) = {} => s = off
      /\ FreeLeft(off) # {} => s \in FreeLeft(off)
  BY DEF MergedStart
<1>6. /\ FreeRight(off) = {} => e = EndOf(off)
      /\ FreeRight(off) # {} => r \in FreeRight(off) /\ e = EndOf(r)
  BY DEF MergedEnd, EndOf
<1> HIDE DEF s, e, r
<1>7. FreeLeft(off) # {} => s \in DOMAIN regions /\ s < off /\ EndOf(s) = off /\ regions[s].kind = "FREE"
  BY <1>1, <1>3, <1>5
<1>8. FreeRight(off) # {} =>
         r \in DOMAIN regions /\ off < r /\ r < e /\ r = EndOf(off) /\ regions[r].kind = "FREE"
  BY <1>1, <1>4, <1>6
<1>9. ASSUME NEW o \in DOMAIN regions, s <= o, o < e, regions[o].kind = "FREE"
      PROVE  (FreeLeft(off) # {} /\ o = s) \/ (FreeRight(off) # {} /\ o = r)
  <2>1. o < off \/ off < o
    BY <1>1, <1>9
  <2>2. CASE o < off
    <3>1. FreeLeft(off) # {}
      BY <1>1, <1>5, <1>9, <2>2
    <3>2. ~(s < o)
      BY <1>1, <1>2, <1>7, <2>2, <3>1
    <3> QED BY <1>1, <1>7, <1>9, <3>1, <3>2
  <2>3. CASE off < o
    <3>1. EndOf(off) <= o
      BY <1>2, <2>3
    <3>2. FreeRight(off) # {}
      BY <1>1, <1>6, <1>9, <3>1
    <3>3. ~(r < o)
      BY <1>1, <1>2, <1>6, <1>8, <1>9, <3>2
    <3> QED BY <1>1, <1>8, <3>1, <3>2, <3>3
  <2> QED BY <2>1, <2>2, <2>3
<1> QED BY <1>5, <1>6, <1>7, <1>8, <1>9 DEF s, e, r

(* A removal takes the absorbed spans away and adds the merged one.        *)
LEMMA RemoveSpans ==
    ASSUME LayoutInv, NEW off \in DOMAIN regions, regions[off].kind = "ALLOCATED",
           NEW len, len = regions[off].length, regions' = MergeRegions(off, len)
    PROVE  LET s == MergedStart(off)
               e == MergedEnd(off, len)
               r == CHOOSE p \in FreeRight(off) : TRUE
               left == <<s, regions[s].length>>
               right == <<r, regions[r].length>>
               gone == (FreeSpans \ (IF FreeLeft(off) = {} THEN {} ELSE {left}))
                          \ (IF FreeRight(off) = {} THEN {} ELSE {right})
           IN  /\ FreeLeft(off) # {} => left \in FreeSpans
               /\ FreeRight(off) # {} => right \in FreeSpans
               /\ FreeLeft(off) # {} /\ FreeRight(off) # {} => left # right
               /\ <<s, e - s>> \notin gone
               /\ FreeSpans' = gone \cup {<<s, e - s>>}
               /\ s \in Nat /\ e \in Nat /\ s < e /\ e <= capacity
<1> DEFINE s == MergedStart(off)
           e == MergedEnd(off, len)
           r == CHOOSE p \in FreeRight(off) : TRUE
           left == <<s, regions[s].length>>
           right == <<r, regions[r].length>>
           gone == (FreeSpans \ (IF FreeLeft(off) = {} THEN {} ELSE {left}))
                      \ (IF FreeRight(off) = {} THEN {} ELSE {right})
           R == regions'
<1> USE DEF LayoutInv
<1>1. MergeShape(off, s, e, R)
  BY MergeEffect
<1>2. /\ FreeLeft(off) = {} => s = off
      /\ FreeLeft(off) # {} => s \in DOMAIN regions /\ s < off /\ regions[s].kind = "FREE"
      /\ FreeRight(off) # {} =>
            r \in DOMAIN regions /\ off < r /\ r < e /\ regions[r].kind = "FREE"
      /\ \A o \in DOMAIN regions : s <= o /\ o < e /\ regions[o].kind = "FREE" =>
            (FreeLeft(off) # {} /\ o = s) \/ (FreeRight(off) # {} /\ o = r)
  BY Absorbed
<1>3. \A o \in DOMAIN regions : o \in Nat
  BY Numbers
<1>4. \A b : b \in FreeSpans <=> \E o \in DOMAIN regions :
                               regions[o].kind = "FREE" /\ b = <<o, regions[o].length>>
  BY DEF FreeSpans
<1>5. \A b : b \in FreeSpans' <=> \E o \in DOMAIN R : R[o].kind = "FREE" /\ b = <<o, R[o].length>>
  BY DEF FreeSpans
<1>6. \A b : b \in gone <=> b \in FreeSpans /\ (FreeLeft(off) # {} => b # left)
                                            /\ (FreeRight(off) # {} => b # right)
  OBVIOUS
<1> HIDE DEF s, e, r, R, gone
<1>7. /\ s \in Nat /\ e \in Nat /\ s <= off /\ s < e /\ e <= capacity
      /\ \A o : o \in DOMAIN R <=> o = s \/ (o \in DOMAIN regions /\ (o < s \/ e <= o))
      /\ R[s] = FreeRegion(e - s)
      /\ \A o \in DOMAIN regions : o < s \/ e <= o => R[o] = regions[o]
  BY <1>1 DEF MergeShape
<1>8. R[s].kind = "FREE" /\ R[s].length = e - s
  BY <1>7 DEF FreeRegion
<1>9. /\ FreeLeft(off) # {} => left \in FreeSpans
      /\ FreeRight(off) # {} => right \in FreeSpans
      /\ FreeLeft(off) # {} /\ FreeRight(off) # {} => left # right
  BY <1>2, <1>3, <1>4
<1>10. ASSUME NEW b
       PROVE  b \in gone <=> \E o \in DOMAIN regions : /\ o < s \/ e <= o
                                                      /\ regions[o].kind = "FREE"
                                                      /\ b = <<o, regions[o].length>>
  <2>1. ASSUME b \in gone
        PROVE  \E o \in DOMAIN regions : /\ o < s \/ e <= o
                                        /\ regions[o].kind = "FREE"
                                        /\ b = <<o, regions[o].length>>
    <3>1. PICK o \in DOMAIN regions : regions[o].kind = "FREE" /\ b = <<o, regions[o].length>>
      BY <1>4, <1>6, <2>1
    <3>2. ~(FreeLeft(off) # {} /\ o = s) /\ ~(FreeRight(off) # {} /\ o = r)
      BY <1>6, <2>1, <3>1
    <3>3. ~(s <= o /\ o < e)
      BY <1>2, <3>1, <3>2
    <3> QED BY <1>3, <1>7, <3>1, <3>3
  <2>2. ASSUME NEW o \in DOMAIN regions, o < s \/ e <= o, regions[o].kind = "FREE",
               b = <<o, regions[o].length>>
        PROVE  b \in gone
    <3>1. FreeLeft(off) # {} => o # s
      BY <1>3, <1>7, <2>2
    <3>2. FreeRight(off) # {} => o # r
      BY <1>2, <1>3, <1>7, <2>2
    <3> QED BY <1>4, <1>6, <2>2, <3>1, <3>2
  <2> QED BY <2>1, <2>2
<1>11. <<s, e - s>> \notin gone
  <2> SUFFICES ASSUME <<s, e - s>> \in gone PROVE FALSE
    OBVIOUS
  <2>1. PICK o \in DOMAIN regions : (o < s \/ e <= o) /\ <<s, e - s>> = <<o, regions[o].length>>
    BY <1>10
  <2>2. o = s
    BY <2>1
  <2> QED BY <1>7, <2>1, <2>2
<1>12. ASSUME NEW b PROVE b \in FreeSpans' <=> b \in gone \/ b = <<s, e - s>>
  <2>1. ASSUME b \in gone PROVE b \in FreeSpans'
    BY <1>5, <1>7, <1>10, <2>1
  <2>2. ASSUME b = <<s, e - s>> PROVE b \in FreeSpans'
    BY <1>5, <1>7, <1>8, <2>2
  <2>3. ASSUME NEW o \in DOMAIN R, R[o].kind = "FREE", b = <<o, R[o].length>>
        PROVE  b \in gone \/ b = <<s, e - s>>
    <3>1. CASE o = s
      BY <1>8, <2>3, <3>1
    <3>2. CASE o \in DOMAIN regions /\ (o < s \/ e <= o)
      BY <1>7, <1>10, <2>3, <3>2
    <3> QED BY <1>7, <3>1, <3>2
  <2> QED BY <1>5, <2>1, <2>2, <2>3
<1>13. FreeSpans' = gone \cup {<<s, e - s>>}
  BY <1>12
<1> QED BY <1>7, <1>9, <1>11, <1>13 DEF s, e, r, gone

(* remove_allocation keeps free_lengths_ exact.                            *)
LEMMA RemoveKeepsLengths ==
    ASSUME LayoutInv, LengthsExact, NEW id \in Ids, RemoveAllocation(id)
    PROVE  LengthsExact'
<1> USE DEF LayoutInv
<1> DEFINE off == allocOffsets[id]
           len == allocations[id].length
<1>1. /\ id \in DOMAIN allocations
      /\ regions' = MergeRegions(off, len)
      /\ freeLengths' = MergeFreeLengths(off, len)
  BY DEF RemoveAllocation
<1>2. off \in DOMAIN regions /\ regions[off].kind = "ALLOCATED" /\ len = regions[off].length
  BY <1>1, CellsOfAllocation
<1> HIDE DEF off, len
<1> DEFINE s == MergedStart(off)
           e == MergedEnd(off, len)
           r == CHOOSE p \in FreeRight(off) : TRUE
           left == <<s, regions[s].length>>
           right == <<r, regions[r].length>>
           set1 == FreeSpans \ (IF FreeLeft(off) = {} THEN {} ELSE {left})
           set2 == set1 \ (IF FreeRight(off) = {} THEN {} ELSE {right})
           bag1 == IF FreeLeft(off) = {} THEN freeLengths ELSE ConsumeFree(freeLengths, regions[s].length)
           bag2 == IF FreeRight(off) = {} THEN bag1 ELSE ConsumeFree(bag1, regions[r].length)
<1>3. /\ FreeLeft(off) # {} => left \in FreeSpans
      /\ FreeRight(off) # {} => right \in FreeSpans
      /\ FreeLeft(off) # {} /\ FreeRight(off) # {} => left # right
      /\ <<s, e - s>> \notin set2
      /\ FreeSpans' = set2 \cup {<<s, e - s>>}
      /\ s \in Nat /\ e \in Nat /\ s < e /\ e <= capacity
  BY <1>1, <1>2, RemoveSpans
<1>4. freeLengths' = AddFree(bag2, e - s)
  BY <1>1 DEF MergeFreeLengths
<1>5. freeLengths \in [Uint -> Nat] /\ IsFiniteSet(FreeSpans) /\ Counts(freeLengths, FreeSpans)
  BY SpansFinite DEF TypeOK, LengthsExact
<1>6. /\ \A b \in FreeSpans : b[2] \in Uint
      /\ left[2] = regions[s].length /\ right[2] = regions[r].length
  BY SpansFinite
<1>7. e - s \in Uint /\ <<s, e - s>>[2] = e - s
  BY <1>3, SpansFinite, UMaxAssumption DEF Uint
<1> HIDE DEF s, e, r, left, right
<1>8. bag1 \in [Uint -> Nat] /\ IsFiniteSet(set1) /\ Counts(bag1, set1)
  <2>1. CASE FreeLeft(off) = {}
    <3>1. bag1 = freeLengths /\ set1 = FreeSpans
      BY <2>1
    <3> QED BY <1>5, <3>1
  <2>2. CASE FreeLeft(off) # {}
    <3>1. bag1 = ConsumeFree(freeLengths, left[2]) /\ set1 = FreeSpans \ {left}
      BY <1>6, <2>2
    <3>2. left \in FreeSpans /\ left[2] \in Uint
      BY <1>3, <1>6, <2>2
    <3> HIDE DEF bag1, set1
    <3> QED BY <1>5, <3>1, <3>2, ConsumeCounts
  <2> QED BY <2>1, <2>2
<1>9. FreeRight(off) # {} => right \in set1 /\ right[2] \in Uint
  BY <1>3, <1>6
<1> HIDE DEF bag1, set1
<1>10. bag2 \in [Uint -> Nat] /\ IsFiniteSet(set2) /\ Counts(bag2, set2)
  <2>1. CASE FreeRight(off) = {}
    <3>1. bag2 = bag1 /\ set2 = set1
      BY <2>1
    <3> QED BY <1>8, <3>1
  <2>2. CASE FreeRight(off) # {}
    <3>1. bag2 = ConsumeFree(bag1, right[2]) /\ set2 = set1 \ {right}
      BY <1>6, <2>2
    <3> HIDE DEF bag2, set2
    <3> QED BY <1>8, <1>9, <2>2, <3>1, ConsumeCounts
  <2> QED BY <2>1, <2>2
<1> HIDE DEF bag2, set2
<1>11. Counts(AddFree(bag2, e - s), set2 \cup {<<s, e - s>>})
  BY <1>3, <1>7, <1>10, AddCounts
<1>12. Counts(freeLengths', FreeSpans')
  BY <1>3, <1>4, <1>11
<1> QED BY <1>12 DEF LengthsExact, Counts

-----------------------------------------------------------------------------
(* free_capacity_, free_lengths_ and alloc_count_ equal what the           *)
(* allocations alone imply, so free_capacity() and largest_free_block()    *)
(* are exact, after any history of inserts, updates and removals.          *)
THEOREM IndexesAlwaysExact == Spec => []IndexesExact
<1>1. Init => LengthsExact
  BY InitCounts
<1>2. LayoutInv /\ LengthsExact /\ [Next]_vars => LengthsExact'
  <2> SUFFICES ASSUME LayoutInv, LengthsExact, [Next]_vars PROVE LengthsExact'
    OBVIOUS
  <2>1. ASSUME NEW id \in Ids, NEW a \in Allocation, UpdateAllocation(id, a) PROVE LengthsExact'
    BY <2>1 DEF UpdateAllocation, LengthsExact, FreeSpans, Counts
  <2>2. CASE UNCHANGED vars
    BY <2>2 DEF vars, LengthsExact, FreeSpans, Counts
  <2> QED BY <2>1, <2>2, InsertKeepsLengths, RemoveKeepsLengths DEF Next
<1>3. LayoutInv /\ LengthsExact => IndexesExact
  <2> SUFFICES ASSUME LayoutInv, LengthsExact PROVE IndexesExact
    OBVIOUS
  <2>1. /\ freeCapacity = FreeCapacity(capacity, allocations)
        /\ allocCount = Cardinality(DOMAIN allocations)
    BY DEF LayoutInv, Counters
  <2>2. FreeBlocks(capacity, allocations) = FreeSpans
    BY SpansAreBlocks
  <2>3. \A l \in Uint : freeLengths[l] = Cardinality(OfLength(FreeSpans, l))
    BY DEF LengthsExact, Counts
  <2>4. \A l \in Uint : freeLengths[l] =
            Cardinality({b \in FreeBlocks(capacity, allocations) : b[2] = l})
    BY <2>2, <2>3 DEF OfLength
  <2>5. \A l \in Uint : freeLengths[l] > 0 <=> \E b \in FreeSpans : b[2] = l
    <3> TAKE l \in Uint
    <3>1. IsFiniteSet(OfLength(FreeSpans, l))
      BY SpansFinite, FS_Subset DEF OfLength
    <3>2. Cardinality(OfLength(FreeSpans, l)) \in Nat
          /\ (Cardinality(OfLength(FreeSpans, l)) = 0 <=> OfLength(FreeSpans, l) = {})
      BY <3>1, FS_CardinalityType, FS_EmptySet
    <3>3. freeLengths[l] > 0 <=> OfLength(FreeSpans, l) # {}
      BY <2>3, <3>2
    <3> QED BY <3>3 DEF OfLength
  <2>6. {l \in Uint : freeLengths[l] > 0} = {b[2] : b \in FreeBlocks(capacity, allocations)}
    BY <2>2, <2>5, SpansFinite
  <2> QED BY <2>1, <2>4, <2>6 DEF IndexesExact, LargestFreeBlock
<1> QED BY <1>1, <1>2, <1>3, LayoutInvariant, PTL DEF Spec
=============================================================================
