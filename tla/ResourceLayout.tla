--------------------------- MODULE ResourceLayout ---------------------------
(***************************************************************************)
(* The canonical block layout of one fragmentable resource, class          *)
(* ResourceLayout of include/fragmentation_governor/resource/layout.hpp.   *)
(*                                                                         *)
(* The class keeps the same fact five times: the interval map regions_,    *)
(* the multiset of free lengths, the id -> offset index, the registry of   *)
(* allocations and two counters.  Each is a variable here and each is      *)
(* updated by its own statement, in the order of the code, so that the     *)
(* invariants at the end say that the copies never drift apart.            *)
(*                                                                         *)
(* Abstractions: a region is keyed by its offset, so Region::offset is the *)
(* key; everything else of an Allocation that insert/remove do not read    *)
(* (owner, movability, protection, provenance) is one value of Metas.  Its *)
(* generation is kept apart: no call reads it either, although the comment *)
(* of insert_allocation says that a stale one is rejected (NoStaleInsert). *)
(***************************************************************************)
EXTENDS Integers, FiniteSets, StdMap, LayoutOps

CONSTANTS
    UMax,        \* the largest std::uint64_t; sums of raw values wrap at UMax + 1
    Capacities,  \* the capacities a resource may be published with
    Ids,         \* AllocationIds
    Generations, \* the generations an allocation may carry
    Metas,       \* the other metadata an allocation may carry
    NoId         \* std::nullopt of Region::alloc_id

ASSUME UMaxAssumption == UMax \in Nat
ASSUME CapacitiesAssumption == Capacities \subseteq 0 .. UMax
ASSUME GenerationsAssumption == Generations \subseteq Nat
ASSUME NoIdAssumption == NoId \notin Ids

VARIABLES
    capacity,      \* capacity_
    regions,       \* regions_: offset -> [kind, length, id]
    freeLengths,   \* free_lengths_, a multiset: length -> multiplicity
    allocOffsets,  \* alloc_offsets_: id -> offset
    allocations,   \* allocations_: id -> [offset, length, generation, meta]
    freeCapacity,  \* free_capacity_
    allocCount     \* alloc_count_

vars == <<capacity, regions, freeLengths, allocOffsets, allocations,
          freeCapacity, allocCount>>

Uint == 0 .. UMax

FreeRegion(len) == [kind |-> "FREE", length |-> len, id |-> NoId]
AllocatedRegion(len, id) == [kind |-> "ALLOCATED", length |-> len, id |-> id]

Region == [kind : {"FREE", "ALLOCATED"}, length : Uint, id : Ids \cup {NoId}]
Allocation == [offset : Uint, length : Uint, generation : Generations, meta : Metas]

(* The end of the region at offset o. *)
EndOf(o) == o + regions[o].length

-----------------------------------------------------------------------------
(***************************************************************************)
(* Construction: one free region over the whole resource, none at all when *)
(* the capacity is zero.                                                   *)
(***************************************************************************)
Init ==
    /\ capacity \in Capacities
    /\ regions = IF capacity = 0 THEN EmptyMap
                 ELSE Emplace(EmptyMap, 0, FreeRegion(capacity))
    /\ freeLengths = [l \in Uint |-> IF l = capacity /\ l # 0 THEN 1 ELSE 0]
    /\ allocOffsets = EmptyMap
    /\ allocations = EmptyMap
    /\ freeCapacity = capacity
    /\ allocCount = 0

-----------------------------------------------------------------------------
(* The multiset free_lengths_: insert and consume_free. *)
AddFree(bag, len) == [bag EXCEPT ![len] = @ + 1]
ConsumeFree(bag, len) == [bag EXCEPT ![len] = IF @ > 0 THEN @ - 1 ELSE @]

(* Bug: the "guard explicitly anyway" test of validate_geometry dropped.   *)
ValidateGeometryNoEndGuard(off, len) ==
    /\ len # 0
    /\ (off + len) % (UMax + 1) <= capacity
    /\ off <= capacity

(***************************************************************************)
(* validate_geometry works on raw uint64 values: the first sum wraps.      *)
(***************************************************************************)
ValidateGeometry(off, len) ==
    /\ len # 0
    /\ (off + len) % (UMax + 1) <= capacity
    /\ off <= capacity
    /\ len <= capacity - off

(***************************************************************************)
(* region_containing: the last region that starts at or before off, if off *)
(* lies inside it.                                                         *)
(***************************************************************************)
RegionContaining(f, off) ==
    /\ f \in DOMAIN regions
    /\ f <= off
    /\ \A g \in DOMAIN regions : g <= off => g <= f
    /\ off < EndOf(f)

(* Bug: the region found is not tested for being free.                     *)
InsertAcceptedAnyKind(id, a, f) ==
    /\ ValidateGeometry(a.offset, a.length)
    /\ id \notin DOMAIN allocations
    /\ RegionContaining(f, a.offset)
    /\ a.offset + a.length <= EndOf(f)

(* Bug: the allocation may run past the end of the free region.            *)
InsertAcceptedNoEndCheck(id, a, f) ==
    /\ ValidateGeometry(a.offset, a.length)
    /\ id \notin DOMAIN allocations
    /\ RegionContaining(f, a.offset)
    /\ regions[f].kind = "FREE"

(* insert_allocation passes all its early returns: f is the free region    *)
(* that will be split.  None of the tests is about the generation.         *)
InsertAccepted(id, a, f) ==
    /\ ValidateGeometry(a.offset, a.length)
    /\ id \notin DOMAIN allocations
    /\ RegionContaining(f, a.offset)
    /\ regions[f].kind = "FREE"
    /\ a.offset + a.length <= EndOf(f)

(* Bug: the free region is not erased first, so that emplace at its key    *)
(* silently fails (the corruption the comment in insert_allocation names). *)
SplitRegionsNoErase(id, off, len, f) ==
    LET end   == EndOf(f)
        left  == IF off > f THEN Emplace(regions, f, FreeRegion(off - f)) ELSE regions
        mid   == Emplace(left, off, AllocatedRegion(len, id))
    IN  IF off + len < end
        THEN Emplace(mid, off + len, FreeRegion(end - (off + len)))
        ELSE mid

(* Bug: <= for <, an empty free region after an exact fit.                 *)
SplitRegionsEmptyRight(id, off, len, f) ==
    LET end   == EndOf(f)
        gone  == Erase(regions, f)
        left  == IF off > f THEN Emplace(gone, f, FreeRegion(off - f)) ELSE gone
        mid   == Emplace(left, off, AllocatedRegion(len, id))
    IN  Emplace(mid, off + len, FreeRegion(end - (off + len)))

(***************************************************************************)
(* Splitting free region f around [off, off + len).                        *)
(***************************************************************************)
SplitRegions(id, off, len, f) ==
    LET end   == EndOf(f)
        gone  == Erase(regions, f)
        left  == IF off > f THEN Emplace(gone, f, FreeRegion(off - f)) ELSE gone
        mid   == Emplace(left, off, AllocatedRegion(len, id))
    IN  IF off + len < end
        THEN Emplace(mid, off + len, FreeRegion(end - (off + len)))
        ELSE mid

(* Bug: the length of the split region stays in the index.                 *)
SplitFreeLengthsNoConsume(off, len, f) ==
    LET end  == EndOf(f)
        left == IF off > f THEN AddFree(freeLengths, off - f) ELSE freeLengths
    IN  IF off + len < end THEN AddFree(left, end - (off + len)) ELSE left

SplitFreeLengths(off, len, f) ==
    LET end  == EndOf(f)
        gone == ConsumeFree(freeLengths, regions[f].length)
        left == IF off > f THEN AddFree(gone, off - f) ELSE gone
    IN  IF off + len < end THEN AddFree(left, end - (off + len)) ELSE left

(***************************************************************************)
(* insert_allocation.  The sums and differences are checked in the code    *)
(* and throw on overflow; NeverThrows shows that none does.                *)
(***************************************************************************)
InsertAllocation(id, a) ==
    \E f \in DOMAIN regions :
        /\ InsertAccepted(id, a, f)
        /\ regions' = SplitRegions(id, a.offset, a.length, f)
        /\ freeLengths' = SplitFreeLengths(a.offset, a.length, f)
        /\ allocations' = Emplace(allocations, id, a)
        /\ allocOffsets' = Assign(allocOffsets, id, a.offset)
        /\ freeCapacity' = freeCapacity - a.length
        /\ allocCount' = allocCount + 1
        /\ UNCHANGED capacity

(* Bug: update accepts a change of geometry.                               *)
UpdateAllocationAnyGeometry(id, a) ==
    /\ id \in DOMAIN allocations
    /\ allocations' = Assign(allocations, id, a)
    /\ allocOffsets' = Assign(allocOffsets, id, a.offset)
    /\ UNCHANGED <<capacity, regions, freeLengths, freeCapacity, allocCount>>

(***************************************************************************)
(* update_allocation: the metadata of a registered allocation changes, its *)
(* geometry may not.                                                       *)
(***************************************************************************)
UpdateAllocation(id, a) ==
    /\ id \in DOMAIN allocations
    /\ allocations[id].offset = a.offset
    /\ allocations[id].length = a.length
    /\ allocations' = Assign(allocations, id, a)
    /\ allocOffsets' = Assign(allocOffsets, id, a.offset)
    /\ UNCHANGED <<capacity, regions, freeLengths, freeCapacity, allocCount>>

-----------------------------------------------------------------------------
(* std::prev and std::next of the region at off: the neighbouring keys.    *)
Before(off) == {p \in DOMAIN regions :
                  p < off /\ \A q \in DOMAIN regions : q < off => q <= p}
After(off)  == {p \in DOMAIN regions :
                  p > off /\ \A q \in DOMAIN regions : q > off => q >= p}

(* Bug: the right neighbour is never merged.                               *)
FreeRightNever(off) == {}

(* The neighbours that remove_allocation merges: at most one on each side. *)
FreeLeft(off)  == {p \in Before(off) : regions[p].kind = "FREE"}
FreeRight(off) == {p \in After(off) : regions[p].kind = "FREE"}

MergedStart(off) == IF FreeLeft(off) = {} THEN off ELSE CHOOSE p \in FreeLeft(off) : TRUE
MergedEnd(off, len) ==
    IF FreeRight(off) = {} THEN off + len
    ELSE EndOf(CHOOSE p \in FreeRight(off) : TRUE)

(* The freed span replaces the region and the free neighbours it absorbs.  *)
MergeRegions(off, len) ==
    LET absorbed == {off} \cup FreeLeft(off) \cup FreeRight(off)
        rest     == [o \in DOMAIN regions \ absorbed |-> regions[o]]
    IN  Emplace(rest, MergedStart(off), FreeRegion(MergedEnd(off, len) - MergedStart(off)))

MergeFreeLengths(off, len) ==
    LET left  == IF FreeLeft(off) = {} THEN freeLengths
                 ELSE ConsumeFree(freeLengths, regions[MergedStart(off)].length)
        right == IF FreeRight(off) = {} THEN left
                 ELSE ConsumeFree(left, regions[CHOOSE p \in FreeRight(off) : TRUE].length)
    IN  AddFree(right, MergedEnd(off, len) - MergedStart(off))

(* remove_allocation refuses to touch a layout whose indexes disagree.     *)
Consistent(id) ==
    /\ allocOffsets[id] \in DOMAIN regions
    /\ regions[allocOffsets[id]].kind = "ALLOCATED"
    /\ regions[allocOffsets[id]].id = id

(* remove_allocation. *)
RemoveAllocation(id) ==
    /\ id \in DOMAIN allocations
    /\ Consistent(id)
    /\ LET off == allocOffsets[id]
           len == allocations[id].length
       IN  /\ regions' = MergeRegions(off, len)
           /\ freeLengths' = MergeFreeLengths(off, len)
           /\ freeCapacity' = freeCapacity + len
    /\ allocCount' = allocCount - 1
    /\ allocations' = Erase(allocations, id)
    /\ allocOffsets' = Erase(allocOffsets, id)
    /\ UNCHANGED capacity

(***************************************************************************)
(* A call that returns false leaves the layout alone; that is a stuttering *)
(* step.                                                                   *)
(***************************************************************************)
Next ==
    \/ \E id \in Ids, a \in Allocation : InsertAllocation(id, a)
    \/ \E id \in Ids, a \in Allocation : UpdateAllocation(id, a)
    \/ \E id \in Ids : RemoveAllocation(id)

Spec == Init /\ [][Next]_vars

-----------------------------------------------------------------------------
(***************************************************************************)
(* Correctness.                                                            *)
(***************************************************************************)

(* Every field of the layout object keeps its type through insert, update  *)
(* and remove; offsets and lengths stay inside the resource.               *)
TypeOK ==
    /\ capacity \in Capacities
    /\ DOMAIN regions \subseteq 0 .. (capacity - 1)
    /\ \A o \in DOMAIN regions : regions[o] \in Region
    /\ freeLengths \in [Uint -> Nat]
    /\ DOMAIN allocations \subseteq Ids
    /\ \A id \in DOMAIN allocations : allocations[id] \in Allocation
    /\ DOMAIN allocOffsets \subseteq Ids
    /\ \A id \in DOMAIN allocOffsets : allocOffsets[id] \in Uint
    /\ freeCapacity \in Uint
    /\ allocCount \in Nat

(* The interval map covers [0, capacity) with no gap and no overlap: every *)
(* byte lies in a region, none is empty, none reaches into another or past *)
(* the end (class comment of ResourceLayout).                              *)
Tiling ==
    /\ \A o \in DOMAIN regions : regions[o].length > 0 /\ EndOf(o) <= capacity
    /\ \A o, p \in DOMAIN regions : o < p => EndOf(o) <= p
    /\ \A c \in 0 .. (capacity - 1) : \E o \in DOMAIN regions : o <= c /\ c < EndOf(o)

(* Free regions are maximal: splits and merges never leave two free        *)
(* regions side by side, so the largest free block is never understated.   *)
FreeMaximal ==
    \A o \in DOMAIN regions :
        regions[o].kind = "FREE" /\ EndOf(o) \in DOMAIN regions
            => regions[EndOf(o)].kind = "ALLOCATED"

(* The registry, the offset index and the interval map describe the same   *)
(* allocations, so remove_allocation never meets its "layout inconsistent  *)
(* with allocation registry" branch.                                       *)
Registry ==
    /\ DOMAIN allocOffsets = DOMAIN allocations
    /\ \A id \in DOMAIN allocations :
          /\ allocOffsets[id] = allocations[id].offset
          /\ allocOffsets[id] \in DOMAIN regions
          /\ regions[allocOffsets[id]] = AllocatedRegion(allocations[id].length, id)
    /\ \A o \in DOMAIN regions :
          /\ regions[o].kind = "ALLOCATED" =>
                regions[o].id \in DOMAIN allocations /\ allocOffsets[regions[o].id] = o
          /\ regions[o].kind = "FREE" => regions[o] = FreeRegion(regions[o].length)

(* The incremental indexes (free_capacity_, free_lengths_, alloc_count_)   *)
(* equal what the allocations alone imply, after any history of calls.     *)
IndexesExact ==
    /\ freeCapacity = FreeCapacity(capacity, allocations)
    /\ allocCount = Cardinality(DOMAIN allocations)
    /\ \A l \in Uint : freeLengths[l] =
          Cardinality({b \in FreeBlocks(capacity, allocations) : b[2] = l})
    /\ Max({0} \cup {l \in Uint : freeLengths[l] > 0})
          = LargestFreeBlock(capacity, allocations)

(* a is as new as everything the layout knows of. *)
NotStale(a) == \A i \in DOMAIN allocations : a.generation >= allocations[i].generation

(* insert_allocation accepts only allocations with a fresh id whose bytes  *)
(* exist and are free, so none whose offset + length wraps around 2^64,    *)
(* and it accepts all of those that are not stale.  The stale ones, which  *)
(* its comment says it rejects, are NoStaleInsert's.                       *)
InsertExact ==
    \A id \in Ids, a \in Allocation :
        LET accepted == \E f \in DOMAIN regions : InsertAccepted(id, a, f)
        IN  /\ accepted => CanInsert(capacity, allocations, id, a)
            /\ CanInsert(capacity, allocations, id, a) /\ NotStale(a) => accepted

(* What layout.hpp:69-71 says of insert_allocation: it rejects a "stale    *)
(* generation relative to the layout's known maximum", here the greatest   *)
(* generation among the registered allocations.                            *)
NoStaleInsert ==
    [][\A id \in DOMAIN allocations' \ DOMAIN allocations : NotStale(allocations'[id])]_vars

(* No checked arithmetic of Bytes or Count throws ValueError, which would  *)
(* leave the layout half-modified: the early returns of insert_allocation  *)
(* bound offset + length and the length, remove_allocation never exceeds   *)
(* the word or counts below zero, used_capacity() never underflows.        *)
NeverThrows ==
    /\ \A id \in Ids, a \in Allocation :
          /\ ValidateGeometry(a.offset, a.length) => a.offset + a.length <= UMax
          /\ (\E f \in DOMAIN regions : InsertAccepted(id, a, f)) =>
                a.length <= freeCapacity
    /\ \A id \in DOMAIN allocations :
          freeCapacity + allocations[id].length <= UMax /\ allocCount > 0
    /\ freeCapacity <= capacity

(* The layout implements the byte-ownership map: the owner of a byte is    *)
(* the id of the region over it.                                           *)
OwnerOf(c) ==
    regions[CHOOSE o \in DOMAIN regions : o <= c /\ c < EndOf(o)].id

Abstract == INSTANCE CellMap WITH owner <- [c \in 0 .. (capacity - 1) |-> OwnerOf(c)]

(* Every insert is a grant of free bytes and every remove releases exactly *)
(* the bytes of that allocation; nothing else changes a byte's owner.      *)
ImplementsCellMap == Abstract!Spec
=============================================================================
