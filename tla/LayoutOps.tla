------------------------------ MODULE LayoutOps ------------------------------
(***************************************************************************)
(* What a layout means: free space as a function of the capacity and of    *)
(* the registered allocations alone.  ResourceLayout shows that the        *)
(* incrementally maintained indexes of the class compute exactly these     *)
(* values, so the modules above the layout use these definitions and keep  *)
(* only the allocations.                                                   *)
(*                                                                         *)
(* allocs is a map id -> record with (at least) fields offset and length.  *)
(***************************************************************************)
EXTENDS Integers, FiniteSets, FiniteSetsExt

(* The bytes an allocation occupies. *)
Cells(a) == a.offset .. (a.offset + a.length - 1)

UsedCells(allocs) == UNION {Cells(allocs[i]) : i \in DOMAIN allocs}
FreeCells(cap, allocs) == (0 .. (cap - 1)) \ UsedCells(allocs)

(* Maximal runs of free bytes, as pairs <<start, length>>. *)
FreeBlocks(cap, allocs) ==
    LET free == FreeCells(cap, allocs)
    IN  {b \in (0 .. (cap - 1)) \X (1 .. cap) :
            /\ b[1] .. (b[1] + b[2] - 1) \subseteq free
            /\ (b[1] - 1) \notin free
            /\ (b[1] + b[2]) \notin free}

(* free_capacity() and largest_free_block() *)
FreeCapacity(cap, allocs) == Cardinality(FreeCells(cap, allocs))
LargestFreeBlock(cap, allocs) == Max({0} \cup {b[2] : b \in FreeBlocks(cap, allocs)})

(* insert_allocation returns true. *)
CanInsert(cap, allocs, id, a) ==
    /\ a.length # 0
    /\ a.offset + a.length <= cap
    /\ id \notin DOMAIN allocs
    /\ Cells(a) \cap UsedCells(allocs) = {}
=============================================================================
