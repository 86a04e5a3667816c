------------------------------- MODULE Metrics -------------------------------
(***************************************************************************)
(* compute_metrics of src/metrics/metrics.cpp for one device and a demand. *)
(* A demand also has a field contiguous here, which only the metrics read. *)
(* The ratios are the quotients of the fields largest, stranded and free.  *)
(***************************************************************************)
EXTENDS Fit

(* Bug: a reservation does not protect an allocation. *)
IsProtectedUnlessReserved(a) == a.policy_protected \/ a.movability \in Fixed

IsProtected(a) == a.policy_protected \/ a.reserved \/ a.movability \in Fixed

(* is_movable_class looks at the class alone, not at the protections. *)
IsMovableClass(a) == a.movability \in Movable

(* The bytes of the allocations of d in ids. *)
Bytes(d, ids) == MapThenSumSet(LAMBDA i : d.allocs[i].length, ids)

(* Bug: the largest block after reclaiming, not what reclaiming adds. *)
OpportunityTotal(d) == Largest(AfterReclaim(d))

(* reclaimable_opportunity *)
Opportunity(d) == Max({0, Largest(AfterReclaim(d)) - Largest(d)})

(* dominant_categories *)
Categories(m) ==
    (IF m.blocks > 1 THEN {"EXTERNAL", "CONTIGUITY"} ELSE {}) \cup
    (IF m.protected > 0 /\ m.stranded > 0 THEN {"OWNERSHIP"} ELSE {})

(* The part that needs no demand. *)
LayoutMetrics(d) ==
    LET ids == DOMAIN d.allocs
    IN  [total       |-> d.cap,
         used        |-> d.cap - Free(d),
         free        |-> Free(d),
         blocks      |-> Cardinality(FreeBlocks(d.cap, d.allocs)),
         largest     |-> Largest(d),
         protected   |-> Bytes(d, {i \in ids : IsProtected(d.allocs[i])}),
         movable     |-> Bytes(d, {i \in ids : IsMovableClass(d.allocs[i])}),
         reclaimable |-> Bytes(d, {i \in ids : Reclaimable(d.allocs[i])}),
         stranded    |-> Max({0, Free(d) - Largest(d)})]

(* The part that does. *)
WorkloadMetrics(d, demand) ==
    LET fits   == /\ Free(d) >= demand.aggregate
                  /\ demand.contiguous > 0 => Largest(d) >= demand.contiguous
        usable == IF fits THEN demand.aggregate ELSE Largest(d)
    IN  [fits        |-> fits,
         usable      |-> usable,
         stranded    |-> Max({0, Free(d) - usable}),
         opportunity |-> Opportunity(d)]
=============================================================================
