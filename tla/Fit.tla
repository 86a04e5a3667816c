--------------------------------- MODULE Fit ---------------------------------
(***************************************************************************)
(* Shape-aware fit analysis: src/fit/fit.cpp, with the eligibility         *)
(* predicates of movability.hpp and metrics.cpp.                           *)
(*                                                                         *)
(* A device is [cap, allocs, group]: what DeviceState carries that fit,    *)
(* planning and verification read (allocs as in LayoutOps, with fields     *)
(* movability, reserved and policy_protected besides the geometry).  A     *)
(* snapshot is [devices, prov, gens, epoch, policyGen, reservations];      *)
(* devices is a map from the resource id.  A demand is                     *)
(* [count, perDevice, aggregate, group, duration].                         *)
(***************************************************************************)
EXTENDS LayoutOps, Sequences, SequencesExt

CONSTANTS
    NoGroup,      \* std::nullopt of a topology_group
    NoDuration,   \* std::nullopt of reservation_duration
    Horizon       \* the end of the reservation horizon, UINT64_MAX / 2

Movable == {"MOVABLE_LIVE", "MOVABLE_AFTER_QUIESCE", "MOVABLE_AFTER_CHECKPOINT"}
Droppable == {"RECOMPUTABLE", "EVICTABLE", "RELEASEABLE"}
Fixed == {"IMMOVABLE", "RESERVATION_PROTECTED", "POLICY_PROTECTED", "UNKNOWN"}
Movability == Movable \cup Droppable \cup Fixed

FitOutcomes ==
    {"FIT_NOW", "NO_FIT_RAW_CAPACITY", "NO_FIT_FRAGMENTATION", "NO_FIT_TOPOLOGY",
     "NO_FIT_RESERVATION", "NO_FIT_TEMPORAL", "NO_FIT_PROTECTED_STATE",
     "FIT_AFTER_RECLAIM", "REVALIDATION_REQUIRED", "INSUFFICIENT_EVIDENCE", "THROWS"}

(* may_move: the single authority-safe eligibility predicate. *)
MayMove(m) == m \in Movable \cup Droppable

(* reclaimable(): the same three tests in fit.cpp, planner.cpp, metrics.cpp *)
Reclaimable(a) == ~a.policy_protected /\ ~a.reserved /\ MayMove(a.movability)

(* What verify_remediation requires to survive a remediation. *)
Protected(a) ==
    \/ a.reserved
    \/ a.policy_protected
    \/ a.movability \in {"IMMOVABLE", "RESERVATION_PROTECTED", "POLICY_PROTECTED"}

-----------------------------------------------------------------------------
Free(d) == FreeCapacity(d.cap, d.allocs)
Largest(d) == LargestFreeBlock(d.cap, d.allocs)

DeviceSatisfies(d, demand) ==
    Free(d) >= demand.perDevice /\ Largest(d) >= demand.perDevice

(* d without the allocations in ids: remove_allocation on a copy. *)
Without(d, ids) ==
    [d EXCEPT !.allocs = [i \in DOMAIN d.allocs \ ids |-> d.allocs[i]]]

(* Bug: reserved allocations are simulated away as well. *)
AfterReclaimMovable(d) ==
    Without(d, {i \in DOMAIN d.allocs : MayMove(d.allocs[i].movability)})

(* The simulation of count_satisfying_after_reclaim/aggregate_after_reclaim *)
AfterReclaim(d) == Without(d, {i \in DOMAIN d.allocs : Reclaimable(d.allocs[i])})

AggregateFree(devs) == MapThenSumSet(LAMBDA r : Free(devs[r]), DOMAIN devs)
Satisfying(devs, demand) ==
    Cardinality({r \in DOMAIN devs : DeviceSatisfies(devs[r], demand)})

(* accelerator_count 0 stands for one device. *)
NeededCount(demand) == IF demand.count = 0 THEN 1 ELSE demand.count

-----------------------------------------------------------------------------
(* Bug: a reservation that ends before the cursor moves it back. *)
SweepStepBack(st, r, end, required) ==
    IF st.result # "SCAN" THEN st
    ELSE IF r.start >= st.cursor /\ r.start - st.cursor >= required
         THEN [st EXCEPT !.result = "FOUND"]
         ELSE [cursor |-> r.end, result |-> IF r.end >= end THEN "LEFT" ELSE "SCAN"]

(* The reservations as the sort leaves them: by start, those that start at *)
(* the same time in any order.                                             *)
ByStart(reservations) ==
    LET places == DOMAIN reservations
        order  == CHOOSE p \in [places -> places] :
                      \A i, j \in places :
                          i < j => /\ p[i] # p[j]
                                   /\ reservations[p[i]].start <= reservations[p[j]].start
    IN  [i \in places |-> reservations[order[i]]]

(***************************************************************************)
(* temporal_continuous_fit on [start, end): sweep the reservations by      *)
(* start, move the cursor past each, stop at the first gap that is long    *)
(* enough or once the cursor has left the horizon.  The tail is a checked  *)
(* difference: it throws when the cursor is past the end.                  *)
(***************************************************************************)
SweepStep(st, r, end, required) ==
    IF st.result # "SCAN" \/ r.end <= st.cursor THEN st
    ELSE IF r.start >= st.cursor /\ r.start - st.cursor >= required
         THEN [st EXCEPT !.result = "FOUND"]
         ELSE [cursor |-> r.end, result |-> IF r.end >= end THEN "LEFT" ELSE "SCAN"]

TemporalContinuousFit(reservations, start, end, required) ==
    LET byStart == ByStart(reservations)
        sweep[k \in 0 .. Len(byStart)] ==
            IF k = 0 THEN [cursor |-> start, result |-> "SCAN"]
            ELSE SweepStep(sweep[k - 1], byStart[k], end, required)
        swept   == sweep[Len(byStart)]
    IN  IF required = 0 THEN [result |-> "FOUND", earliest |-> start]
        ELSE IF swept.result = "FOUND" THEN [result |-> "FOUND", earliest |-> swept.cursor]
        ELSE IF swept.cursor > end THEN [result |-> "THROWS", earliest |-> swept.cursor]
        ELSE IF end - swept.cursor >= required
             THEN [result |-> "FOUND", earliest |-> swept.cursor]
             ELSE [result |-> "NONE", earliest |-> swept.cursor]

-----------------------------------------------------------------------------
(* The devices a demand may use: those reporting its topology group. *)
Selected(devs, demand) ==
    {r \in DOMAIN devs : demand.group = NoGroup \/ devs[r].group = demand.group}

(* Why a demand does not fit although enough bytes are free. *)
ShortfallCause(devs, demand) ==
    LET needed  == NeededCount(demand)
        reclaim == [r \in DOMAIN devs |-> AfterReclaim(devs[r])]
    IN  IF demand.group # NoGroup /\ Cardinality(DOMAIN devs) < needed
        THEN "NO_FIT_TOPOLOGY"
        ELSE IF /\ Satisfying(reclaim, demand) >= needed
                /\ AggregateFree(reclaim) >= demand.aggregate
        THEN "FIT_AFTER_RECLAIM"
        ELSE IF \A r \in DOMAIN devs : \A i \in DOMAIN devs[r].allocs :
                    ~Reclaimable(devs[r].allocs[i])
        THEN "NO_FIT_PROTECTED_STATE"
        ELSE "NO_FIT_FRAGMENTATION"

(* The reservation gate: what it blocks with, or FIT_NOW; an overflow of   *)
(* the temporal analysis escapes analyze_fit.                              *)
ReservationGate(reservations, demand) ==
    LET window == TemporalContinuousFit(reservations, 0, Horizon, demand.duration).result
    IN  IF demand.duration = NoDuration \/ reservations = <<>> \/ window = "FOUND"
    THEN "FIT_NOW"
    ELSE IF window = "THROWS"
    THEN "THROWS"
    ELSE IF \E i \in DOMAIN reservations : reservations[i].hard
    THEN "NO_FIT_RESERVATION"
    ELSE "NO_FIT_TEMPORAL"

(***************************************************************************)
(* KnownResourceGenerations::complete().                                   *)
(***************************************************************************)
Complete(gens) == gens.resource # 0 /\ gens.allocation # 0 /\ gens.reservation # 0

(* analyze_fit *)
AnalyzeFit(snap, demand) ==
    LET sel  == Selected(snap.devices, demand)
        devs == [r \in sel |-> snap.devices[r]]
    IN  IF ~Complete(snap.gens) \/ snap.prov = "UNKNOWN" THEN "REVALIDATION_REQUIRED"
        ELSE IF DOMAIN snap.devices = {} THEN "INSUFFICIENT_EVIDENCE"
        ELSE IF AggregateFree(devs) < demand.aggregate THEN "NO_FIT_RAW_CAPACITY"
        ELSE IF Satisfying(devs, demand) < NeededCount(demand)
        THEN ShortfallCause(devs, demand)
        ELSE ReservationGate(snap.reservations, demand)
=============================================================================
