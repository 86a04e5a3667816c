---------------------------- MODULE MCCoordinator ----------------------------
(***************************************************************************)
(* TLC instances of Coordinator.  A device has four bytes; allocation 2    *)
(* pins byte 3 and allocation 1 in the middle leaves two bytes of free     *)
(* space stranded, so a demand for three contiguous bytes needs it gone.   *)
(***************************************************************************)
EXTENDS Coordinator

Alloc(i, off, len, m) ==
    [id |-> i, offset |-> off, length |-> len, movability |-> m,
     reserved |-> FALSE, policy_protected |-> FALSE]

Small   == Alloc(1, 1, 1, "RELEASEABLE")
Pinned  == Alloc(2, 3, 1, "IMMOVABLE")
Crossing == Alloc(1, 2, 2, "EVICTABLE")   \* overlaps Pinned
SmallIm == [Small EXCEPT !.reserved = TRUE]

MCAllocs == {Small, Pinned}
MCAllocsCrossing == {Small, Crossing, Pinned}
MCAllocsReserved == {Small, SmallIm, Pinned}
MCLayouts == {<<Small, Pinned>>}
MCLayoutsCrossing == {<<Small, Pinned>>, <<Pinned, Crossing>>}

Published(r, g) == [id |-> r, gen |-> g, cap |-> 4, group |-> NoGroup, prov |-> "MEASURED"]
OneDevice  == {Published(1, 1)}
OneDeviceTwice == {Published(1, 1), Published(1, 2)}

Want(n) == [count |-> 1, perDevice |-> n, aggregate |-> n, group |-> NoGroup,
            duration |-> NoDuration]

(* The smallest instance with something to reclaim: two bytes, one taken. *)
Tiny       == Alloc(1, 0, 1, "RELEASEABLE")
TinyAllocs == {Tiny}
TinyDevice == {[Published(1, 1) EXCEPT !.cap = 2]}
TinyLayouts == {<<Tiny>>}
TinyDemand == {Want(2)}

OneDemand  == {Want(3)}
TwoDemands == {Want(3), Want(1)}

(* Bound on what happens around a state file: it is written, and read by   *)
(* a second process, while one incarnation of one worker has published the *)
(* device with nothing but Small on it, now and in every before-snapshot;  *)
(* a second plan is created only by the second process and not saved.      *)
OnlySmall(allocs) == \A i \in DOMAIN allocs : allocs[i] = Small

SimpleAroundFile ==
    /\ epoch = 1 => plans[2] = NoPlan
    /\ disk # NoState \/ epoch # 1 =>
          /\ boot[1] # 2 /\ boot[2] = 0
          /\ policyGen = 1
          /\ \A r \in ResourceIds : Known(r) =>
                resources[r].gen = 1 /\ OnlySmall(resources[r].allocs)
          /\ \A p \in PlanIds : before[p] # NoSnap =>
                \A r \in DOMAIN before[p].devices : OnlySmall(before[p].devices[r].allocs)
=============================================================================
