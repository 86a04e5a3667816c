------------------------------- MODULE CellMap -------------------------------
(***************************************************************************)
(* What a resource layout promises, with no intervals, splits or indexes:  *)
(* every byte of the resource is free or belongs to one allocation; an     *)
(* allocation is granted a run of free bytes and gives back exactly those. *)
(***************************************************************************)
EXTENDS Integers

CONSTANTS UMax, Capacities, Ids, NoId

VARIABLE owner   \* byte -> the allocation that holds it, or NoId

(* The bytes that allocation id holds. *)
Held(id) == {c \in DOMAIN owner : owner[c] = id}

Init == \E cap \in Capacities : owner = [c \in 0 .. (cap - 1) |-> NoId]

Grant(id, off, len) ==
    LET span == off .. (off + len - 1)
    IN  /\ len > 0
        /\ span \subseteq DOMAIN owner
        /\ Held(id) = {}
        /\ \A c \in span : owner[c] = NoId
        /\ owner' = [c \in DOMAIN owner |-> IF c \in span THEN id ELSE owner[c]]

Release(id) ==
    /\ Held(id) # {}
    /\ owner' = [c \in DOMAIN owner |-> IF owner[c] = id THEN NoId ELSE owner[c]]

Next ==
    \/ \E id \in Ids, off \in 0 .. UMax, len \in 0 .. UMax : Grant(id, off, len)
    \/ \E id \in Ids : Release(id)

Spec == Init /\ [][Next]_owner
=============================================================================
