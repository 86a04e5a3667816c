------------------------------- MODULE Planner -------------------------------
(***************************************************************************)
(* plan_remediation of src/planner/planner.cpp, for the default policy and *)
(* weights the coordinator passes.  Scores other than the disruption of a  *)
(* movability class order nothing and are left out.                        *)
(***************************************************************************)
EXTENDS Fit

CONSTANT NoAlloc   \* std::nullopt of source_allocation

(* disruption_of, in percent; the factor 1 - displacement_cost_weight is   *)
(* the same for every candidate.                                           *)
DisruptionOf(m) ==
    CASE m = "RELEASEABLE" -> 10
      [] m = "RECOMPUTABLE" -> 25
      [] m = "EVICTABLE" -> 40
      [] m = "MOVABLE_AFTER_CHECKPOINT" -> 60
      [] m = "MOVABLE_AFTER_QUIESCE" -> 80
      [] m = "MOVABLE_LIVE" -> 95
      [] OTHER -> 100

ActionKinds == {"RELEASE_UNUSED", "EVICT_RECOMPUTABLE", "MOVE_ALLOCATION",
                "NO_BENEFICIAL_ACTION"}

KindFor(m) ==
    CASE m = "RELEASEABLE" -> "RELEASE_UNUSED"
      [] m \in {"RECOMPUTABLE", "EVICTABLE"} -> "EVICT_RECOMPUTABLE"
      [] m \in Movable -> "MOVE_ALLOCATION"
      [] OTHER -> "NO_BENEFICIAL_ACTION"

(* eval() and the test made on its result. *)
PlanFits(devs, demand) ==
    /\ Satisfying(devs, demand) >= NeededCount(demand)
    /\ AggregateFree(devs) >= demand.aggregate

-----------------------------------------------------------------------------
(* The allocations that may be displaced, with the device they are on. *)
Candidates(devs) ==
    UNION {{[res |-> r, src |-> i] :
                i \in {j \in DOMAIN devs[r].allocs : Reclaimable(devs[r].allocs[j])}} :
           r \in DOMAIN devs}

(* The comparison of the stable sort; candidates that compare equal keep   *)
(* the order of the devices.                                               *)
CheaperThan(devs, c, d) ==
    LET a == devs[c.res].allocs[c.src]
        b == devs[d.res].allocs[d.src]
        x == <<DisruptionOf(a.movability), a.length, c.src, c.res>>
        y == <<DisruptionOf(b.movability), b.length, d.src, d.res>>
    IN  \E i \in 1 .. 4 : x[i] < y[i] /\ \A j \in 1 .. (i - 1) : x[j] = y[j]

(* The candidates as the sort leaves them.                                 *)
InOrder(devs) ==
    LET cands == Candidates(devs)
    IN  CHOOSE s \in [1 .. Cardinality(cands) -> cands] :
            \A i, j \in DOMAIN s : i < j => CheaperThan(devs, s[i], s[j])

(* The devices once the given candidates have been removed from the copy.  *)
Displaced(devs, cands) ==
    [r \in DOMAIN devs |-> Without(devs[r], {c.src : c \in {d \in cands : d.res = r}})]

(* The k candidates that the sort puts first.                              *)
Cheapest(devs, k) ==
    LET cands   == Candidates(devs)
        rank(c) == Cardinality({d \in cands : CheaperThan(devs, d, c)})
    IN  {c \in cands : rank(c) < k}

(* How many candidates leave a state in which the demand fits.             *)
Sufficient(devs, demand) ==
    {k \in 0 .. Cardinality(Candidates(devs)) :
        PlanFits(Displaced(devs, Cheapest(devs, k)), demand)}

(* The greedy loop takes candidates in order and breaks as soon as the     *)
(* demand fits; plan_remediation then returns a plan unless the demand     *)
(* fitted from the start or still does not fit once all are taken.         *)
HasPlan(devs, demand) ==
    0 \notin Sufficient(devs, demand) /\ Sufficient(devs, demand) # {}

(* The actions of the plan, one per candidate taken.  An action is named   *)
(* by the allocation it displaces; its index in the vector only selects it.*)
PlannedActions(devs, demand) ==
    {[kind |-> KindFor(devs[c.res].allocs[c.src].movability),
      res  |-> c.res,
      src  |-> c.src] : c \in Cheapest(devs, Min(Sufficient(devs, demand)))}
=============================================================================
