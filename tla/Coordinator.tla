----------------------------- MODULE Coordinator -----------------------------
(***************************************************************************)
(* The coordinator state machine of src/coordinator/coordinator.cpp: one   *)
(* action per message type of Coordinator::handle, plus mark_worker_dead   *)
(* when a worker's connection closes and a crash followed by a restart of  *)
(* the process (tools/fg_coordinator.cpp).  handle() runs under one mutex, *)
(* so each message is one atomic step.  A message that is refused changes  *)
(* nothing and is a stuttering step.                                       *)
(*                                                                         *)
(* Any client may send any message in any order: the inputs are the sets   *)
(* of the CONSTANTS.  Layouts are kept as their allocations (LayoutOps).   *)
(* The actions of a plan are a set: a vector index only selects one.       *)
(***************************************************************************)
EXTENDS Planner, Verification, StdMap

CONSTANTS
    Workers,        \* WorkerIds
    Boots,          \* WorkerBootIds
    ResourceIds,
    AllocIds,
    ResourceMsgs,   \* resources a worker may publish
    AllocMsgs,      \* allocations a worker may publish
    LayoutMsgs,     \* sequences of allocations a worker may publish as a layout
    Demands,        \* demands a controller may send
    GenMax,         \* UINT64_MAX, where Generation::next saturates
    MaxPolicyGen,   \* bound on policy advances
    MaxPlans,       \* bound on the plans created
    Epochs,         \* epochs the process may be started with
    FreshEpochs,    \* TRUE if a restart is always given a greater epoch
    NoRec, NoPlan, NoSnap, NoState, NoVerification, NoRes

ResourceMsg == [id : ResourceIds, gen : Nat, cap : Nat, group : Nat \cup {NoGroup},
                prov : {"MEASURED", "SYNTHETIC", "UNKNOWN"}]
AllocMsg == [id : AllocIds, offset : Nat, length : Nat, movability : Movability,
             reserved : BOOLEAN, policy_protected : BOOLEAN]
Demand == [count : Nat, perDevice : Nat, aggregate : Nat, group : Nat \cup {NoGroup},
           duration : Nat \cup {NoDuration}]

ASSUME MessageAssumption ==
    /\ Boots \subseteq Nat \ {0}
    /\ ResourceIds \subseteq Nat
    /\ AllocIds \subseteq Nat
    /\ ResourceMsgs \subseteq ResourceMsg
    /\ AllocMsgs \subseteq AllocMsg
    /\ LayoutMsgs \subseteq Seq(AllocMsgs)
    /\ Demands \subseteq Demand
ASSUME BoundAssumption ==
    /\ GenMax \in Nat \ {0}
    /\ MaxPolicyGen \in Nat
    /\ MaxPlans \in Nat
    /\ Epochs \subseteq Nat \ {0}
    /\ FreshEpochs \in BOOLEAN

-----------------------------------------------------------------------------
(* The types of the coordinator's fields. *)
PlanIds == 1 .. MaxPlans

PlanStates ==
    {"PLAN_READY", "APPROVED", "EXECUTING", "VERIFYING", "COMPLETED",
     "PARTIALLY_COMPLETED", "FAILED", "CANCELLED", "REVALIDATION_REQUIRED"}

Gens == [resource : 0 .. GenMax, allocation : 0 .. GenMax, reservation : 0 .. GenMax]
LiveGens == [resource : 1 .. GenMax, allocation : 1 .. GenMax, reservation : 1 .. GenMax]
Caps == {m.cap : m \in ResourceMsgs}
Groups == {m.group : m \in ResourceMsgs}
Layouts == UNION {[S -> AllocMsgs] : S \in SUBSET AllocIds}
Device == [cap : Caps, group : Groups, allocs : Layouts]
Devices == UNION {[S -> Device] : S \in SUBSET ResourceIds}
Record == [gen : Nat, cap : Caps, group : Groups,
           prov : {"MEASURED", "SYNTHETIC", "UNKNOWN"}, allocs : Layouts,
           worker : Workers, boot : Boots, alive : BOOLEAN]
Action == [kind : ActionKinds, res : ResourceIds \cup {NoRes}, src : AllocIds \cup {NoAlloc}]
Verifications == VerificationOutcomes \cup {NoVerification}
Plan == [gen : Nat, policyGen : Nat, epoch : Nat, gens : Gens, state : PlanStates,
         verification : Verifications, actions : SUBSET Action]
Image == [gen : Nat, policyGen : Nat, epoch : Nat, state : PlanStates,
          verification : Verifications, kinds : SUBSET ActionKinds]
Snapshots == [devices : Devices, prov : {"MEASURED", "SYNTHETIC"}, gens : LiveGens,
              epoch : Nat, policyGen : Nat, reservations : {<<>>}]

ASSUME NullAssumption ==
    /\ NoRes \notin ResourceIds
    /\ NoAlloc \notin AllocIds
    /\ NoRec \notin Record
    /\ NoPlan \notin Plan
    /\ NoSnap \notin Snapshots

VARIABLES
    epoch,        \* epoch_
    policyGen,    \* policy_generation_ (and generations_.policy_generation)
    gens,         \* generations_: resource, allocation, reservation
    resources,    \* resources_: id -> record, NoRec when absent
    boot,         \* worker_boot_: 0 when the worker is unknown
    alive,        \* worker_alive_
    plans,        \* plans_: id -> plan, NoPlan when absent
    before,       \* before_snapshots_
    nextPlanId,   \* next_plan_id_
    lastDemand,   \* last_demand_
    disk          \* the state file

vars == <<epoch, policyGen, gens, resources, boot, alive, plans, before,
          nextPlanId, lastDemand, disk>>

workerVars == <<boot, alive>>
planVars   == <<plans, before, nextPlanId, lastDemand>>
authVars   == <<epoch, policyGen>>

(* WorkloadDemand{} *)
NoDemand == [count |-> 0, perDevice |-> 0, aggregate |-> 0, group |-> NoGroup,
             duration |-> NoDuration]

InitGens == [resource |-> 1, allocation |-> 1, reservation |-> 1]

(* Coordinator::Coordinator *)
Init ==
    /\ epoch \in Epochs
    /\ policyGen = 1
    /\ gens = InitGens
    /\ resources = [r \in ResourceIds |-> NoRec]
    /\ boot = [w \in Workers |-> 0]
    /\ alive = [w \in Workers |-> FALSE]
    /\ plans = [p \in PlanIds |-> NoPlan]
    /\ before = [p \in PlanIds |-> NoSnap]
    /\ nextPlanId = 1
    /\ lastDemand = NoDemand
    /\ disk = NoState

-----------------------------------------------------------------------------
(* Bug: next() wraps around instead of saturating. *)
NextGenWraps(g) == (g + 1) % (GenMax + 1)

(* Generation::next, and advance_resource_generation. *)
NextGen(g) == IF g = GenMax THEN g ELSE g + 1
Advanced == [gens EXCEPT !.resource = NextGen(@), !.allocation = NextGen(@)]

Known(r) == resources[r] # NoRec
OwnedBy(r, w) == r \in ResourceIds /\ Known(r) /\ resources[r].worker = w

(* The test every publication starts with. *)
Current(w, b) == alive[w] /\ boot[w] = b

(***************************************************************************)
(* mark_worker_dead: its records stop being evidence and every plan with   *)
(* an action on one of its resources, in any state, must be revalidated.   *)
(***************************************************************************)
DeadResources(w) ==
    [r \in ResourceIds |->
        IF OwnedBy(r, w) THEN [resources[r] EXCEPT !.alive = FALSE] ELSE resources[r]]

DeadPlans(w) ==
    [p \in PlanIds |->
        IF plans[p] # NoPlan /\ \E act \in plans[p].actions : OwnedBy(act.res, w)
        THEN [plans[p] EXCEPT !.state = "REVALIDATION_REQUIRED"]
        ELSE plans[p]]

(* serve(): the connection a worker registered on is closed. *)
WorkerDied(w) ==
    /\ alive' = [alive EXCEPT ![w] = FALSE]
    /\ resources' = DeadResources(w)
    /\ plans' = DeadPlans(w)
    /\ UNCHANGED <<epoch, policyGen, gens, boot, before, nextPlanId, lastDemand, disk>>

(* Bug: a new boot id does not fence its predecessor. *)
RegisterNoFence(w, b) ==
    /\ boot' = [boot EXCEPT ![w] = b]
    /\ alive' = [alive EXCEPT ![w] = TRUE]
    /\ UNCHANGED <<epoch, policyGen, gens, resources, plans, before, nextPlanId,
                   lastDemand, disk>>

(* REGISTER: another boot id on a known worker fences its predecessor. *)
Register(w, b) ==
    LET fresh == boot[w] # 0 /\ boot[w] # b
    IN  /\ resources' = IF fresh THEN DeadResources(w) ELSE resources
        /\ plans' = IF fresh THEN DeadPlans(w) ELSE plans
        /\ boot' = [boot EXCEPT ![w] = b]
        /\ alive' = [alive EXCEPT ![w] = TRUE]
        /\ UNCHANGED <<epoch, policyGen, gens, before, nextPlanId, lastDemand, disk>>

-----------------------------------------------------------------------------
(* PUBLISH_RESOURCE: a greater generation replaces the record of any       *)
(* worker, with an empty layout.                                           *)
PublishResource(w, b, res) ==
    /\ Current(w, b)
    /\ Known(res.id) => resources[res.id].gen < res.gen
    /\ resources' = [resources EXCEPT ![res.id] =
            [gen |-> res.gen, cap |-> res.cap, group |-> res.group, prov |-> res.prov,
             allocs |-> EmptyMap, worker |-> w, boot |-> b, alive |-> TRUE]]
    /\ gens' = Advanced
    /\ UNCHANGED <<authVars, workerVars, planVars, disk>>

(* The layout that a sequence of inserts into an empty one leaves. *)
LayoutOf(as) ==
    [i \in {as[k].id : k \in DOMAIN as} |-> as[CHOOSE k \in DOMAIN as : as[k].id = i]]

(* Bug: each allocation is tested against an empty layout. *)
AllInsertedAlone(cap, as) ==
    \A k \in DOMAIN as : CanInsert(cap, EmptyMap, as[k].id, as[k])

AllInserted(cap, as) ==
    \A k \in DOMAIN as :
        CanInsert(cap, LayoutOf([j \in 1 .. (k - 1) |-> as[j]]), as[k].id, as[k])

(* PUBLISH_LAYOUT: the whole layout of an owned resource is replaced, or   *)
(* nothing is; whether the record counts as evidence does not change.      *)
PublishLayout(w, b, r, g, as) ==
    /\ Current(w, b)
    /\ OwnedBy(r, w)
    /\ g >= resources[r].gen
    /\ AllInserted(resources[r].cap, as)
    /\ resources' = [resources EXCEPT ![r].allocs = LayoutOf(as)]
    /\ gens' = Advanced
    /\ UNCHANGED <<authVars, workerVars, planVars, disk>>

(* PUBLISH_ALLOCATION: into any known resource. *)
PublishAllocation(w, b, r, a) ==
    /\ Current(w, b)
    /\ Known(r)
    /\ CanInsert(resources[r].cap, resources[r].allocs, a.id, a)
    /\ resources' = [resources EXCEPT ![r].allocs = Emplace(@, a.id, a)]
    /\ gens' = Advanced
    /\ UNCHANGED <<authVars, workerVars, planVars, disk>>

(* INVALIDATE_ALLOCATION: from the first resource of the worker that holds *)
(* the id.                                                                 *)
Holds(w, i) == {r \in ResourceIds : OwnedBy(r, w) /\ i \in DOMAIN resources[r].allocs}

InvalidateAllocation(w, b, i) ==
    /\ Current(w, b)
    /\ \E r \in Holds(w, i) :
          /\ \A q \in Holds(w, i) : r <= q
          /\ resources' = [resources EXCEPT ![r].allocs = Erase(@, i)]
    /\ gens' = Advanced
    /\ UNCHANGED <<authVars, workerVars, planVars, disk>>

-----------------------------------------------------------------------------
(* assemble_snapshot: the live records, under the current generations.     *)
LiveResources == {r \in ResourceIds : Known(r) /\ resources[r].alive}

Snapshot ==
    [devices |-> [r \in LiveResources |->
                    [cap    |-> resources[r].cap,
                     group  |-> resources[r].group,
                     allocs |-> resources[r].allocs]],
     prov    |-> IF \E r \in LiveResources : resources[r].prov = "SYNTHETIC"
                 THEN "SYNTHETIC" ELSE "MEASURED",
     gens    |-> gens, epoch |-> epoch, policyGen |-> policyGen,
     reservations |-> <<>>]

(* CREATE_PLAN *)
NewPlan(d) ==
    [gen |-> nextPlanId, policyGen |-> policyGen, epoch |-> epoch, gens |-> gens,
     state |-> "PLAN_READY", verification |-> NoVerification,
     actions |-> PlannedActions(Snapshot.devices, d)]

CreatePlan(d) ==
    /\ nextPlanId <= MaxPlans
    /\ HasPlan(Snapshot.devices, d)
    /\ lastDemand' = d
    /\ plans' = [plans EXCEPT ![nextPlanId] = NewPlan(d)]
    /\ before' = [before EXCEPT ![nextPlanId] = Snapshot]
    /\ nextPlanId' = nextPlanId + 1
    /\ UNCHANGED <<authVars, gens, resources, workerVars, disk>>

(* CREATE_PLAN without a beneficial action still records the demand. *)
NoBeneficialAction(d) ==
    /\ ~HasPlan(Snapshot.devices, d)
    /\ lastDemand' = d
    /\ UNCHANGED <<authVars, gens, resources, workerVars, plans, before, nextPlanId, disk>>

-----------------------------------------------------------------------------
(* Plan p moves to state s; nothing else of the coordinator changes. *)
MoveTo(p, s) ==
    /\ plans' = [plans EXCEPT ![p].state = s]
    /\ UNCHANGED <<authVars, gens, resources, workerVars, before, nextPlanId,
                   lastDemand, disk>>

(* APPROVE_PLAN: from any state; SUPERSEDED, the one refused, is never     *)
(* entered.                                                                *)
ApprovePlan(p) ==
    /\ plans[p] # NoPlan
    /\ plans[p].policyGen = policyGen
    /\ MoveTo(p, "APPROVED")

(* Bug: the epoch of the plan is not compared. *)
CanExecuteAnyEpoch(p, planGen) ==
    /\ plans[p].gen = planGen
    /\ plans[p].policyGen = policyGen
    /\ plans[p].state \notin {"CANCELLED", "REVALIDATION_REQUIRED"}

CanExecute(p, planGen) ==
    /\ plans[p].gen = planGen
    /\ plans[p].policyGen = policyGen
    /\ plans[p].epoch = epoch
    /\ plans[p].state \notin {"CANCELLED", "REVALIDATION_REQUIRED"}

(* BEGIN_ACTION *)
BeginAction(p, planGen) ==
    /\ plans[p] # NoPlan
    /\ plans[p].state = "APPROVED"
    /\ CanExecute(p, planGen)
    /\ plans[p].actions # {}
    /\ MoveTo(p, "EXECUTING")

(* remove_allocation on the target of act, whose result is not looked at.  *)
Removed(act) ==
    [resources EXCEPT ![act.res].allocs = Erase(@, act.src)]

(* Bug: a successful action completes the plan without verification. *)
ActionCompleteUnverified(p, act, ok) ==
    /\ plans[p] # NoPlan
    /\ plans[p].state = "EXECUTING"
    /\ act \in plans[p].actions
    /\ IF ok /\ act.src # NoAlloc /\ act.res \in ResourceIds /\ Known(act.res)
       THEN resources' = Removed(act) /\ gens' = Advanced
       ELSE UNCHANGED <<resources, gens>>
    /\ plans' = [plans EXCEPT ![p].state = IF ok THEN "COMPLETED" ELSE "VERIFYING"]
    /\ UNCHANGED <<authVars, workerVars, before, nextPlanId, lastDemand, disk>>

(* ACTION_COMPLETE: the layout changes only for a successful action that   *)
(* still has a source and a target.                                        *)
ActionComplete(p, act, ok) ==
    /\ plans[p] # NoPlan
    /\ plans[p].state = "EXECUTING"
    /\ act \in plans[p].actions
    /\ IF ok /\ act.src # NoAlloc /\ act.res \in ResourceIds /\ Known(act.res)
       THEN resources' = Removed(act) /\ gens' = Advanced
       ELSE UNCHANGED <<resources, gens>>
    /\ plans' = [plans EXCEPT ![p].state = "VERIFYING"]
    /\ UNCHANGED <<authVars, workerVars, before, nextPlanId, lastDemand, disk>>

Success == {"TARGET_FIT_ACHIEVED", "IMPROVED", "PARTIAL_IMPROVEMENT"}
(* Bug: everything that is not a failure counts as completed. *)
StateForNoChange(outcome) ==
    CASE outcome \in {"REGRESSION", "VERIFICATION_FAILED"} -> "FAILED"
      [] outcome = "REVALIDATION_REQUIRED" -> "REVALIDATION_REQUIRED"
      [] OTHER -> "COMPLETED"

(* The plan state each verification outcome leads to. *)
StateFor(outcome) ==
    CASE outcome \in Success -> "COMPLETED"
      [] outcome = "NO_CHANGE" -> "PARTIALLY_COMPLETED"
      [] outcome \in {"REGRESSION", "VERIFICATION_FAILED"} -> "FAILED"
      [] OTHER -> "REVALIDATION_REQUIRED"

(* VERIFY: against the demand of the last CREATE_PLAN, whoever sent it.    *)
(* The snapshots hold no reservations, so that analyze_fit cannot throw.   *)
Verify(p) ==
    LET outcome == VerifyRemediation(before[p], Snapshot, lastDemand)
    IN  /\ plans[p] # NoPlan
        /\ plans[p].state = "VERIFYING"
        /\ before[p] # NoSnap
        /\ plans' = [plans EXCEPT ![p].verification = outcome,
                                  ![p].state = StateFor(outcome)]
        /\ UNCHANGED <<authVars, gens, resources, workerVars, before, nextPlanId,
                       lastDemand, disk>>

(* CANCEL_PLAN and REVALIDATE: from any state. *)
CancelPlan(p) == plans[p] # NoPlan /\ MoveTo(p, "CANCELLED")
Revalidate(p) == plans[p] # NoPlan /\ MoveTo(p, "REVALIDATION_REQUIRED")

(* ADVANCE_GENERATION, kinds 0, 1 and 2.  Bound: MaxPolicyGen stands for   *)
(* the last policy generation, where next() saturates and the message      *)
(* changes nothing.                                                        *)
AdvanceResourceGeneration ==
    /\ gens' = [gens EXCEPT !.resource = NextGen(@)]
    /\ UNCHANGED <<authVars, resources, workerVars, planVars, disk>>

AdvanceAllocationGeneration ==
    /\ gens' = [gens EXCEPT !.allocation = NextGen(@)]
    /\ UNCHANGED <<authVars, resources, workerVars, planVars, disk>>

AdvancePolicyGeneration ==
    /\ policyGen < MaxPolicyGen
    /\ policyGen' = policyGen + 1
    /\ UNCHANGED <<epoch, gens, resources, workerVars, planVars, disk>>

-----------------------------------------------------------------------------
CanRestart(e) == e \in Epochs /\ (FreshEpochs => e > epoch)

(* Bound: of the saves, only those that a restart within Epochs can read   *)
(* are taken.                                                              *)
RestartFollows == \E e \in Epochs : CanRestart(e)

(* SAVE: encode_state and save_state.  The file is replaced as a whole     *)
(* through a temporary one, or a failed open, write or rename (some        *)
(* platforms refuse to rename over a file) leaves it as it was; of an      *)
(* action only the kind is written.  The reservations the file also holds  *)
(* are never read back into the coordinator.                               *)
PersistedPlan(plan) ==
    [gen |-> plan.gen, policyGen |-> plan.policyGen, epoch |-> plan.epoch,
     state |-> plan.state, verification |-> plan.verification,
     kinds |-> {act.kind : act \in plan.actions}]

Encodable == \A p \in PlanIds :
    plans[p] # NoPlan /\ plans[p].state = "COMPLETED"
        => plans[p].verification # NoVerification

Save ==
    /\ RestartFollows
    /\ Encodable
    /\ disk' = [gens |-> gens, policyGen |-> policyGen, nextPlanId |-> nextPlanId,
                plans |-> [p \in PlanIds |->
                    IF plans[p] = NoPlan THEN NoPlan ELSE PersistedPlan(plans[p])]]
    /\ UNCHANGED <<authVars, gens, resources, workerVars, planVars>>

(* decode_state and recover(): states that depend on live evidence degrade *)
(* and the actions come back without target and source.                    *)
Degraded(s) ==
    IF s \in {"APPROVED", "EXECUTING", "VERIFYING"} THEN "REVALIDATION_REQUIRED" ELSE s

RecoveredPlan(pp) ==
    [gen |-> pp.gen, policyGen |-> pp.policyGen, epoch |-> pp.epoch,
     gens |-> [resource |-> 0, allocation |-> 0, reservation |-> 0],
     state |-> Degraded(pp.state), verification |-> pp.verification,
     actions |-> {[kind |-> k, res |-> NoRes, src |-> NoAlloc] : k \in pp.kinds}]

(* A new process without a usable state file, or recovered from it; all    *)
(* else is as the constructor leaves it.                                   *)
Reset(e) ==
    /\ epoch' = e
    /\ resources' = [r \in ResourceIds |-> NoRec]
    /\ boot' = [w \in Workers |-> 0]
    /\ alive' = [w \in Workers |-> FALSE]
    /\ before' = [p \in PlanIds |-> NoSnap]
    /\ lastDemand' = NoDemand
    /\ UNCHANGED disk

RestartEmpty(e) ==
    /\ CanRestart(e)
    /\ Reset(e)
    /\ policyGen' = 1
    /\ gens' = InitGens
    /\ plans' = [p \in PlanIds |-> NoPlan]
    /\ nextPlanId' = 1

(* Bug: recover() restores the plans but not next_plan_id_. *)
RecoverNoNextId(e) ==
    /\ CanRestart(e)
    /\ disk # NoState
    /\ Reset(e)
    /\ policyGen' = disk.policyGen
    /\ gens' = disk.gens
    /\ plans' = [p \in PlanIds |-> IF disk.plans[p] = NoPlan THEN NoPlan
                                   ELSE RecoveredPlan(disk.plans[p])]
    /\ nextPlanId' = 1

Recover(e) ==
    /\ CanRestart(e)
    /\ disk # NoState
    /\ Reset(e)
    /\ policyGen' = disk.policyGen
    /\ gens' = disk.gens
    /\ plans' = [p \in PlanIds |-> IF disk.plans[p] = NoPlan THEN NoPlan
                                   ELSE RecoveredPlan(disk.plans[p])]
    /\ nextPlanId' = disk.nextPlanId

-----------------------------------------------------------------------------
WorkerStep ==
    \/ \E w \in Workers : WorkerDied(w)
    \/ \E w \in Workers, b \in Boots : Register(w, b)
    \/ \E w \in Workers, b \in Boots, res \in ResourceMsgs : PublishResource(w, b, res)
    \/ \E w \in Workers, b \in Boots, res \in ResourceMsgs, as \in LayoutMsgs :
          PublishLayout(w, b, res.id, res.gen, as)
    \/ \E w \in Workers, b \in Boots, r \in ResourceIds, a \in AllocMsgs :
          PublishAllocation(w, b, r, a)
    \/ \E w \in Workers, b \in Boots, i \in AllocIds : InvalidateAllocation(w, b, i)

ControllerStep ==
    \/ \E d \in Demands : CreatePlan(d)
    \/ \E d \in Demands : NoBeneficialAction(d)
    \/ \E p \in PlanIds : ApprovePlan(p)
    \/ \E p, g \in PlanIds : BeginAction(p, g)
    \/ \E p \in PlanIds : plans[p] # NoPlan
          /\ \E act \in plans[p].actions, ok \in BOOLEAN : ActionComplete(p, act, ok)
    \/ \E p \in PlanIds : Verify(p)
    \/ \E p \in PlanIds : CancelPlan(p)
    \/ \E p \in PlanIds : Revalidate(p)
    \/ AdvanceResourceGeneration
    \/ AdvanceAllocationGeneration
    \/ AdvancePolicyGeneration

ProcessStep ==
    \/ Save
    \/ \E e \in Epochs : RestartEmpty(e)
    \/ \E e \in Epochs : Recover(e)

Next == WorkerStep \/ ControllerStep \/ ProcessStep

Spec == Init /\ [][Next]_vars

-----------------------------------------------------------------------------
(***************************************************************************)
(* Correctness.                                                            *)
(***************************************************************************)
(* f assigns every element of S a value of T, or null. *)
Partial(f, S, T, null) == DOMAIN f = S /\ \A x \in S : f[x] = null \/ f[x] \in T

(* The coordinator's fields keep their types through every message, death, *)
(* save and restart.  In particular no generation it stamps on a snapshot  *)
(* or a plan is 0, the "unknown" that would make every fit ask for         *)
(* revalidation.                                                           *)
TypeOK ==
    /\ epoch \in Epochs
    /\ policyGen \in Nat
    /\ gens \in LiveGens
    /\ Partial(resources, ResourceIds, Record, NoRec)
    /\ boot \in [Workers -> Boots \cup {0}]
    /\ alive \in [Workers -> BOOLEAN]
    /\ Partial(plans, PlanIds, Plan, NoPlan)
    /\ Partial(before, PlanIds, Snapshots, NoSnap)
    /\ nextPlanId \in 1 .. (MaxPlans + 1)
    /\ lastDemand \in Demand
    /\ \/ disk = NoState
       \/ /\ disk.gens \in LiveGens
          /\ disk.policyGen \in Nat
          /\ disk.nextPlanId \in 1 .. (MaxPlans + 1)
          /\ Partial(disk.plans, PlanIds, Image, NoPlan)

(* The state of a plan and its recorded verification agree: in particular  *)
(* no history of approvals, cancellations, deaths, saves and restarts      *)
(* makes a plan COMPLETED without a successful verification, which is also *)
(* why encode_state never refuses a SAVE.                                  *)
Agrees(plan) ==
    /\ plan.state = "COMPLETED" => plan.verification \in Success
    /\ plan.state = "PARTIALLY_COMPLETED" => plan.verification = "NO_CHANGE"
    /\ plan.state = "FAILED" => plan.verification \in {"REGRESSION", "VERIFICATION_FAILED"}

CompletedVerified ==
    /\ \A p \in PlanIds : plans[p] # NoPlan => Agrees(plans[p])
    /\ disk # NoState => \A p \in PlanIds : disk.plans[p] # NoPlan => Agrees(disk.plans[p])

(* A plan id is below next_plan_id and is the plan's generation, in memory *)
(* and in the state file: CREATE_PLAN never overwrites a plan, not even    *)
(* one that was recovered, and a plan_gen names one plan.                  *)
FreshPlanIds ==
    /\ \A p \in PlanIds : plans[p] # NoPlan => p < nextPlanId /\ plans[p].gen = p
    /\ disk # NoState =>
          \A p \in PlanIds :
              disk.plans[p] # NoPlan => p < disk.nextPlanId /\ disk.plans[p].gen = p

(* A record counts as evidence only while the incarnation that published   *)
(* it is the registered, living one: the snapshot never contains devices   *)
(* of a dead worker or of a previous boot.                                 *)
LiveEvidence ==
    \A r \in LiveResources :
        alive[resources[r].worker] /\ boot[resources[r].worker] = resources[r].boot

(* No two allocations of a resource overlap and none leaves it, whatever   *)
(* mix of whole-layout and single-allocation publications, invalidations   *)
(* and completed actions of several workers produced it.                   *)
ValidLayout(cap, allocs) ==
    /\ \A i \in DOMAIN allocs :
          allocs[i].id = i /\ allocs[i].length > 0 /\ allocs[i].offset + allocs[i].length <= cap
    /\ \A i, j \in DOMAIN allocs : i # j => Cells(allocs[i]) \cap Cells(allocs[j]) = {}

ValidLayouts ==
    \A r \in ResourceIds : Known(r) => ValidLayout(resources[r].cap, resources[r].allocs)

(* When every restart gets a greater epoch, a plan that executes or waits  *)
(* for verification was created by this process: its before-snapshot is    *)
(* there and carries its policy generation and epoch, so VERIFY can decide *)
(* it and no plan of an earlier process is ever executed.                  *)
Executing == {"EXECUTING", "VERIFYING"}

Decidable ==
    \A p \in PlanIds : plans[p] # NoPlan /\ plans[p].state \in Executing =>
        /\ plans[p].epoch = epoch
        /\ before[p] # NoSnap
        /\ before[p].epoch = epoch
        /\ before[p].policyGen = plans[p].policyGen

(* Plan p is verified as a success in this step. *)
Completes(p) ==
    /\ plans[p] # NoPlan /\ plans[p].state # "COMPLETED"
    /\ plans'[p] # NoPlan /\ plans'[p].state = "COMPLETED"

(* A plan is completed in this process only under the policy generation    *)
(* and epoch it was created with: a policy advance between BEGIN_ACTION    *)
(* and VERIFY fails the verification.                                      *)
CompletionAuthorised ==
    [][\A p \in PlanIds : Completes(p) /\ epoch' = epoch =>
          plans[p].policyGen = policyGen /\ plans[p].epoch = epoch]_vars

(* Stranded capacity fell or the target demand became feasible. *)
Improved(p, d) ==
    \/ Stranded(Snapshot.devices) < Stranded(before[p].devices)
    \/ /\ AnalyzeFit(before[p], d) # "FIT_NOW"
       /\ AnalyzeFit(Snapshot, d) = "FIT_NOW"

(* README.md, core doctrine: "An executed remediation is not successful    *)
(* unless stranded capacity actually decreases or target workload          *)
(* feasibility improves."                                                  *)
CompletionImproves ==
    [][\A p \in PlanIds : Completes(p) /\ epoch' = epoch => Improved(p, lastDemand)]_vars

-----------------------------------------------------------------------------
(***************************************************************************)
(* What the documentation promises and the code does not keep.             *)
(***************************************************************************)

(* tests/multiprocess/multiprocess_proof.cpp: after a worker's death its   *)
(* plans must not execute ("must be 0: REVALIDATION_REQUIRED").  A plan    *)
(* executes only on resources whose evidence is alive.                     *)
DeathFencesPlans ==
    \A p \in PlanIds : plans[p] # NoPlan /\ plans[p].state = "EXECUTING" =>
        \A act \in plans[p].actions :
            act.res \in ResourceIds /\ Known(act.res) => resources[act.res].alive

(* planner.cpp lists "no protected reservation violated" among the         *)
(* preconditions of every action, and plan.hpp lets no action become       *)
(* executable before they hold.  Completing an action never takes away an  *)
(* allocation that is protected at that moment.                            *)
ProtectedKept ==
    [][\A p \in PlanIds :
          /\ plans[p] # NoPlan /\ plans[p].state = "EXECUTING"
          /\ plans'[p] # NoPlan /\ plans'[p].state = "VERIFYING"
          => \A r \in ResourceIds : Known(r) =>
                \A i \in DOMAIN resources[r].allocs :
                    Protected(resources[r].allocs[i]) => i \in DOMAIN resources'[r].allocs]_vars
=============================================================================
