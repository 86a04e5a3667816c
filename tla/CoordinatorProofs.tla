-------------------------- MODULE CoordinatorProofs --------------------------
(***************************************************************************)
(* Coordinator: for every set of workers, resources, messages and plans,   *)
(* the fields keep their types, evidence is live, plan ids are fresh, a    *)
(* plan is completed only by a successful verification, and (when every    *)
(* restart has a greater epoch) only under the authority it was created    *)
(* with.                                                                   *)
(***************************************************************************)
EXTENDS Coordinator, FitProofs, SequenceTheorems, TLAPS

(* The elements of Layouts.                                                *)
LEMMA LayoutMember ==
    ASSUME NEW f
    PROVE  f \in Layouts <=> /\ f = [x \in DOMAIN f |-> f[x]]
                             /\ DOMAIN f \subseteq AllocIds
                             /\ \A x \in DOMAIN f : f[x] \in AllocMsgs
BY DEF Layouts

(* An empty layout, one allocation more, one allocation less.              *)
LEMMA LayoutUpdates ==
    /\ EmptyMap \in Layouts
    /\ \A f \in Layouts, a \in AllocMsgs : Emplace(f, a.id, a) \in Layouts
    /\ \A f \in Layouts : \A i : Erase(f, i) \in Layouts
<1>1. EmptyMap \in Layouts
  <2>1. EmptyMap \in [{} -> AllocMsgs]
    BY DEF EmptyMap
  <2> QED BY <2>1 DEF Layouts
<1>2. ASSUME NEW f \in Layouts, NEW a \in AllocMsgs
      PROVE  Emplace(f, a.id, a) \in Layouts
  <2>1. a.id \in AllocIds
    BY MessageAssumption DEF AllocMsg
  <2>2. DOMAIN f \subseteq AllocIds /\ \A x \in DOMAIN f : f[x] \in AllocMsgs
    BY LayoutMember
  <2>3. Emplace(f, a.id, a) \in [DOMAIN f \cup {a.id} -> AllocMsgs]
    BY <2>2 DEF Emplace
  <2> QED BY <2>1, <2>2, <2>3 DEF Layouts
<1>3. ASSUME NEW f \in Layouts, NEW i PROVE Erase(f, i) \in Layouts
  <2>1. DOMAIN f \subseteq AllocIds /\ \A x \in DOMAIN f : f[x] \in AllocMsgs
    BY LayoutMember
  <2>2. Erase(f, i) \in [DOMAIN f \ {i} -> AllocMsgs]
    BY <2>1 DEF Erase
  <2> QED BY <2>1, <2>2 DEF Layouts
<1> QED BY <1>1, <1>2, <1>3

(* Without reservations there is no window to search for, and analyze_fit  *)
(* cannot throw.                                                           *)
LEMMA NothingThrown ==
    ASSUME NEW s, NEW d, s.reservations = <<>>
    PROVE  AnalyzeFit(s, d) # "THROWS"
<1>1. ReservationGate(s.reservations, d) = "FIT_NOW"
  BY DEF ReservationGate
<1>2. \A devs : ShortfallCause(devs, d) # "THROWS"
  BY DEF ShortfallCause
<1> QED BY <1>1, <1>2 DEF AnalyzeFit

(* The coordinator's snapshots have none: verify_remediation returns.      *)
LEMMA OutcomeType ==
    ASSUME TypeOK, NEW p \in PlanIds, before[p] # NoSnap, NEW d
    PROVE  VerifyRemediation(before[p], Snapshot, d) \in VerificationOutcomes
<1>1. before[p].reservations = <<>>
  BY DEF TypeOK, Partial, Snapshots
<1>2. Snapshot.reservations = <<>>
  BY DEF Snapshot
<1>3. AnalyzeFit(before[p], d) # "THROWS" /\ AnalyzeFit(Snapshot, d) # "THROWS"
  BY <1>1, <1>2, NothingThrown
<1> QED BY <1>3 DEF VerifyRemediation, VerificationOutcomes

(* Only a successful outcome completes a plan.                             *)
LEMMA StateForType ==
    ASSUME NEW o \in VerificationOutcomes
    PROVE  /\ StateFor(o) \in PlanStates \ Executing
           /\ StateFor(o) = "COMPLETED" => o \in Success
           /\ StateFor(o) = "PARTIALLY_COMPLETED" => o = "NO_CHANGE"
           /\ StateFor(o) = "FAILED" => o \in {"REGRESSION", "VERIFICATION_FAILED"}
BY DEF VerificationOutcomes, StateFor, PlanStates, Executing, Success

(* The planner displaces allocations of the devices it was given.          *)
LEMMA PlannedType ==
    ASSUME NEW devs \in Devices, NEW d
    PROVE  PlannedActions(devs, d) \in SUBSET Action
<1>1. ASSUME NEW c \in Candidates(devs)
      PROVE  c.res \in ResourceIds /\ c.src \in AllocIds
  <2>1. PICK r \in DOMAIN devs : \E i \in DOMAIN devs[r].allocs : c = [res |-> r, src |-> i]
    BY <1>1 DEF Candidates
  <2>2. r \in ResourceIds /\ devs[r] \in Device
    BY DEF Devices
  <2>3. devs[r].allocs \in Layouts
    BY <2>2 DEF Device
  <2>4. DOMAIN devs[r].allocs \subseteq AllocIds
    BY <2>3, LayoutMember
  <2> QED BY <2>1, <2>2, <2>4
<1>2. \A m : KindFor(m) \in ActionKinds
  BY DEF KindFor, ActionKinds
<1>3. \A k : Cheapest(devs, k) \subseteq Candidates(devs)
  BY DEF Cheapest
<1> QED BY <1>1, <1>2, <1>3 DEF PlannedActions, Action

(* A published layout is a layout.                                         *)
LEMMA LayoutOfType ==
    ASSUME NEW as \in LayoutMsgs
    PROVE  LayoutOf(as) \in Layouts
<1> DEFINE S == {as[k].id : k \in DOMAIN as}
<1>1. as \in Seq(AllocMsgs)
  BY MessageAssumption
<1>2. \A k \in DOMAIN as : as[k] \in AllocMsgs
  BY <1>1, LenProperties, ElementOfSeq
<1>3. S \subseteq AllocIds
  BY <1>2, MessageAssumption DEF AllocMsg
<1>4. \A i \in S : as[CHOOSE k \in DOMAIN as : as[k].id = i] \in AllocMsgs
  BY <1>2
<1>5. LayoutOf(as) \in [S -> AllocMsgs]
  BY <1>4 DEF LayoutOf
<1> QED BY <1>3, <1>5 DEF Layouts

(* Replacing the layout of a record, killing the records of a worker.      *)
LEMMA ResourcesType ==
    ASSUME TypeOK
    PROVE  /\ \A r \in ResourceIds, l \in Layouts : Known(r) =>
                 Partial([resources EXCEPT ![r].allocs = l], ResourceIds, Record, NoRec)
           /\ \A w \in Workers : Partial(DeadResources(w), ResourceIds, Record, NoRec)
<1>1. Partial(resources, ResourceIds, Record, NoRec)
  BY DEF TypeOK
<1>2. ASSUME NEW r \in ResourceIds, NEW l \in Layouts, Known(r)
      PROVE  Partial([resources EXCEPT ![r].allocs = l], ResourceIds, Record, NoRec)
  <2>1. resources[r] \in Record
    BY <1>1, <1>2 DEF Partial, Known
  <2>2. [resources[r] EXCEPT !.allocs = l] \in Record
    BY <2>1 DEF Record
  <2> QED BY <2>2, <1>1 DEF Partial
<1>3. ASSUME NEW w \in Workers
      PROVE  Partial(DeadResources(w), ResourceIds, Record, NoRec)
  <2>1. ASSUME NEW r \in ResourceIds, OwnedBy(r, w)
        PROVE  [resources[r] EXCEPT !.alive = FALSE] \in Record
    <3>1. resources[r] \in Record
      BY <1>1, <2>1 DEF Partial, Known, OwnedBy
    <3> QED BY <3>1 DEF Record
  <2> QED BY <2>1, <1>1 DEF Partial, DeadResources
<1> QED BY <1>2, <1>3

(* Moving a plan to another state, revalidating the plans of a worker.     *)
LEMMA PlansType ==
    ASSUME TypeOK
    PROVE  /\ \A p \in PlanIds, s \in PlanStates : plans[p] # NoPlan =>
                 Partial([plans EXCEPT ![p].state = s], PlanIds, Plan, NoPlan)
           /\ \A w \in Workers : Partial(DeadPlans(w), PlanIds, Plan, NoPlan)
<1>1. Partial(plans, PlanIds, Plan, NoPlan)
  BY DEF TypeOK
<1>2. \A p \in PlanIds, s \in PlanStates :
         plans[p] # NoPlan => [plans[p] EXCEPT !.state = s] \in Plan
  <2> TAKE p \in PlanIds, s \in PlanStates
  <2> HAVE plans[p] # NoPlan
  <2>1. plans[p] \in Plan
    BY <1>1 DEF Partial
  <2> QED BY <2>1 DEF Plan
<1>3. ASSUME NEW p \in PlanIds, NEW s \in PlanStates, plans[p] # NoPlan
      PROVE  Partial([plans EXCEPT ![p].state = s], PlanIds, Plan, NoPlan)
  BY <1>1, <1>2, <1>3 DEF Partial
<1>4. ASSUME NEW w \in Workers
      PROVE  Partial(DeadPlans(w), PlanIds, Plan, NoPlan)
  <2>1. "REVALIDATION_REQUIRED" \in PlanStates
    BY DEF PlanStates
  <2> QED BY <2>1, <1>1, <1>2 DEF Partial, DeadPlans
<1> QED BY <1>3, <1>4

(* Generations are never 0.                                                *)
LEMMA AdvancedType ==
    ASSUME TypeOK
    PROVE  /\ Advanced \in LiveGens
           /\ [gens EXCEPT !.resource = NextGen(@)] \in LiveGens
           /\ [gens EXCEPT !.allocation = NextGen(@)] \in LiveGens
<1>1. gens \in LiveGens
  BY DEF TypeOK
<1>2. \A g \in 1 .. GenMax : NextGen(g) \in 1 .. GenMax
  BY BoundAssumption DEF NextGen
<1> QED BY <1>1, <1>2 DEF LiveGens, Advanced

(* assemble_snapshot yields a snapshot of the live records.                *)
LEMMA SnapshotType ==
    ASSUME TypeOK
    PROVE  Snapshot \in Snapshots /\ Snapshot.epoch = epoch /\ Snapshot.policyGen = policyGen
<1>1. \A r \in LiveResources : r \in ResourceIds /\ resources[r] \in Record
  BY DEF LiveResources, Known, TypeOK, Partial
<1>2. \A r \in LiveResources :
         [cap |-> resources[r].cap, group |-> resources[r].group,
          allocs |-> resources[r].allocs] \in Device
  BY <1>1 DEF Record, Device
<1>3. Snapshot.devices \in [LiveResources -> Device]
  BY <1>2 DEF Snapshot
<1>4. LiveResources \in SUBSET ResourceIds
  BY DEF LiveResources
<1>5. Snapshot.devices \in Devices
  BY <1>3, <1>4 DEF Devices
<1>6. epoch \in Nat /\ policyGen \in Nat /\ gens \in LiveGens
  BY BoundAssumption DEF TypeOK
<1>7. Snapshot.prov \in {"MEASURED", "SYNTHETIC"}
  BY DEF Snapshot
<1> QED BY <1>5, <1>6, <1>7 DEF Snapshot, Snapshots

(* CREATE_PLAN makes a plan.                                               *)
LEMMA NewPlanType ==
    ASSUME TypeOK, NEW d
    PROVE  /\ NewPlan(d) \in Plan
           /\ NewPlan(d).gen = nextPlanId /\ NewPlan(d).state = "PLAN_READY"
           /\ NewPlan(d).epoch = epoch /\ NewPlan(d).policyGen = policyGen
<1>1. PlannedActions(Snapshot.devices, d) \in SUBSET Action
  BY SnapshotType, PlannedType DEF Snapshots
<1>2. epoch \in Nat /\ policyGen \in Nat /\ nextPlanId \in Nat
  BY BoundAssumption DEF TypeOK
<1>3. gens \in Gens
  BY BoundAssumption DEF TypeOK, LiveGens, Gens
<1>4. "PLAN_READY" \in PlanStates /\ NoVerification \in Verifications
  BY DEF PlanStates, Verifications
<1> QED BY <1>1, <1>2, <1>3, <1>4 DEF NewPlan, Plan

(* A saved plan is an image, a recovered one a plan.                       *)
LEMMA PersistenceType ==
    /\ \A plan \in Plan : PersistedPlan(plan) \in Image
    /\ \A im \in Image : RecoveredPlan(im) \in Plan
<1>1. ASSUME NEW plan \in Plan PROVE PersistedPlan(plan) \in Image
  <2>1. {act.kind : act \in plan.actions} \in SUBSET ActionKinds
    BY DEF Plan, Action
  <2> QED BY <2>1 DEF PersistedPlan, Plan, Image
<1>2. ASSUME NEW im \in Image PROVE RecoveredPlan(im) \in Plan
  <2>1. {[kind |-> k, res |-> NoRes, src |-> NoAlloc] : k \in im.kinds} \in SUBSET Action
    BY DEF Image, Action
  <2>2. Degraded(im.state) \in PlanStates
    BY DEF Degraded, Image, PlanStates
  <2>3. [resource |-> 0, allocation |-> 0, reservation |-> 0] \in Gens
    BY BoundAssumption DEF Gens
  <2> QED BY <2>1, <2>2, <2>3 DEF RecoveredPlan, Plan, Image
<1> QED BY <1>1, <1>2

-----------------------------------------------------------------------------
(***************************************************************************)
(* Type correctness, one lemma per group of messages.                      *)
(***************************************************************************)

(* The constructor.                                                        *)
LEMMA InitTypes == Init => TypeOK
<1> SUFFICES ASSUME Init PROVE TypeOK
  OBVIOUS
<1>1. InitGens \in LiveGens
  BY BoundAssumption DEF InitGens, LiveGens
<1>2. NoDemand \in Demand
  BY DEF NoDemand, Demand
<1>3. 1 \in 1 .. (MaxPlans + 1)
  BY BoundAssumption
<1> QED BY <1>1, <1>2, <1>3, BoundAssumption DEF Init, TypeOK, Partial

(* What workers send.                                                      *)
LEMMA WorkerTypes ==
    ASSUME TypeOK, WorkerStep
    PROVE  TypeOK'
<1> USE DEF authVars, workerVars, planVars
<1>1. ASSUME NEW w \in Workers, WorkerDied(w) PROVE TypeOK'
  BY <1>1, ResourcesType, PlansType DEF WorkerDied, TypeOK
<1>2. ASSUME NEW w \in Workers, NEW b \in Boots, Register(w, b) PROVE TypeOK'
  <2>1. /\ Partial(resources', ResourceIds, Record, NoRec)
        /\ Partial(plans', PlanIds, Plan, NoPlan)
    BY <1>2, ResourcesType, PlansType DEF Register, TypeOK
  <2> QED BY <1>2, <2>1 DEF Register, TypeOK
<1>3. ASSUME NEW w \in Workers, NEW b \in Boots, NEW res \in ResourceMsgs,
             PublishResource(w, b, res)
      PROVE  TypeOK'
  <2> DEFINE rec == [gen |-> res.gen, cap |-> res.cap, group |-> res.group,
                     prov |-> res.prov, allocs |-> EmptyMap, worker |-> w, boot |-> b,
                     alive |-> TRUE]
  <2>1. res \in ResourceMsg /\ res.cap \in Caps /\ res.group \in Groups
    BY MessageAssumption DEF Caps, Groups
  <2>2. EmptyMap \in Layouts
    BY LayoutUpdates
  <2>3. rec \in Record
    BY <2>1, <2>2 DEF ResourceMsg, Record
  <2>4. Partial(resources', ResourceIds, Record, NoRec)
    <3>1. resources' = [resources EXCEPT ![res.id] = rec]
      BY <1>3 DEF PublishResource
    <3> HIDE DEF rec
    <3> QED BY <3>1, <2>3 DEF TypeOK, Partial
  <2> QED BY <1>3, <2>4, AdvancedType DEF PublishResource, TypeOK
<1>4. ASSUME NEW w \in Workers, NEW b \in Boots, NEW res \in ResourceMsgs,
             NEW as \in LayoutMsgs, PublishLayout(w, b, res.id, res.gen, as)
      PROVE  TypeOK'
  <2>1. res.id \in ResourceIds /\ Known(res.id)
    BY <1>4 DEF PublishLayout, OwnedBy
  <2>2. Partial(resources', ResourceIds, Record, NoRec)
    BY <1>4, <2>1, ResourcesType, LayoutOfType DEF PublishLayout
  <2> QED BY <1>4, <2>2, AdvancedType DEF PublishLayout, TypeOK
<1>5. ASSUME NEW w \in Workers, NEW b \in Boots, NEW r \in ResourceIds, NEW a \in AllocMsgs,
             PublishAllocation(w, b, r, a)
      PROVE  TypeOK'
  <2>1. resources[r].allocs \in Layouts /\ Known(r)
    BY <1>5 DEF PublishAllocation, Known, TypeOK, Partial, Record
  <2>2. Emplace(resources[r].allocs, a.id, a) \in Layouts
    BY <2>1, LayoutUpdates
  <2>3. Partial(resources', ResourceIds, Record, NoRec)
    BY <1>5, <2>1, <2>2, ResourcesType DEF PublishAllocation
  <2> QED BY <1>5, <2>3, AdvancedType DEF PublishAllocation, TypeOK
<1>6. ASSUME NEW w \in Workers, NEW b \in Boots, NEW i \in AllocIds,
             InvalidateAllocation(w, b, i)
      PROVE  TypeOK'
  <2>1. PICK r \in Holds(w, i) : resources' = [resources EXCEPT ![r].allocs = Erase(@, i)]
    BY <1>6 DEF InvalidateAllocation
  <2>2. r \in ResourceIds /\ Known(r)
    BY DEF Holds, OwnedBy
  <2>3. resources[r].allocs \in Layouts
    BY <2>2 DEF Known, TypeOK, Partial, Record
  <2>4. Erase(resources[r].allocs, i) \in Layouts
    BY <2>3, LayoutUpdates
  <2>5. Partial(resources', ResourceIds, Record, NoRec)
    BY <2>1, <2>2, <2>4, ResourcesType
  <2> QED BY <1>6, <2>5, AdvancedType DEF InvalidateAllocation, TypeOK
<1> QED BY <1>1, <1>2, <1>3, <1>4, <1>5, <1>6 DEF WorkerStep

(* The target of an action loses its source.                               *)
LEMMA RemovedType ==
    ASSUME TypeOK, NEW act, act.res \in ResourceIds, Known(act.res)
    PROVE  Partial(Removed(act), ResourceIds, Record, NoRec)
<1>1. resources[act.res].allocs \in Layouts
  BY DEF Known, TypeOK, Partial, Record
<1>2. Erase(resources[act.res].allocs, act.src) \in Layouts
  BY <1>1, LayoutUpdates
<1> QED BY <1>2, ResourcesType DEF Removed

(* What controllers send.                                                  *)
LEMMA ControllerTypes ==
    ASSUME TypeOK, ControllerStep
    PROVE  TypeOK'
<1> USE DEF authVars, workerVars, planVars
<1>1. ASSUME NEW p \in PlanIds, NEW s \in PlanStates, plans[p] # NoPlan, MoveTo(p, s)
      PROVE  TypeOK'
  <2>1. Partial(plans', PlanIds, Plan, NoPlan)
    BY <1>1, PlansType DEF MoveTo
  <2> QED BY <1>1, <2>1 DEF MoveTo, TypeOK
<1>2. ASSUME NEW d \in Demands, CreatePlan(d) PROVE TypeOK'
  <2>1. nextPlanId \in PlanIds
    BY <1>2, BoundAssumption DEF CreatePlan, TypeOK, PlanIds
  <2>2. Partial(plans', PlanIds, Plan, NoPlan)
    <3>1. NewPlan(d) \in Plan
      BY NewPlanType
    <3>2. plans' = [plans EXCEPT ![nextPlanId] = NewPlan(d)]
      BY <1>2 DEF CreatePlan
    <3> QED BY <3>1, <3>2 DEF TypeOK, Partial
  <2>3. Partial(before', PlanIds, Snapshots, NoSnap)
    <3>1. before' = [before EXCEPT ![nextPlanId] = Snapshot]
      BY <1>2 DEF CreatePlan
    <3> QED BY <3>1, SnapshotType DEF TypeOK, Partial
  <2>4. nextPlanId' \in 1 .. (MaxPlans + 1)
    BY <1>2, <2>1, BoundAssumption DEF CreatePlan, PlanIds
  <2>5. lastDemand' \in Demand
    BY <1>2, MessageAssumption DEF CreatePlan
  <2> QED BY <1>2, <2>2, <2>3, <2>4, <2>5 DEF CreatePlan, TypeOK
<1>3. ASSUME NEW d \in Demands, NoBeneficialAction(d) PROVE TypeOK'
  <2>1. lastDemand' \in Demand
    BY <1>3, MessageAssumption DEF NoBeneficialAction
  <2> QED BY <1>3, <2>1 DEF NoBeneficialAction, TypeOK
<1>4. ASSUME NEW p \in PlanIds, ApprovePlan(p) PROVE TypeOK'
  BY <1>1, <1>4 DEF ApprovePlan, PlanStates
<1>5. ASSUME NEW p \in PlanIds, NEW g \in PlanIds, BeginAction(p, g) PROVE TypeOK'
  BY <1>1, <1>5 DEF BeginAction, PlanStates
<1>6. ASSUME NEW p \in PlanIds, NEW act \in plans[p].actions, NEW ok \in BOOLEAN,
             ActionComplete(p, act, ok)
      PROVE  TypeOK'
  <2>1. Partial(plans', PlanIds, Plan, NoPlan)
    <3>1. "VERIFYING" \in PlanStates
      BY DEF PlanStates
    <3> QED BY <1>6, <3>1, PlansType DEF ActionComplete
  <2>2. Partial(resources', ResourceIds, Record, NoRec) /\ gens' \in LiveGens
    <3>1. CASE ok /\ act.src # NoAlloc /\ act.res \in ResourceIds /\ Known(act.res)
      BY <1>6, <3>1, RemovedType, AdvancedType DEF ActionComplete
    <3>2. CASE ~(ok /\ act.src # NoAlloc /\ act.res \in ResourceIds /\ Known(act.res))
      BY <1>6, <3>2 DEF ActionComplete, TypeOK
    <3> QED BY <3>1, <3>2
  <2> QED BY <1>6, <2>1, <2>2 DEF ActionComplete, TypeOK
<1>7. ASSUME NEW p \in PlanIds, Verify(p) PROVE TypeOK'
  <2> DEFINE o == VerifyRemediation(before[p], Snapshot, lastDemand)
  <2>1. o \in VerificationOutcomes /\ StateFor(o) \in PlanStates
    BY <1>7, OutcomeType, StateForType DEF Verify
  <2> HIDE DEF o
  <2>2. plans' = [plans EXCEPT ![p].verification = o, ![p].state = StateFor(o)]
        /\ plans[p] # NoPlan
    BY <1>7 DEF Verify, o
  <2>3. plans[p] \in Plan
    BY <2>2 DEF TypeOK, Partial
  <2>4. plans' = [plans EXCEPT ![p] =
            [plans[p] EXCEPT !.verification = o, !.state = StateFor(o)]]
    BY <2>2 DEF TypeOK, Partial
  <2>5. [plans[p] EXCEPT !.verification = o, !.state = StateFor(o)] \in Plan
    BY <2>1, <2>3 DEF Plan, Verifications
  <2>6. Partial(plans', PlanIds, Plan, NoPlan)
    BY <2>4, <2>5 DEF TypeOK, Partial
  <2> QED BY <1>7, <2>6 DEF Verify, TypeOK
<1>8. ASSUME NEW p \in PlanIds, CancelPlan(p) PROVE TypeOK'
  BY <1>1, <1>8 DEF CancelPlan, PlanStates
<1>9. ASSUME NEW p \in PlanIds, Revalidate(p) PROVE TypeOK'
  BY <1>1, <1>9 DEF Revalidate, PlanStates
<1>10. ASSUME AdvanceResourceGeneration PROVE TypeOK'
  BY <1>10, AdvancedType DEF AdvanceResourceGeneration, TypeOK
<1>11. ASSUME AdvanceAllocationGeneration PROVE TypeOK'
  BY <1>11, AdvancedType DEF AdvanceAllocationGeneration, TypeOK
<1>12. ASSUME AdvancePolicyGeneration PROVE TypeOK'
  BY <1>12 DEF AdvancePolicyGeneration, TypeOK
<1> QED BY <1>2, <1>3, <1>4, <1>5, <1>6, <1>7, <1>8, <1>9, <1>10, <1>11, <1>12
        DEF ControllerStep

(* Saving, crashing and restarting.                                        *)
LEMMA ProcessTypes ==
    ASSUME TypeOK, ProcessStep
    PROVE  TypeOK'
<1> USE DEF authVars, workerVars, planVars
<1>1. ASSUME Save PROVE TypeOK'
  <2>1. Partial([p \in PlanIds |-> IF plans[p] = NoPlan THEN NoPlan
                                   ELSE PersistedPlan(plans[p])], PlanIds, Image, NoPlan)
    BY PersistenceType DEF TypeOK, Partial
  <2>2. /\ disk'.gens \in LiveGens /\ disk'.policyGen \in Nat
        /\ disk'.nextPlanId \in 1 .. (MaxPlans + 1)
        /\ Partial(disk'.plans, PlanIds, Image, NoPlan)
    BY <1>1, <2>1 DEF Save, TypeOK
  <2> QED BY <1>1, <2>2 DEF Save, TypeOK
<1>2. ASSUME NEW e \in Epochs, Reset(e)
      PROVE  /\ epoch' \in Epochs /\ Partial(resources', ResourceIds, Record, NoRec)
             /\ boot' \in [Workers -> Boots \cup {0}] /\ alive' \in [Workers -> BOOLEAN]
             /\ Partial(before', PlanIds, Snapshots, NoSnap) /\ lastDemand' \in Demand
             /\ disk' = disk
  <2>1. NoDemand \in Demand
    BY DEF NoDemand, Demand
  <2> QED BY <1>2, <2>1 DEF Reset, Partial
<1>3. ASSUME NEW e \in Epochs, RestartEmpty(e) PROVE TypeOK'
  <2>1. InitGens \in LiveGens /\ 1 \in 1 .. (MaxPlans + 1)
    BY BoundAssumption DEF InitGens, LiveGens
  <2>2. Partial(plans', PlanIds, Plan, NoPlan)
    BY <1>3 DEF RestartEmpty, Partial
  <2> QED BY <1>2, <1>3, <2>1, <2>2 DEF RestartEmpty, TypeOK
<1>4. ASSUME NEW e \in Epochs, Recover(e) PROVE TypeOK'
  <2>1. /\ disk.gens \in LiveGens /\ disk.policyGen \in Nat
        /\ disk.nextPlanId \in 1 .. (MaxPlans + 1)
        /\ Partial(disk.plans, PlanIds, Image, NoPlan)
    BY <1>4 DEF Recover, TypeOK
  <2>2. Partial(plans', PlanIds, Plan, NoPlan)
    BY <1>4, <2>1, PersistenceType DEF Recover, Partial
  <2> QED BY <1>2, <1>4, <2>1, <2>2 DEF Recover, TypeOK
<1> QED BY <1>1, <1>3, <1>4 DEF ProcessStep

(* The fields of the coordinator keep their types through every message,   *)
(* death, save and restart; no generation it stamps is ever 0.             *)
THEOREM TypeCorrect == Spec => []TypeOK
<1>1. Init => TypeOK
  BY InitTypes
<1>2. TypeOK /\ [Next]_vars => TypeOK'
  <2> SUFFICES ASSUME TypeOK, [Next]_vars PROVE TypeOK'
    OBVIOUS
  <2>1. CASE UNCHANGED vars
    BY <2>1 DEF vars, TypeOK
  <2> QED BY <2>1, WorkerTypes, ControllerTypes, ProcessTypes DEF Next
<1> QED BY <1>1, <1>2, PTL DEF Spec

-----------------------------------------------------------------------------
(***************************************************************************)
(* Live evidence.                                                          *)
(***************************************************************************)

(* A change of a layout changes no owner, boot or liveness of a record.    *)
LEMMA LayoutChangeKeepsEvidence ==
    ASSUME TypeOK, LiveEvidence, NEW r \in ResourceIds, Known(r), NEW l,
           resources' = [resources EXCEPT ![r].allocs = l], UNCHANGED <<boot, alive>>
    PROVE  LiveEvidence'
<1>1. resources[r] \in Record
  BY DEF TypeOK, Partial, Known
<1>2. \A q \in ResourceIds : Known(q)' => Known(q)
  BY DEF Known, TypeOK, Partial
<1>3. \A q \in ResourceIds : Known(q) =>
         /\ resources'[q].worker = resources[q].worker
         /\ resources'[q].boot = resources[q].boot
         /\ resources'[q].alive = resources[q].alive
  BY <1>1 DEF Record, TypeOK, Partial
<1> QED BY <1>2, <1>3 DEF LiveEvidence, LiveResources

(* Fencing a worker leaves no live record of it, and the others alone.     *)
LEMMA FencingKeepsEvidence ==
    ASSUME TypeOK, LiveEvidence, NEW w \in Workers, resources' = DeadResources(w),
           \A v \in Workers : v # w => alive'[v] = alive[v] /\ boot'[v] = boot[v]
    PROVE  LiveEvidence'
<1> SUFFICES ASSUME NEW r \in ResourceIds, Known(r)', resources'[r].alive
             PROVE  alive'[resources'[r].worker] /\ boot'[resources'[r].worker] = resources'[r].boot
  BY DEF LiveEvidence, LiveResources
<1>1. resources'[r] = IF OwnedBy(r, w) THEN [resources[r] EXCEPT !.alive = FALSE]
                      ELSE resources[r]
  BY DEF DeadResources
<1>2. ~OwnedBy(r, w)
  <2>1. OwnedBy(r, w) => resources[r] \in Record
    BY DEF OwnedBy, Known, TypeOK, Partial
  <2> QED BY <1>1, <2>1 DEF Record
<1>3. resources'[r] = resources[r] /\ Known(r)
  BY <1>1, <1>2 DEF Known
<1>4. resources[r].worker # w /\ resources[r].worker \in Workers
  BY <1>2, <1>3 DEF OwnedBy, Known, TypeOK, Partial, Record
<1>5. alive[resources[r].worker] /\ boot[resources[r].worker] = resources[r].boot
  BY <1>3 DEF LiveEvidence, LiveResources
<1> QED BY <1>3, <1>4, <1>5

(* Only the registered, living incarnation of a worker contributes to the  *)
(* snapshots that fit, planning and verification see.                      *)
THEOREM EvidenceAlwaysLive == Spec => []LiveEvidence
<1>1. Init => LiveEvidence
  BY DEF Init, LiveEvidence, LiveResources, Known
<1>2. TypeOK /\ TypeOK' /\ LiveEvidence /\ [Next]_vars => LiveEvidence'
  <2> SUFFICES ASSUME TypeOK, TypeOK', LiveEvidence, [Next]_vars PROVE LiveEvidence'
    OBVIOUS
  <2> USE DEF authVars, workerVars, planVars
  <2>1. ASSUME UNCHANGED <<resources, boot, alive>> PROVE LiveEvidence'
    BY <2>1 DEF LiveEvidence, LiveResources, Known
  <2>2. ASSUME WorkerStep PROVE LiveEvidence'
    <3>1. ASSUME NEW w \in Workers, WorkerDied(w) PROVE LiveEvidence'
      BY <3>1, FencingKeepsEvidence DEF WorkerDied, TypeOK
    <3>2. ASSUME NEW w \in Workers, NEW b \in Boots, Register(w, b) PROVE LiveEvidence'
      <4>1. \A v \in Workers : v # w => alive'[v] = alive[v] /\ boot'[v] = boot[v]
        BY <3>2 DEF Register, TypeOK
      <4>2. CASE boot[w] # 0 /\ boot[w] # b
        BY <3>2, <4>1, <4>2, FencingKeepsEvidence DEF Register
      <4>3. CASE boot[w] = b
        <5>1. UNCHANGED <<resources, boot>> /\ alive'[w]
          BY <3>2, <4>3 DEF Register, TypeOK
        <5> QED BY <4>1, <5>1 DEF LiveEvidence, LiveResources, Known, TypeOK, Partial, Record
      <4>4. CASE boot[w] = 0
        <5>1. \A r \in LiveResources : resources[r].worker # w /\ resources[r].worker \in Workers
          <6> TAKE r \in LiveResources
          <6>1. resources[r] \in Record
            BY DEF LiveResources, Known, TypeOK, Partial
          <6>2. resources[r].boot # 0 /\ resources[r].worker \in Workers
            BY <6>1, MessageAssumption DEF Record
          <6> QED BY <4>4, <6>2 DEF LiveEvidence
        <5>2. resources' = resources
          BY <3>2, <4>4 DEF Register
        <5> QED BY <4>1, <5>1, <5>2 DEF LiveEvidence, LiveResources, Known
      <4> QED BY <4>2, <4>3, <4>4
    <3>3. ASSUME NEW w \in Workers, NEW b \in Boots, NEW res \in ResourceMsgs,
                 PublishResource(w, b, res)
          PROVE  LiveEvidence'
      <4> DEFINE rec == [gen |-> res.gen, cap |-> res.cap, group |-> res.group,
                         prov |-> res.prov, allocs |-> EmptyMap, worker |-> w, boot |-> b,
                         alive |-> TRUE]
      <4>1. rec.worker = w /\ rec.boot = b
        OBVIOUS
      <4>2. resources' = [resources EXCEPT ![res.id] = rec]
        BY <3>3 DEF PublishResource
      <4> HIDE DEF rec
      <4>3. alive[w] /\ boot[w] = b /\ UNCHANGED <<boot, alive>>
        BY <3>3 DEF PublishResource, Current
      <4>4. \A r \in ResourceIds :
               resources'[r] = rec \/ resources'[r] = resources[r]
        BY <4>2 DEF TypeOK, Partial
      <4> QED BY <4>1, <4>3, <4>4 DEF LiveEvidence, LiveResources, Known
    <3>4. ASSUME NEW w \in Workers, NEW b \in Boots, NEW res \in ResourceMsgs,
                 NEW as \in LayoutMsgs, PublishLayout(w, b, res.id, res.gen, as)
          PROVE  LiveEvidence'
      BY <3>4, LayoutChangeKeepsEvidence DEF PublishLayout, OwnedBy
    <3>5. ASSUME NEW w \in Workers, NEW b \in Boots, NEW r \in ResourceIds,
                 NEW a \in AllocMsgs, PublishAllocation(w, b, r, a)
          PROVE  LiveEvidence'
      BY <3>5, LayoutChangeKeepsEvidence DEF PublishAllocation
    <3>6. ASSUME NEW w \in Workers, NEW b \in Boots, NEW i \in AllocIds,
                 InvalidateAllocation(w, b, i)
          PROVE  LiveEvidence'
      BY <3>6, LayoutChangeKeepsEvidence DEF InvalidateAllocation, Holds, OwnedBy
    <3> QED BY <2>2, <3>1, <3>2, <3>3, <3>4, <3>5, <3>6 DEF WorkerStep
  <2>3. ASSUME ControllerStep PROVE LiveEvidence'
    <3>1. ASSUME NEW p \in PlanIds, NEW act \in plans[p].actions, NEW ok \in BOOLEAN,
                 ActionComplete(p, act, ok)
          PROVE  LiveEvidence'
      <4>1. CASE ok /\ act.src # NoAlloc /\ act.res \in ResourceIds /\ Known(act.res)
        BY <3>1, <4>1, LayoutChangeKeepsEvidence DEF ActionComplete, Removed
      <4>2. CASE ~(ok /\ act.src # NoAlloc /\ act.res \in ResourceIds /\ Known(act.res))
        BY <3>1, <4>2, <2>1 DEF ActionComplete
      <4> QED BY <4>1, <4>2
    <3> QED BY <2>1, <2>3, <3>1
          DEF ControllerStep, CreatePlan, NoBeneficialAction, ApprovePlan, BeginAction,
              Verify, CancelPlan, Revalidate, MoveTo, AdvanceResourceGeneration,
              AdvanceAllocationGeneration, AdvancePolicyGeneration
  <2>4. ASSUME ProcessStep PROVE LiveEvidence'
    <3>1. ASSUME NEW e, Reset(e) PROVE LiveEvidence'
      BY <3>1 DEF Reset, LiveEvidence, LiveResources, Known
    <3> QED BY <2>1, <2>4, <3>1 DEF ProcessStep, Save, RestartEmpty, Recover
  <2>5. CASE UNCHANGED vars
    BY <2>1, <2>5 DEF vars
  <2> QED BY <2>2, <2>3, <2>4, <2>5 DEF Next
<1> QED BY <1>1, <1>2, TypeCorrect, PTL DEF Spec

-----------------------------------------------------------------------------
(***************************************************************************)
(* What a message may do to a plan.                                        *)
(***************************************************************************)
Kept(p) == plans'[p] = plans[p] /\ before'[p] = before[p]

(* The plan keeps its identity, authority and before-snapshot.             *)
SamePlan(p) ==
    /\ plans[p] # NoPlan
    /\ plans'[p].gen = plans[p].gen
    /\ plans'[p].policyGen = plans[p].policyGen
    /\ plans'[p].epoch = plans[p].epoch
    /\ before'[p] = before[p]

Moved(p) ==
    /\ SamePlan(p)
    /\ plans'[p].verification = plans[p].verification
    /\ plans'[p].state \in {"APPROVED", "EXECUTING", "VERIFYING", "CANCELLED",
                            "REVALIDATION_REQUIRED"}
    /\ plans'[p].state = "EXECUTING" => plans[p].epoch = epoch
    /\ plans'[p].state = "VERIFYING" => plans[p].state = "EXECUTING"

Verified(p) ==
    LET outcome == VerifyRemediation(before[p], Snapshot, lastDemand)
    IN  /\ SamePlan(p)
        /\ plans[p].state = "VERIFYING"
        /\ outcome \in VerificationOutcomes
        /\ plans'[p].verification = outcome
        /\ plans'[p].state = StateFor(outcome)

Created(p) ==
    /\ p = nextPlanId
    /\ nextPlanId' = nextPlanId + 1
    /\ plans'[p].gen = nextPlanId /\ plans'[p].state = "PLAN_READY"
    /\ plans'[p].epoch = epoch /\ plans'[p].policyGen = policyGen
    /\ before'[p] = Snapshot

(* Moving one plan to another state leaves the others alone.               *)
LEMMA MoveEffect ==
    ASSUME TypeOK, NEW p \in PlanIds, plans[p] # NoPlan, NEW s,
           plans' = [plans EXCEPT ![p].state = s], before' = before
    PROVE  /\ \A q \in PlanIds : q # p => Kept(q)
           /\ SamePlan(p) /\ plans'[p].verification = plans[p].verification
           /\ plans'[p].state = s
<1>1. plans[p] \in Plan
  BY DEF TypeOK, Partial
<1> QED BY <1>1 DEF TypeOK, Partial, Plan, Kept, SamePlan

(* Fencing a worker keeps every plan or makes it ask for revalidation.     *)
LEMMA FencingEffect ==
    ASSUME TypeOK, NEW w \in Workers, plans' = DeadPlans(w), before' = before
    PROVE  \A p \in PlanIds : Kept(p) \/ Moved(p)
<1> TAKE p \in PlanIds
<1>1. CASE plans[p] # NoPlan /\ \E act \in plans[p].actions : OwnedBy(act.res, w)
  <2>1. plans'[p] = [plans[p] EXCEPT !.state = "REVALIDATION_REQUIRED"]
    BY <1>1 DEF DeadPlans
  <2>2. plans[p] \in Plan
    BY <1>1 DEF TypeOK, Partial
  <2> QED BY <1>1, <2>1, <2>2 DEF Plan, Moved, SamePlan
<1>2. CASE ~(plans[p] # NoPlan /\ \E act \in plans[p].actions : OwnedBy(act.res, w))
  BY <1>2 DEF DeadPlans, Kept
<1> QED BY <1>1, <1>2

(* Every message keeps, moves, verifies or creates a plan, and leaves      *)
(* epoch and state file alone.                                             *)
LEMMA PlanSteps ==
    ASSUME TypeOK, WorkerStep \/ ControllerStep
    PROVE  /\ epoch' = epoch /\ disk' = disk
           /\ nextPlanId' \in {nextPlanId, nextPlanId + 1}
           /\ \A p \in PlanIds : Kept(p) \/ Moved(p) \/ Verified(p) \/ Created(p)
<1> USE DEF authVars, workerVars, planVars
<1> DEFINE Goal == /\ epoch' = epoch /\ disk' = disk
                   /\ nextPlanId' \in {nextPlanId, nextPlanId + 1}
                   /\ \A p \in PlanIds : Kept(p) \/ Moved(p) \/ Verified(p) \/ Created(p)
<1>1. ASSUME UNCHANGED <<epoch, disk, nextPlanId, plans, before>> PROVE Goal
  BY <1>1 DEF Kept
<1>2. ASSUME NEW w \in Workers, WorkerDied(w) PROVE Goal
  BY <1>2, FencingEffect DEF WorkerDied
<1>3. ASSUME NEW w \in Workers, NEW b \in Boots, Register(w, b) PROVE Goal
  <2>1. CASE boot[w] # 0 /\ boot[w] # b
    BY <1>3, <2>1, FencingEffect DEF Register
  <2>2. CASE ~(boot[w] # 0 /\ boot[w] # b)
    BY <1>1, <1>3, <2>2 DEF Register
  <2> QED BY <2>1, <2>2
<1>4. ASSUME NEW d \in Demands, CreatePlan(d) PROVE Goal
  <2>1. nextPlanId \in PlanIds
    BY <1>4, BoundAssumption DEF CreatePlan, TypeOK, PlanIds
  <2>2. /\ plans' = [plans EXCEPT ![nextPlanId] = NewPlan(d)]
        /\ before' = [before EXCEPT ![nextPlanId] = Snapshot]
        /\ nextPlanId' = nextPlanId + 1
        /\ epoch' = epoch /\ disk' = disk
    BY <1>4 DEF CreatePlan
  <2>3. Created(nextPlanId)
    BY <2>1, <2>2, NewPlanType DEF Created, TypeOK, Partial
  <2>4. \A q \in PlanIds : q # nextPlanId => Kept(q)
    BY <2>2 DEF Kept, TypeOK, Partial
  <2> QED BY <2>2, <2>3, <2>4
<1>5. ASSUME NEW p \in PlanIds, plans[p] # NoPlan, NEW s, MoveTo(p, s),
             s \in {"APPROVED", "EXECUTING", "CANCELLED", "REVALIDATION_REQUIRED"},
             s = "EXECUTING" => plans[p].epoch = epoch
      PROVE  Goal
  <2>1. Moved(p) /\ \A q \in PlanIds : q # p => Kept(q)
    BY <1>5, MoveEffect DEF MoveTo, Moved
  <2> QED BY <1>5, <2>1 DEF MoveTo
<1>6. ASSUME NEW p \in PlanIds, NEW g \in PlanIds, BeginAction(p, g) PROVE Goal
  BY <1>5, <1>6 DEF BeginAction, CanExecute
<1>7. ASSUME NEW p \in PlanIds, NEW act \in plans[p].actions, NEW ok \in BOOLEAN,
             ActionComplete(p, act, ok)
      PROVE  Goal
  <2>1. Moved(p) /\ \A q \in PlanIds : q # p => Kept(q)
    BY <1>7, MoveEffect DEF ActionComplete, Moved
  <2> QED BY <1>7, <2>1 DEF ActionComplete
<1>8. ASSUME NEW p \in PlanIds, Verify(p) PROVE Goal
  <2> DEFINE o == VerifyRemediation(before[p], Snapshot, lastDemand)
  <2>1. /\ plans' = [plans EXCEPT ![p].verification = o, ![p].state = StateFor(o)]
        /\ plans[p] # NoPlan /\ plans[p].state = "VERIFYING" /\ before[p] # NoSnap
        /\ UNCHANGED <<epoch, disk, nextPlanId, before>>
    BY <1>8 DEF Verify
  <2>2. Verified(p)
    <3> HIDE DEF o
    <3>1. plans[p] \in Plan
      BY <2>1 DEF TypeOK, Partial
    <3>2. plans'[p] = [plans[p] EXCEPT !.verification = o, !.state = StateFor(o)]
      BY <2>1 DEF TypeOK, Partial
    <3>3. SamePlan(p) /\ plans'[p].verification = o /\ plans'[p].state = StateFor(o)
      <4> DEFINE st == StateFor(o)
                 new == plans'[p]
      <4>1. new = [plans[p] EXCEPT !.verification = o, !.state = st]
        BY <3>2
      <4> HIDE DEF st, new
      <4>2. /\ new.gen = plans[p].gen /\ new.policyGen = plans[p].policyGen
            /\ new.epoch = plans[p].epoch /\ new.verification = o /\ new.state = st
        BY <3>1, <4>1 DEF Plan
      <4> QED BY <2>1, <4>2 DEF SamePlan, st, new
    <3>4. o \in VerificationOutcomes
      BY <2>1, OutcomeType DEF o
    <3> QED BY <2>1, <3>3, <3>4 DEF Verified, o
  <2>3. \A q \in PlanIds : q # p => Kept(q)
    BY <2>1 DEF Kept, TypeOK, Partial
  <2> QED BY <2>1, <2>2, <2>3
<1>9. ASSUME WorkerStep PROVE Goal
  <2> HIDE DEF Goal
  <2> QED BY <1>1, <1>2, <1>3, <1>9
          DEF WorkerStep, PublishResource, PublishLayout, PublishAllocation, InvalidateAllocation
<1>10. ASSUME ControllerStep PROVE Goal
  <2>1. ASSUME NEW p \in PlanIds, ApprovePlan(p) \/ CancelPlan(p) \/ Revalidate(p) PROVE Goal
    BY <1>5, <2>1 DEF ApprovePlan, CancelPlan, Revalidate
  <2>2. ASSUME \/ \E d \in Demands : NoBeneficialAction(d)
               \/ AdvanceResourceGeneration
               \/ AdvanceAllocationGeneration
               \/ AdvancePolicyGeneration
        PROVE  Goal
    BY <1>1, <2>2 DEF NoBeneficialAction, AdvanceResourceGeneration,
                      AdvanceAllocationGeneration, AdvancePolicyGeneration
  <2> HIDE DEF Goal
  <2> QED BY <1>4, <1>6, <1>7, <1>8, <1>10, <2>1, <2>2 DEF ControllerStep
<1> QED BY <1>9, <1>10

-----------------------------------------------------------------------------
(***************************************************************************)
(* Plans through verification, save and restart.                           *)
(***************************************************************************)

(* No history of approvals, deaths, saves and restarts makes a plan        *)
(* COMPLETED without a successful verification, in memory or on disk.      *)
THEOREM CompletionNeedsVerification == Spec => []CompletedVerified
<1>1. Init => CompletedVerified
  BY DEF Init, CompletedVerified
<1>2. TypeOK /\ CompletedVerified /\ [Next]_vars => CompletedVerified'
  <2> SUFFICES ASSUME TypeOK, CompletedVerified, [Next]_vars PROVE CompletedVerified'
    OBVIOUS
  <2> USE DEF authVars, workerVars, planVars
  <2>1. ASSUME WorkerStep \/ ControllerStep PROVE CompletedVerified'
    <3>1. \A p \in PlanIds : plans'[p] # NoPlan => Agrees(plans'[p])
      <4> SUFFICES ASSUME NEW p \in PlanIds, plans'[p] # NoPlan PROVE Agrees(plans'[p])
        OBVIOUS
      <4>1. CASE Kept(p)
        BY <4>1 DEF Kept, CompletedVerified
      <4>2. CASE Moved(p)
        BY <4>2 DEF Moved, Agrees
      <4>3. CASE Verified(p)
        BY <4>3, StateForType DEF Verified, Agrees
      <4>4. CASE Created(p)
        BY <4>4 DEF Created, Agrees
      <4> QED BY <2>1, <4>1, <4>2, <4>3, <4>4, PlanSteps
    <3> QED BY <2>1, <3>1, PlanSteps DEF CompletedVerified
  <2>2. ASSUME Save PROVE CompletedVerified'
    <3>1. \A plan : Agrees(plan) => Agrees(PersistedPlan(plan))
      BY DEF Agrees, PersistedPlan
    <3>2. plans' = plans /\ \A p \in PlanIds : disk'.plans[p] # NoPlan =>
             plans[p] # NoPlan /\ disk'.plans[p] = PersistedPlan(plans[p])
      BY <2>2 DEF Save
    <3> QED BY <3>1, <3>2 DEF CompletedVerified
  <2>3. ASSUME NEW e \in Epochs, RestartEmpty(e) PROVE CompletedVerified'
    BY <2>3 DEF RestartEmpty, Reset, CompletedVerified
  <2>4. ASSUME NEW e \in Epochs, Recover(e) PROVE CompletedVerified'
    <3>1. \A im : Agrees(im) => Agrees(RecoveredPlan(im))
      BY DEF Agrees, RecoveredPlan, Degraded
    <3>2. disk' = disk /\ disk # NoState /\ \A p \in PlanIds : plans'[p] # NoPlan =>
             disk.plans[p] # NoPlan /\ plans'[p] = RecoveredPlan(disk.plans[p])
      BY <2>4 DEF Recover, Reset
    <3> QED BY <3>1, <3>2 DEF CompletedVerified
  <2>5. CASE UNCHANGED vars
    BY <2>5 DEF vars, CompletedVerified
  <2> QED BY <2>1, <2>2, <2>3, <2>4, <2>5 DEF Next, ProcessStep
<1> QED BY <1>1, <1>2, TypeCorrect, PTL DEF Spec

(* CREATE_PLAN never overwrites a plan, not even a recovered one, and a    *)
(* plan generation names one plan.                                         *)
THEOREM PlanIdsAlwaysFresh == Spec => []FreshPlanIds
<1>1. Init => FreshPlanIds
  BY DEF Init, FreshPlanIds
<1>2. TypeOK /\ FreshPlanIds /\ [Next]_vars => FreshPlanIds'
  <2> SUFFICES ASSUME TypeOK, FreshPlanIds, [Next]_vars PROVE FreshPlanIds'
    OBVIOUS
  <2> USE DEF authVars, workerVars, planVars
  <2>0. nextPlanId \in Nat /\ PlanIds \subseteq Nat
    BY BoundAssumption DEF TypeOK, PlanIds
  <2>1. ASSUME WorkerStep \/ ControllerStep PROVE FreshPlanIds'
    <3>1. ASSUME NEW p \in PlanIds, plans'[p] # NoPlan
          PROVE  p < nextPlanId' /\ plans'[p].gen = p
      <4>1. CASE Kept(p) \/ SamePlan(p)
        BY <2>0, <2>1, <3>1, <4>1, PlanSteps DEF Kept, SamePlan, FreshPlanIds
      <4>2. CASE Created(p)
        BY <2>0, <4>2 DEF Created
      <4> QED BY <2>1, <4>1, <4>2, PlanSteps DEF Moved, Verified
    <3> QED BY <2>1, <3>1, PlanSteps DEF FreshPlanIds
  <2>2. ASSUME Save PROVE FreshPlanIds'
    <3>1. \A plan : PersistedPlan(plan).gen = plan.gen
      BY DEF PersistedPlan
    <3>2. /\ plans' = plans /\ nextPlanId' = nextPlanId /\ disk'.nextPlanId = nextPlanId
          /\ \A p \in PlanIds : disk'.plans[p] # NoPlan =>
                plans[p] # NoPlan /\ disk'.plans[p] = PersistedPlan(plans[p])
      BY <2>2 DEF Save
    <3> QED BY <3>1, <3>2 DEF FreshPlanIds
  <2>3. ASSUME NEW e \in Epochs, RestartEmpty(e) PROVE FreshPlanIds'
    BY <2>3 DEF RestartEmpty, Reset, FreshPlanIds
  <2>4. ASSUME NEW e \in Epochs, Recover(e) PROVE FreshPlanIds'
    <3>1. \A im : RecoveredPlan(im).gen = im.gen
      BY DEF RecoveredPlan
    <3>2. /\ disk' = disk /\ disk # NoState /\ nextPlanId' = disk.nextPlanId
          /\ \A p \in PlanIds : plans'[p] # NoPlan =>
                disk.plans[p] # NoPlan /\ plans'[p] = RecoveredPlan(disk.plans[p])
      BY <2>4 DEF Recover, Reset
    <3> QED BY <3>1, <3>2 DEF FreshPlanIds
  <2>5. CASE UNCHANGED vars
    BY <2>5 DEF vars, FreshPlanIds
  <2> QED BY <2>1, <2>2, <2>3, <2>4, <2>5 DEF Next, ProcessStep
<1> QED BY <1>1, <1>2, TypeCorrect, PTL DEF Spec

-----------------------------------------------------------------------------
(***************************************************************************)
(* Authority, when every restart has a greater epoch.  A plan carries the  *)
(* epoch of the process that created it; only a plan of this process can   *)
(* have its epoch, and such a plan has its before-snapshot.                *)
(***************************************************************************)
Authority ==
    /\ \A p \in PlanIds : plans[p] # NoPlan =>
          /\ plans[p].epoch <= epoch
          /\ plans[p].epoch = epoch =>
                /\ before[p] # NoSnap
                /\ before[p].epoch = epoch
                /\ before[p].policyGen = plans[p].policyGen
          /\ plans[p].state \in Executing => plans[p].epoch = epoch
    /\ disk # NoState => \A p \in PlanIds :
          disk.plans[p] # NoPlan => disk.plans[p].epoch <= epoch

(* Authority is an invariant.                                              *)
LEMMA AuthorityInvariant ==
    ASSUME FreshEpochs
    PROVE  Spec => []Authority
<1>1. Init => Authority
  BY DEF Init, Authority
<1>2. TypeOK /\ Authority /\ [Next]_vars => Authority'
  <2> SUFFICES ASSUME TypeOK, Authority, [Next]_vars PROVE Authority'
    OBVIOUS
  <2> USE DEF authVars, workerVars, planVars
  <2>0. epoch \in Nat
    BY BoundAssumption DEF TypeOK
  <2>1. ASSUME WorkerStep \/ ControllerStep PROVE Authority'
    <3>0. epoch' = epoch /\ disk' = disk
      BY <2>1, PlanSteps
    <3>1. ASSUME NEW p \in PlanIds, plans'[p] # NoPlan
          PROVE  /\ plans'[p].epoch <= epoch
                 /\ plans'[p].epoch = epoch =>
                       /\ before'[p] # NoSnap
                       /\ before'[p].epoch = epoch
                       /\ before'[p].policyGen = plans'[p].policyGen
                 /\ plans'[p].state \in Executing => plans'[p].epoch = epoch
      <4>1. CASE Kept(p)
        BY <3>1, <4>1 DEF Kept, Authority
      <4>2. CASE Moved(p)
        BY <4>2 DEF Moved, SamePlan, Authority, Executing
      <4>3. CASE Verified(p)
        <5>1. plans'[p].state \notin Executing
          BY <4>3, StateForType DEF Verified
        <5> QED BY <4>3, <5>1 DEF Verified, SamePlan, Authority
      <4>4. CASE Created(p)
        BY <4>4, <2>0, SnapshotType, NullAssumption DEF Created, Executing
      <4> QED BY <2>1, <4>1, <4>2, <4>3, <4>4, PlanSteps
    <3> QED BY <3>0, <3>1 DEF Authority
  <2>2. ASSUME Save PROVE Authority'
    <3>1. \A plan : PersistedPlan(plan).epoch = plan.epoch
      BY DEF PersistedPlan
    <3>2. /\ UNCHANGED <<plans, before, epoch>>
          /\ \A p \in PlanIds : disk'.plans[p] # NoPlan =>
                plans[p] # NoPlan /\ disk'.plans[p] = PersistedPlan(plans[p])
      BY <2>2 DEF Save
    <3> QED BY <3>1, <3>2 DEF Authority
  <2>3. ASSUME NEW e \in Epochs, CanRestart(e), Reset(e) PROVE epoch' > epoch /\ epoch' \in Nat
    BY <2>3, BoundAssumption DEF CanRestart, Reset
  <2>4. \A p \in PlanIds : disk # NoState /\ disk.plans[p] # NoPlan => disk.plans[p].epoch \in Nat
    BY DEF TypeOK, Partial, Image
  <2>5. ASSUME NEW e \in Epochs, RestartEmpty(e) PROVE Authority'
    <3>1. disk' = disk /\ epoch' > epoch /\ epoch' \in Nat
      BY <2>3, <2>5 DEF RestartEmpty, Reset
    <3>2. \A p \in PlanIds : plans'[p] = NoPlan
      BY <2>5 DEF RestartEmpty
    <3> QED BY <2>0, <2>4, <3>1, <3>2 DEF Authority
  <2>6. ASSUME NEW e \in Epochs, Recover(e) PROVE Authority'
    <3>1. disk' = disk /\ disk # NoState /\ epoch' > epoch /\ epoch' \in Nat
      BY <2>3, <2>6 DEF Recover, Reset
    <3>2. \A im : RecoveredPlan(im).epoch = im.epoch /\ RecoveredPlan(im).state \notin Executing
      BY DEF RecoveredPlan, Degraded, Executing
    <3>3. \A p \in PlanIds : plans'[p] # NoPlan =>
             disk.plans[p] # NoPlan /\ plans'[p] = RecoveredPlan(disk.plans[p])
      BY <2>6 DEF Recover
    <3>4. \A p \in PlanIds : disk.plans[p] # NoPlan =>
             disk.plans[p].epoch < epoch' /\ disk.plans[p].epoch \in Nat
      BY <2>0, <2>4, <3>1 DEF Authority
    <3>5. \A p \in PlanIds : plans'[p] # NoPlan =>
             plans'[p].epoch < epoch' /\ plans'[p].epoch \in Nat /\ plans'[p].state \notin Executing
      BY <3>2, <3>3, <3>4
    <3> QED BY <3>1, <3>4, <3>5 DEF Authority
  <2>7. CASE UNCHANGED vars
    BY <2>7 DEF vars, Authority
  <2> QED BY <2>1, <2>2, <2>5, <2>6, <2>7 DEF Next, ProcessStep
<1> QED BY <1>1, <1>2, TypeCorrect, PTL DEF Spec

(* When every restart has a greater epoch, only plans of this process      *)
(* execute, and VERIFY finds the snapshot it needs to decide them.         *)
THEOREM ExecutingAlwaysDecidable ==
    ASSUME FreshEpochs
    PROVE  Spec => []Decidable
<1>1. Authority => Decidable
  BY DEF Authority, Decidable
<1> QED BY <1>1, AuthorityInvariant, PTL

(* When every restart has a greater epoch, a plan is completed only under  *)
(* the policy generation and the epoch it was created with.                *)
THEOREM CompletionAlwaysAuthorised ==
    ASSUME FreshEpochs
    PROVE  Spec => CompletionAuthorised
<1>1. TypeOK /\ Authority /\ [Next]_vars =>
         [\A p \in PlanIds : Completes(p) /\ epoch' = epoch =>
             plans[p].policyGen = policyGen /\ plans[p].epoch = epoch]_vars
  <2> SUFFICES ASSUME TypeOK, Authority, [Next]_vars,
                      NEW p \in PlanIds, Completes(p), epoch' = epoch
               PROVE  plans[p].policyGen = policyGen /\ plans[p].epoch = epoch
    OBVIOUS
  <2> USE DEF authVars, workerVars, planVars
  <2>0. epoch \in Nat
    BY BoundAssumption DEF TypeOK
  <2>1. CASE WorkerStep \/ ControllerStep
    <3>1. Verified(p)
      BY <2>1, PlanSteps DEF Kept, Moved, Created, Completes
    <3>2. VerifyRemediation(before[p], Snapshot, lastDemand) \in Success
      BY <3>1, StateForType DEF Verified, Completes
    <3>3. CurrentGenerations(before[p], Snapshot)
      BY <3>2 DEF VerifyRemediation, Success
    <3>4. before[p].policyGen = policyGen
      BY <3>3, SnapshotType DEF CurrentGenerations
    <3> QED BY <3>1, <3>4 DEF Verified, SamePlan, Authority, Executing
  <2>2. CASE ProcessStep
    <3>1. ASSUME NEW e \in Epochs, CanRestart(e), Reset(e) PROVE FALSE
      BY <2>0, <3>1, BoundAssumption DEF CanRestart, Reset
    <3>2. CASE Save
      BY <3>2 DEF Save, Completes
    <3> QED BY <2>2, <3>1, <3>2 DEF ProcessStep, RestartEmpty, Recover
  <2>3. CASE UNCHANGED vars
    BY <2>3 DEF vars, Completes
  <2> QED BY <2>1, <2>2, <2>3 DEF Next
<1> QED BY <1>1, TypeCorrect, AuthorityInvariant, PTL DEF Spec, CompletionAuthorised

-----------------------------------------------------------------------------
(***************************************************************************)
(* Whatever workers publish and controllers execute, no two allocations of *)
(* a resource overlap and none leaves it.                                  *)
(***************************************************************************)

(* An empty layout is valid.                                               *)
LEMMA EmptyValid ==
    ASSUME NEW cap
    PROVE  ValidLayout(cap, EmptyMap)
BY DEF ValidLayout, EmptyMap

(* So is a valid one with one allocation less.                             *)
LEMMA EraseValid ==
    ASSUME NEW cap, NEW l, NEW i, ValidLayout(cap, l)
    PROVE  ValidLayout(cap, Erase(l, i))
BY DEF ValidLayout, Erase

(* And with one more, if insert_allocation accepts it.                     *)
LEMMA EmplaceValid ==
    ASSUME NEW cap \in Nat, NEW l, NEW a \in AllocMsgs, ValidLayout(cap, l),
           CanInsert(cap, l, a.id, a)
    PROVE  ValidLayout(cap, Emplace(l, a.id, a))
<1> DEFINE m == Emplace(l, a.id, a)
<1>1. a.length > 0 /\ a.offset + a.length <= cap
  BY MessageAssumption DEF CanInsert, AllocMsg
<1>2. DOMAIN m = DOMAIN l \cup {a.id} /\ a.id \notin DOMAIN l
  BY DEF Emplace, CanInsert
<1>3. m[a.id] = a /\ \A i \in DOMAIN l : m[i] = l[i]
  BY <1>2 DEF Emplace
<1>4. \A i \in DOMAIN l : Cells(l[i]) \cap Cells(a) = {}
  BY DEF CanInsert, UsedCells
<1> HIDE DEF m
<1> QED BY <1>1, <1>2, <1>3, <1>4 DEF ValidLayout, m

(* Of two allocations of an accepted layout, the later one was tested      *)
(* against a layout that held the earlier one: their ids differ and their  *)
(* bytes do not meet.                                                      *)
LEMMA AcceptedApart ==
    ASSUME NEW cap, NEW N \in Nat, NEW as, DOMAIN as = 1 .. N, AllInserted(cap, as)
    PROVE  \A j, k \in DOMAIN as : j # k =>
              as[j].id # as[k].id /\ Cells(as[j]) \cap Cells(as[k]) = {}
<1> DEFINE Prefix(n) == [i \in 1 .. (n - 1) |-> as[i]]
           Built(n) == LayoutOf(Prefix(n))
<1>1. ASSUME NEW n \in 1 .. N
      PROVE  /\ DOMAIN Prefix(n) = 1 .. (n - 1)
             /\ \A q \in 1 .. (n - 1) : Prefix(n)[q] = as[q] /\ q \in 1 .. N
  OBVIOUS
<1>2. \A n \in 1 .. N : CanInsert(cap, Built(n), as[n].id, as[n])
  BY DEF AllInserted
<1> HIDE DEF Prefix
<1>3. ASSUME NEW n \in 1 .. N
      PROVE  DOMAIN Built(n) = {Prefix(n)[i].id : i \in DOMAIN Prefix(n)}
  BY DEF LayoutOf
<1> HIDE DEF Earlier
<1>4. ASSUME NEW n \in 1 .. N, NEW i \in 1 .. (n - 1)
      PROVE  as[i].id \in DOMAIN Built(n) /\ as[i].id # as[n].id
  <2>1. i \in DOMAIN Prefix(n) /\ Prefix(n)[i] = as[i]
    BY <1>1
  <2>2. as[i].id \in DOMAIN Built(n)
    BY <1>3, <2>1
  <2>3. as[n].id \notin DOMAIN Built(n)
    BY <1>2 DEF CanInsert
  <2> QED BY <2>2, <2>3
<1>5. \A i, n \in 1 .. N : i # n => as[i].id # as[n].id
  <2>1. \A i, n \in 1 .. N : i < n => i \in 1 .. (n - 1)
    OBVIOUS
  <2>2. \A i, n \in 1 .. N : i < n => as[i].id # as[n].id
    BY <1>4, <2>1
  <2>3. \A i, n \in 1 .. N : i # n => i < n \/ n < i
    OBVIOUS
  <2> QED BY <2>2, <2>3
<1>6. ASSUME NEW n \in 1 .. N, NEW i \in 1 .. (n - 1)
      PROVE  Cells(as[i]) \cap Cells(as[n]) = {}
  <2>1. i \in DOMAIN Prefix(n) /\ Prefix(n)[i].id = as[i].id
    BY <1>1
  <2>2. \A q \in DOMAIN Prefix(n) : Prefix(n)[q].id = as[i].id => q = i
    BY <1>1, <1>5
  <2>3. (CHOOSE q \in DOMAIN Prefix(n) : Prefix(n)[q].id = as[i].id) = i
    BY <2>1, <2>2
  <2>4. Built(n)[as[i].id] = as[i]
    <3>1. Built(n)[as[i].id] =
             Prefix(n)[CHOOSE q \in DOMAIN Prefix(n) : Prefix(n)[q].id = as[i].id]
      BY <1>3, <1>4 DEF LayoutOf, Earlier
    <3> QED BY <1>1, <2>3, <3>1
  <2>5. Cells(as[i]) \subseteq UsedCells(Built(n))
    BY <1>4, <2>4 DEF UsedCells
  <2> QED BY <1>2, <2>5 DEF CanInsert
<1> SUFFICES ASSUME NEW j \in 1 .. N, NEW k \in 1 .. N, j # k
             PROVE  as[j].id # as[k].id /\ Cells(as[j]) \cap Cells(as[k]) = {}
  OBVIOUS
<1>7. CASE j < k
  <2>1. j \in 1 .. (k - 1)
    BY <1>7
  <2> QED BY <1>5, <1>6, <2>1
<1>8. CASE k < j
  <2>1. k \in 1 .. (j - 1)
    BY <1>8
  <2> QED BY <1>5, <1>6, <2>1
<1>9. j < k \/ k < j
  OBVIOUS
<1> QED BY <1>7, <1>8, <1>9

(* A layout that PUBLISH_LAYOUT accepts is valid.                          *)
LEMMA LayoutOfValid ==
    ASSUME NEW cap \in Nat, NEW as \in LayoutMsgs, AllInserted(cap, as)
    PROVE  ValidLayout(cap, LayoutOf(as))
<1> DEFINE l == LayoutOf(as)
           At(i) == CHOOSE k \in DOMAIN as : as[k].id = i
<1>1. as \in Seq(AllocMsgs) /\ DOMAIN as = 1 .. Len(as) /\ Len(as) \in Nat
  BY MessageAssumption, LenProperties
<1>2. \A k \in DOMAIN as : as[k] \in AllocMsg
  BY <1>1, MessageAssumption, ElementOfSeq
<1>3. \A j, k \in DOMAIN as : j # k => Cells(as[j]) \cap Cells(as[k]) = {}
  BY <1>1, AcceptedApart
<1>4. \A k \in DOMAIN as : as[k].length > 0 /\ as[k].offset + as[k].length <= cap
  <2> TAKE k \in DOMAIN as
  <2>1. as[k].length # 0 /\ as[k].offset + as[k].length <= cap
    BY DEF AllInserted, CanInsert
  <2>2. as[k].length \in Nat
    BY <1>2 DEF AllocMsg
  <2>3. \A n \in Nat : n # 0 => n > 0
    OBVIOUS
  <2> QED BY <2>1, <2>2, <2>3
<1>5. \A i \in DOMAIN l : At(i) \in DOMAIN as /\ as[At(i)].id = i /\ l[i] = as[At(i)]
  BY DEF LayoutOf
<1> HIDE DEF l, At
<1>6. \A i \in DOMAIN l :
         l[i].id = i /\ l[i].length > 0 /\ l[i].offset + l[i].length <= cap
  BY <1>4, <1>5
<1>7. ASSUME NEW i \in DOMAIN l, NEW j \in DOMAIN l, i # j
      PROVE  Cells(l[i]) \cap Cells(l[j]) = {}
  <2>1. At(i) # At(j)
    BY <1>5, <1>7
  <2> QED BY <1>3, <1>5, <2>1
<1> QED BY <1>6, <1>7 DEF ValidLayout, l

-----------------------------------------------------------------------------
(* Replacing the layout of a known record by a valid one.                  *)
LEMMA ReplacedLayoutValid ==
    ASSUME TypeOK, ValidLayouts, NEW r \in ResourceIds, Known(r), NEW l,
           ValidLayout(resources[r].cap, l),
           resources' = [resources EXCEPT ![r].allocs = l]
    PROVE  ValidLayouts'
<1>1. resources[r] \in Record
  BY DEF TypeOK, Partial, Known
<1>2. resources'[r].cap = resources[r].cap /\ resources'[r].allocs = l
  BY <1>1 DEF Record, TypeOK, Partial
<1>3. \A q \in ResourceIds : q # r => resources'[q] = resources[q]
  BY DEF TypeOK, Partial
<1> QED BY <1>2, <1>3 DEF ValidLayouts, Known

(* Fencing a worker touches no layout.                                     *)
LEMMA FencedLayoutsValid ==
    ASSUME TypeOK, ValidLayouts, NEW w \in Workers, resources' = DeadResources(w)
    PROVE  ValidLayouts'
<1> SUFFICES ASSUME NEW r \in ResourceIds, Known(r)'
             PROVE  ValidLayout(resources'[r].cap, resources'[r].allocs)
  BY DEF ValidLayouts
<1>1. resources'[r] = IF OwnedBy(r, w) THEN [resources[r] EXCEPT !.alive = FALSE]
                      ELSE resources[r]
  BY DEF DeadResources
<1>2. Known(r)
  BY <1>1 DEF Known, OwnedBy
<1>3. resources[r] \in Record
  BY <1>2 DEF Known, TypeOK, Partial
<1>4. resources'[r].cap = resources[r].cap /\ resources'[r].allocs = resources[r].allocs
  BY <1>1, <1>3 DEF Record
<1> QED BY <1>2, <1>4 DEF ValidLayouts

(* Whatever mix of whole-layout and single-allocation publications,        *)
(* invalidations, fencings and completed actions of several workers        *)
(* produced a layout, its allocations do not overlap and stay inside.      *)
THEOREM LayoutsAlwaysValid == Spec => []ValidLayouts
<1>1. Init => ValidLayouts
  BY DEF Init, ValidLayouts, Known
<1>2. TypeOK /\ ValidLayouts /\ [Next]_vars => ValidLayouts'
  <2> SUFFICES ASSUME TypeOK, ValidLayouts, [Next]_vars PROVE ValidLayouts'
    OBVIOUS
  <2> USE DEF authVars, workerVars, planVars
  <2>0. \A r \in ResourceIds : Known(r) => resources[r].cap \in Nat /\ resources[r] \in Record
    BY MessageAssumption DEF Known, TypeOK, Partial, Record, Caps, ResourceMsg
  <2>1. ASSUME UNCHANGED resources PROVE ValidLayouts'
    BY <2>1 DEF ValidLayouts, Known
  <2>2. ASSUME NEW r \in ResourceIds, Known(r), NEW i,
               resources' = [resources EXCEPT ![r].allocs = Erase(@, i)]
        PROVE  ValidLayouts'
    <3>1. resources' = [resources EXCEPT ![r].allocs = Erase(resources[r].allocs, i)]
      BY <2>2
    <3>2. ValidLayout(resources[r].cap, Erase(resources[r].allocs, i))
      BY <2>2, EraseValid DEF ValidLayouts
    <3> QED BY <2>2, <3>1, <3>2, ReplacedLayoutValid
  <2>3. ASSUME WorkerStep PROVE ValidLayouts'
    <3>1. ASSUME NEW w \in Workers, WorkerDied(w) PROVE ValidLayouts'
      BY <3>1, FencedLayoutsValid DEF WorkerDied
    <3>2. ASSUME NEW w \in Workers, NEW b \in Boots, Register(w, b) PROVE ValidLayouts'
      BY <2>1, <3>2, FencedLayoutsValid DEF Register
    <3>3. ASSUME NEW w \in Workers, NEW b \in Boots, NEW res \in ResourceMsgs,
                 PublishResource(w, b, res)
          PROVE  ValidLayouts'
      <4> DEFINE rec == [gen |-> res.gen, cap |-> res.cap, group |-> res.group,
                         prov |-> res.prov, allocs |-> EmptyMap, worker |-> w, boot |-> b,
                         alive |-> TRUE]
      <4>1. rec.allocs = EmptyMap
        OBVIOUS
      <4>2. resources' = [resources EXCEPT ![res.id] = rec]
        BY <3>3 DEF PublishResource
      <4> HIDE DEF rec
      <4>3. \A r \in ResourceIds : resources'[r] = rec \/ resources'[r] = resources[r]
        BY <4>2 DEF TypeOK, Partial
      <4> QED BY <4>1, <4>3, EmptyValid DEF ValidLayouts, Known
    <3>4. ASSUME NEW w \in Workers, NEW b \in Boots, NEW res \in ResourceMsgs,
                 NEW as \in LayoutMsgs, PublishLayout(w, b, res.id, res.gen, as)
          PROVE  ValidLayouts'
      <4>1. res.id \in ResourceIds /\ Known(res.id)
        BY <3>4 DEF PublishLayout, OwnedBy
      <4>2. ValidLayout(resources[res.id].cap, LayoutOf(as))
        BY <2>0, <3>4, <4>1, LayoutOfValid DEF PublishLayout
      <4> QED BY <3>4, <4>1, <4>2, ReplacedLayoutValid DEF PublishLayout
    <3>5. ASSUME NEW w \in Workers, NEW b \in Boots, NEW r \in ResourceIds,
                 NEW a \in AllocMsgs, PublishAllocation(w, b, r, a)
          PROVE  ValidLayouts'
      <4>1. Known(r) /\ CanInsert(resources[r].cap, resources[r].allocs, a.id, a)
        BY <3>5 DEF PublishAllocation
      <4>2. ValidLayout(resources[r].cap, Emplace(resources[r].allocs, a.id, a))
        BY <2>0, <4>1, EmplaceValid DEF ValidLayouts
      <4>3. resources' = [resources EXCEPT ![r].allocs = Emplace(resources[r].allocs, a.id, a)]
        BY <3>5 DEF PublishAllocation
      <4> QED BY <4>1, <4>2, <4>3, ReplacedLayoutValid
    <3>6. ASSUME NEW w \in Workers, NEW b \in Boots, NEW i \in AllocIds,
                 InvalidateAllocation(w, b, i)
          PROVE  ValidLayouts'
      BY <2>2, <3>6 DEF InvalidateAllocation, Holds, OwnedBy
    <3> QED BY <2>3, <3>1, <3>2, <3>3, <3>4, <3>5, <3>6 DEF WorkerStep
  <2>4. ASSUME ControllerStep PROVE ValidLayouts'
    <3>1. ASSUME NEW p \in PlanIds, NEW act \in plans[p].actions, NEW ok \in BOOLEAN,
                 ActionComplete(p, act, ok)
          PROVE  ValidLayouts'
      BY <2>1, <2>2, <3>1 DEF ActionComplete, Removed
    <3> QED BY <2>1, <2>4, <3>1
          DEF ControllerStep, CreatePlan, NoBeneficialAction, ApprovePlan, BeginAction,
              Verify, CancelPlan, Revalidate, MoveTo, AdvanceResourceGeneration,
              AdvanceAllocationGeneration, AdvancePolicyGeneration
  <2>5. ASSUME ProcessStep PROVE ValidLayouts'
    <3>1. ASSUME NEW e, Reset(e) PROVE ValidLayouts'
      BY <3>1 DEF Reset, ValidLayouts, Known
    <3> QED BY <2>1, <2>5, <3>1 DEF ProcessStep, Save, RestartEmpty, Recover
  <2>6. CASE UNCHANGED vars
    BY <2>1, <2>6 DEF vars
  <2> QED BY <2>3, <2>4, <2>5, <2>6 DEF Next
<1> QED BY <1>1, <1>2, TypeCorrect, PTL DEF Spec

-----------------------------------------------------------------------------
(***************************************************************************)
(* A completed remediation has improved something, as long as controllers  *)
(* ask for one demand only.  With two demands it is not so: VERIFY judges  *)
(* a plan by the demand of the last CREATE_PLAN.                           *)
(***************************************************************************)

(* What the theorem needs besides increasing epochs: one demand, and ids   *)
(* of a fixed width, so that there are finitely many of them.              *)
OneDemand == \A d, e \in Demands : d = e
FiniteIds == IsFiniteSet(ResourceIds) /\ IsFiniteSet(AllocIds)

(* The devices of a snapshot form a fleet.                                 *)
LEMMA SnapshotFleet ==
    ASSUME FiniteIds, NEW devs \in Devices
    PROVE  Fleet(devs)
<1>1. DOMAIN devs \subseteq ResourceIds /\ \A r \in DOMAIN devs : devs[r] \in Device
  BY DEF Devices
<1>2. Caps \subseteq Nat
  BY MessageAssumption DEF Caps, ResourceMsg
<1>3. ASSUME NEW d \in Device PROVE IsDevice(d)
  <2>1. d = [cap |-> d.cap, group |-> d.group, allocs |-> d.allocs] /\ d.cap \in Nat
    BY <1>2 DEF Device
  <2>2. d.allocs \in Layouts
    BY DEF Device
  <2>3. DOMAIN d.allocs \subseteq AllocIds
    BY <2>2, LayoutMember
  <2>4. IsFiniteSet(DOMAIN d.allocs)
    BY <2>3, FS_Subset DEF FiniteIds
  <2> QED BY <2>1, <2>4 DEF IsDevice
<1>4. IsFiniteSet(DOMAIN devs)
  BY <1>1, FS_Subset DEF FiniteIds
<1> QED BY <1>1, <1>3, <1>4 DEF Fleet

(* A demand has the sizes that the fit analysis compares.                  *)
LEMMA DemandSizes ==
    ASSUME NEW d \in Demand
    PROVE  IsDemand(d)
BY DEF Demand, IsDemand

(* The stranded bytes of a fleet are a number.                             *)
LEMMA StrandedType ==
    ASSUME NEW devs, Fleet(devs)
    PROVE  Stranded(devs) \in Nat
<1>1. \A r \in DOMAIN devs : devs[r].cap \in Nat /\ Largest(devs[r]) \in Nat /\ Free(devs[r]) \in Nat
  BY LargestIsLongest, FreeIsCounted DEF Fleet, IsDevice
<1> DEFINE Over(T, n) == \A r \in T : Largest(devs[r]) <= n
           Bad == {T \in SUBSET DOMAIN devs : \A n \in Nat : ~Over(T, n)}
<1>2. \E n \in Nat : Over(DOMAIN devs, n)
  <2> SUFFICES ASSUME DOMAIN devs \in Bad PROVE FALSE
    OBVIOUS
  <2>1. PICK T \in Bad : \A U \in Bad : U \subseteq T => U = T
    <3>1. Bad \subseteq SUBSET DOMAIN devs /\ Bad # {} /\ IsFiniteSet(DOMAIN devs)
      BY DEF Fleet
    <3> HIDE DEF Bad
    <3> QED BY <3>1, MinimalSubset
  <2>2. T # {}
    <3>1. Over({}, 0)
      OBVIOUS
    <3> QED BY <2>1, <3>1
  <2>3. PICK r \in T : TRUE
    BY <2>2
  <2>4. T \subseteq DOMAIN devs
    BY <2>1
  <2>5. PICK n \in Nat : Over(T \ {r}, n)
    <3>1. T \ {r} \in SUBSET DOMAIN devs /\ T \ {r} \subseteq T /\ T \ {r} # T
      BY <2>3, <2>4
    <3> QED BY <2>1, <3>1
  <2>6. Over(T, n + Largest(devs[r]))
    BY <1>1, <2>4, <2>5
  <2>7. n + Largest(devs[r]) \in Nat
    BY <1>1, <2>4
  <2> QED BY <2>1, <2>6, <2>7
<1> HIDE DEF Bad
<1>3. PICK n \in Nat : Over(DOMAIN devs, n)
  BY <1>2
<1> DEFINE S == {0} \cup {Largest(devs[r]) : r \in DOMAIN devs}
<1>4. S \subseteq Nat /\ S # {} /\ \A y \in S : y <= n
  BY <1>1, <1>3
<1>5. Max(S) \in Nat
  <2> HIDE DEF S
  <2> QED BY <1>4, MaxOfBounded
<1>6. LargestOf(devs) \in Nat
  BY <1>5 DEF LargestOf
<1>7. AggregateFree(devs) \in Nat
  <2>1. IsFiniteSet(DOMAIN devs)
    BY DEF Fleet
  <2>2. \A r \in DOMAIN devs : Free(devs[r]) <= Free(devs[r])
    BY <1>1
  <2> QED BY <1>1, <2>1, <2>2, AggregateMonotone
<1> QED BY <1>6, <1>7 DEF Stranded

-----------------------------------------------------------------------------
(***************************************************************************)
(* The before-snapshot of a plan is one the planner had to remedy, and the *)
(* demand it is to be verified against is the one it was planned for.      *)
(***************************************************************************)
Targeted(snap, d) == d \in Demands /\ HasPlan(snap.devices, d)
PlannedFor == \A p \in PlanIds : before[p] # NoSnap => Targeted(before[p], lastDemand)

(* What a message does to snapshots and to the remembered demand.          *)
LEMMA DemandSteps ==
    ASSUME TypeOK, WorkerStep \/ ControllerStep
    PROVE  \/ UNCHANGED <<before, lastDemand>>
           \/ /\ lastDemand' \in Demands
              /\ \A p \in PlanIds : before'[p] = before[p]
                                    \/ (before'[p] = Snapshot /\ Targeted(Snapshot, lastDemand'))
<1> USE DEF authVars, workerVars, planVars
<1>1. CASE WorkerStep
  BY <1>1 DEF WorkerStep, WorkerDied, Register, PublishResource, PublishLayout,
              PublishAllocation, InvalidateAllocation
<1>2. ASSUME NEW d \in Demands, CreatePlan(d)
      PROVE  /\ lastDemand' \in Demands
             /\ \A p \in PlanIds : before'[p] = before[p]
                                   \/ (before'[p] = Snapshot /\ Targeted(Snapshot, lastDemand'))
  <2>1. DOMAIN before = PlanIds
    BY DEF TypeOK, Partial
  <2>2. lastDemand' = d /\ HasPlan(Snapshot.devices, d)
        /\ before' = [before EXCEPT ![nextPlanId] = Snapshot]
    BY <1>2 DEF CreatePlan
  <2>3. Targeted(Snapshot, lastDemand')
    BY <2>2 DEF Targeted
  <2> QED BY <2>1, <2>2, <2>3
<1>3. ASSUME NEW d \in Demands, NoBeneficialAction(d)
      PROVE  lastDemand' \in Demands /\ before' = before
  BY <1>3 DEF NoBeneficialAction
<1>4. CASE ControllerStep
  <2>1. ASSUME NEW p, NEW s, MoveTo(p, s) PROVE UNCHANGED <<before, lastDemand>>
    BY <2>1 DEF MoveTo
  <2>2. CASE \E d \in Demands : CreatePlan(d)
    BY <1>2, <2>2
  <2>3. CASE \E d \in Demands : NoBeneficialAction(d)
    <3>1. lastDemand' \in Demands /\ before' = before
      BY <1>3, <2>3
    <3>2. \A p \in PlanIds : before'[p] = before[p]
      BY <3>1
    <3> QED BY <3>1, <3>2
  <2>4. ASSUME NEW p, \/ ApprovePlan(p) \/ CancelPlan(p) \/ Revalidate(p)
                      \/ \E g \in PlanIds : BeginAction(p, g)
        PROVE  UNCHANGED <<before, lastDemand>>
    BY <2>1, <2>4 DEF ApprovePlan, BeginAction, CancelPlan, Revalidate
  <2>5. ASSUME NEW p, Verify(p) PROVE UNCHANGED <<before, lastDemand>>
    BY <2>5 DEF Verify
  <2>6. ASSUME NEW p, NEW act, NEW ok, ActionComplete(p, act, ok) PROVE UNCHANGED <<before, lastDemand>>
    BY <2>6 DEF ActionComplete
  <2>7. CASE AdvanceResourceGeneration \/ AdvanceAllocationGeneration \/ AdvancePolicyGeneration
    BY <2>7 DEF AdvanceResourceGeneration, AdvanceAllocationGeneration, AdvancePolicyGeneration
  <2> QED BY <1>4, <2>2, <2>3, <2>4, <2>5, <2>6, <2>7 DEF ControllerStep
<1> QED BY <1>1, <1>4

(* With one demand, PlannedFor is an invariant.                            *)
LEMMA PlannedForInvariant ==
    ASSUME OneDemand
    PROVE  Spec => []PlannedFor
<1>1. Init => PlannedFor
  BY DEF Init, PlannedFor
<1>2. TypeOK /\ PlannedFor /\ [Next]_vars => PlannedFor'
  <2> SUFFICES ASSUME TypeOK, PlannedFor, [Next]_vars PROVE PlannedFor'
    OBVIOUS
  <2> USE DEF authVars, workerVars, planVars
  <2>1. ASSUME UNCHANGED <<before, lastDemand>> PROVE PlannedFor'
    BY <2>1 DEF PlannedFor
  <2>2. CASE WorkerStep \/ ControllerStep
    <3>1. CASE UNCHANGED <<before, lastDemand>>
      BY <2>1, <3>1
    <3>2. CASE /\ lastDemand' \in Demands
               /\ \A p \in PlanIds : before'[p] = before[p]
                                     \/ (before'[p] = Snapshot /\ Targeted(Snapshot, lastDemand'))
      <4> SUFFICES ASSUME NEW p \in PlanIds, before'[p] # NoSnap
                   PROVE  Targeted(before'[p], lastDemand')
        BY DEF PlannedFor
      <4>1. CASE before'[p] = before[p]
        <5>1. Targeted(before[p], lastDemand)
          BY <4>1 DEF PlannedFor
        <5>2. lastDemand = lastDemand'
          BY <3>2, <5>1 DEF Targeted, OneDemand
        <5> QED BY <4>1, <5>1, <5>2
      <4>2. CASE before'[p] = Snapshot /\ Targeted(Snapshot, lastDemand')
        BY <4>2
      <4> QED BY <3>2, <4>1, <4>2
    <3> QED BY <2>2, <3>1, <3>2, DemandSteps
  <2>3. CASE Save
    BY <2>1, <2>3 DEF Save
  <2>4. ASSUME NEW e \in Epochs, Reset(e) PROVE PlannedFor'
    BY <2>4 DEF Reset, PlannedFor
  <2>5. CASE UNCHANGED vars
    BY <2>1, <2>5 DEF vars
  <2> QED BY <2>2, <2>3, <2>4, <2>5 DEF Next, ProcessStep, RestartEmpty, Recover
<1> QED BY <1>1, <1>2, TypeCorrect, PTL DEF Spec

(* A success of verify_remediation is an improvement, for a plan that the  *)
(* planner found necessary.                                                *)
LEMMA SuccessImproves ==
    ASSUME TypeOK, PlannedFor, FiniteIds, NEW p \in PlanIds, before[p] # NoSnap,
           VerifyRemediation(before[p], Snapshot, lastDemand) \in Success
    PROVE  Improved(p, lastDemand)
<1> DEFINE b == before[p]
           d == lastDemand
           outcome == VerifyRemediation(b, Snapshot, d)
<1>1. b \in Snapshots /\ Snapshot \in Snapshots /\ d \in Demand
  BY SnapshotType DEF TypeOK, Partial
<1>2. Fleet(b.devices) /\ Fleet(Snapshot.devices) /\ IsDemand(d)
  <2>1. b.devices \in Devices /\ Snapshot.devices \in Devices
    BY <1>1 DEF Snapshots
  <2> QED BY <1>1, <2>1, SnapshotFleet, DemandSizes
<1>3. HasPlan(b.devices, d)
  BY DEF PlannedFor, Targeted
<1>4. AnalyzeFit(b, d) # "FIT_NOW"
  <2>1. ~PlanFits(b.devices, d)
    BY <1>2, <1>3, PlanMeansNoFit
  <2> QED BY <1>2, <2>1, FitMeansPlanFits
<1>5. Stranded(b.devices) \in Nat /\ Stranded(Snapshot.devices) \in Nat
  BY <1>2, StrandedType
<1>6. CASE AnalyzeFit(Snapshot, d) = "FIT_NOW"
  BY <1>4, <1>6 DEF Improved
<1>7. CASE AnalyzeFit(Snapshot, d) # "FIT_NOW"
  <2>1. Stranded(b.devices) - Stranded(Snapshot.devices) > 0
    BY <1>7 DEF VerifyRemediation, Success
  <2>2. Stranded(Snapshot.devices) < Stranded(b.devices)
    BY <1>5, <2>1
  <2> QED BY <2>2 DEF Improved
<1> QED BY <1>6, <1>7

(* When controllers ask for one demand and every restart has a greater     *)
(* epoch, a remediation is completed only if stranded capacity fell or the *)
(* demand became feasible: the outcome IMPROVED, which asks for neither,   *)
(* is never the reason.                                                    *)
THEOREM CompletionAlwaysImproves ==
    ASSUME FreshEpochs, OneDemand, FiniteIds
    PROVE  Spec => CompletionImproves
<1>1. TypeOK /\ Authority /\ PlannedFor /\ [Next]_vars =>
         [\A p \in PlanIds : Completes(p) /\ epoch' = epoch => Improved(p, lastDemand)]_vars
  <2> SUFFICES ASSUME TypeOK, Authority, PlannedFor, [Next]_vars,
                      NEW p \in PlanIds, Completes(p), epoch' = epoch
               PROVE  Improved(p, lastDemand)
    OBVIOUS
  <2> USE DEF authVars, workerVars, planVars
  <2>0. epoch \in Nat
    BY BoundAssumption DEF TypeOK
  <2>1. CASE WorkerStep \/ ControllerStep
    <3>1. Verified(p)
      BY <2>1, PlanSteps DEF Kept, Moved, Created, Completes
    <3>2. VerifyRemediation(before[p], Snapshot, lastDemand) \in Success
      BY <3>1, StateForType DEF Verified, Completes
    <3>3. before[p] # NoSnap
      BY <3>1 DEF Verified, SamePlan, Authority, Executing
    <3> QED BY <3>2, <3>3, SuccessImproves
  <2>2. CASE ProcessStep
    <3>1. ASSUME NEW e \in Epochs, CanRestart(e), Reset(e) PROVE FALSE
      BY <2>0, <3>1, BoundAssumption DEF CanRestart, Reset
    <3>2. CASE Save
      BY <3>2 DEF Save, Completes
    <3> QED BY <2>2, <3>1, <3>2 DEF ProcessStep, RestartEmpty, Recover
  <2>3. CASE UNCHANGED vars
    BY <2>3 DEF vars, Completes
  <2> QED BY <2>1, <2>2, <2>3 DEF Next
<1> QED BY <1>1, TypeCorrect, AuthorityInvariant, PlannedForInvariant, PTL
        DEF Spec, CompletionImproves

=============================================================================
