------------------------------ MODULE Analysis ------------------------------
(***************************************************************************)
(* One request through the pure part of the library, on any snapshot:      *)
(* analyze_fit, then the greedy loop of plan_remediation one candidate at  *)
(* a time, then the actions of the plan carried out in any order, with a   *)
(* verification after any of them.  Coordinator uses the closed forms      *)
(* HasPlan and PlannedActions for the loop; here they are compared with    *)
(* it, and with what the fit analysis, the verification and the metrics    *)
(* say about the same state.                                               *)
(***************************************************************************)
EXTENDS Planner, Verification, Metrics

CONSTANTS
    Families  \* families [fleets, provs, timetables, demands] of calls of the library

(* What a ResourceLayout can hold: allocations inside the device that do   *)
(* not overlap.                                                            *)
LegalAlloc(a, cap) ==
    /\ a.offset \in Nat /\ a.length \in Nat \ {0} /\ a.offset + a.length <= cap
    /\ a.movability \in Movability
    /\ a.reserved \in BOOLEAN /\ a.policy_protected \in BOOLEAN

LegalDevice(d) ==
    /\ d = [cap |-> d.cap, group |-> d.group, allocs |-> d.allocs]
    /\ d.cap \in Nat
    /\ d.allocs = [i \in DOMAIN d.allocs |-> d.allocs[i]]
    /\ DOMAIN d.allocs \subseteq Nat /\ IsFiniteSet(DOMAIN d.allocs)
    /\ \A i \in DOMAIN d.allocs : LegalAlloc(d.allocs[i], d.cap)
    /\ \A i, j \in DOMAIN d.allocs : i # j => Cells(d.allocs[i]) \cap Cells(d.allocs[j]) = {}

LegalFleet(fleet) ==
    /\ fleet = [r \in DOMAIN fleet |-> fleet[r]]
    /\ DOMAIN fleet \subseteq Nat /\ IsFiniteSet(DOMAIN fleet)
    /\ \A r \in DOMAIN fleet : LegalDevice(fleet[r])

LegalDemand ==
    [count : Nat, perDevice : Nat, aggregate : Nat, contiguous : Nat,
     group : Nat \cup {NoGroup}, duration : Nat \cup {NoDuration}]

(* A reservation starts before it ends.                                    *)
LegalTimetable(ts) ==
    /\ ts \in Seq([start : Nat, end : Nat, hard : BOOLEAN])
    /\ \A i \in DOMAIN ts : ts[i].start < ts[i].end

ASSUME FamilyAssumption ==
    /\ Horizon \in Nat
    /\ \A f \in Families :
          /\ \A fleet \in f.fleets : LegalFleet(fleet)
          /\ \A ts \in f.timetables : LegalTimetable(ts)
          /\ f.demands \subseteq LegalDemand

VARIABLES
    snap,      \* the snapshot
    demand,
    fit,       \* what analyze_fit answered
    phase,
    devs,      \* the planner's copies of the layouts
    rest,      \* the candidates the loop has not looked at
    actions,   \* plan.actions
    live,      \* the devices themselves
    verdict    \* what verify_remediation answered

avars == <<snap, demand, fit, phase, devs, rest, actions, live, verdict>>

Init ==
    /\ \E f \in Families : \E devices \in f.fleets, prov \in f.provs, ts \in f.timetables :
          /\ snap = [devices |-> devices, prov |-> prov, reservations |-> ts,
                     gens |-> [resource |-> 1, allocation |-> 1, reservation |-> 1],
                     epoch |-> 1, policyGen |-> 1]
          /\ demand \in f.demands
    /\ fit = "NONE"
    /\ phase = "FIT"
    /\ devs = snap.devices
    /\ rest = <<>>
    /\ actions = {}
    /\ live = snap.devices
    /\ verdict = "NONE"

(* QUERY_FIT *)
Analyze ==
    /\ phase = "FIT"
    /\ fit' = AnalyzeFit(snap, demand)
    /\ phase' = "PLAN"
    /\ UNCHANGED <<snap, demand, devs, rest, actions, live, verdict>>

(* plan_remediation up to the loop: a demand that fits needs no plan. *)
Plan ==
    /\ phase = "PLAN"
    /\ phase' = IF PlanFits(devs, demand) THEN "NO_PLAN" ELSE "LOOP"
    /\ rest' = InOrder(devs)
    /\ UNCHANGED <<snap, demand, fit, devs, actions, live, verdict>>

(* Bug: the loop does not look whether the demand fits already. *)
TakeAnyway ==
    /\ phase = "LOOP" /\ rest # <<>>
    /\ devs' = Displaced(devs, {Head(rest)})
    /\ actions' = actions \cup {Head(rest)}
    /\ rest' = Tail(rest)
    /\ UNCHANGED <<snap, demand, fit, phase, live, verdict>>

(* One round of the loop: the candidate's allocation leaves the copy. *)
Take ==
    /\ phase = "LOOP" /\ rest # <<>>
    /\ ~PlanFits(devs, demand)
    /\ devs' = Displaced(devs, {Head(rest)})
    /\ actions' = actions \cup {Head(rest)}
    /\ rest' = Tail(rest)
    /\ UNCHANGED <<snap, demand, fit, phase, live, verdict>>

(* Bug: whatever the loop has collected is the plan. *)
FinishUnchecked ==
    /\ phase = "LOOP"
    /\ PlanFits(devs, demand) \/ rest = <<>>
    /\ phase' = "PLANNED"
    /\ UNCHANGED <<snap, demand, fit, devs, rest, actions, live, verdict>>

(* The loop breaks or is through; the last test decides. *)
Finish ==
    /\ phase = "LOOP"
    /\ PlanFits(devs, demand) \/ rest = <<>>
    /\ phase' = IF PlanFits(devs, demand) THEN "PLANNED" ELSE "NO_PLAN"
    /\ UNCHANGED <<snap, demand, fit, devs, rest, actions, live, verdict>>

(* An action is carried out: its allocation leaves the device. *)
Pending == {c \in actions : c.src \in DOMAIN live[c.res].allocs}

Execute(c) ==
    /\ phase = "PLANNED"
    /\ c \in Pending
    /\ live' = Displaced(live, {c})
    /\ UNCHANGED <<snap, demand, fit, phase, devs, rest, actions, verdict>>

After == [snap EXCEPT !.devices = live]

VerifyNow ==
    /\ phase = "PLANNED"
    /\ verdict' = VerifyRemediation(snap, After, demand)
    /\ phase' = "VERIFIED"
    /\ UNCHANGED <<snap, demand, fit, devs, rest, actions, live>>

Next ==
    \/ Analyze \/ Plan \/ Take \/ Finish \/ VerifyNow
    \/ \E c \in actions : Execute(c)

Spec == Init /\ [][Next]_avars

-----------------------------------------------------------------------------
(***************************************************************************)
(* Correctness.                                                            *)
(***************************************************************************)
Planned == phase \in {"PLANNED", "VERIFIED"}
Evidence == Complete(snap.gens) /\ snap.prov # "UNKNOWN"

(* The greedy loop of plan_remediation returns a plan exactly when the     *)
(* closed form of Planner says so, with the same actions: the shortest     *)
(* prefix of the candidates, cheapest first, after which the demand fits.  *)
GreedyIsClosedForm ==
    /\ phase = "NO_PLAN" => ~HasPlan(snap.devices, demand)
    /\ phase = "PLANNED" =>
          /\ HasPlan(snap.devices, demand)
          /\ PlannedActions(snap.devices, demand) =
                {[kind |-> KindFor(snap.devices[c.res].allocs[c.src].movability),
                  res |-> c.res, src |-> c.src] : c \in actions}

(* The planner, the executor and the verification agree: a plan whose      *)
(* actions have all been carried out, in whatever order, is verified as    *)
(* TARGET_FIT_ACHIEVED, and no part of a plan touches protected state or   *)
(* opens the accounting.  Only a topology group or a reservation, which    *)
(* plan_remediation does not look at, can keep a complete plan from its    *)
(* target.                                                                 *)
PlanVerifies ==
    phase = "VERIFIED" /\ Evidence =>
        /\ verdict # "VERIFICATION_FAILED"
        /\ /\ Pending = {}
           /\ demand.group = NoGroup
           /\ ReservationGate(snap.reservations, demand) = "FIT_NOW"
           => verdict = "TARGET_FIT_ACHIEVED"

(* analyze_fit and plan_remediation do not contradict each other, on       *)
(* evidence and without a topology group: what fits is not planned for,    *)
(* FIT_AFTER_RECLAIM is a promise the planner keeps, and a plan means      *)
(* FIT_AFTER_RECLAIM or that even the aggregate is short before it.        *)
FitAgrees ==
    Evidence /\ demand.group = NoGroup =>
        /\ phase = "NO_PLAN" => fit # "FIT_AFTER_RECLAIM"
        /\ Planned => fit \in {"FIT_AFTER_RECLAIM", "NO_FIT_RAW_CAPACITY"}

(* What the window search has to find: a start from which no reservation   *)
(* is met for the required time.                                           *)
Undisturbed(start) ==
    \A i \in DOMAIN snap.reservations :
        \/ snap.reservations[i].end <= start
        \/ snap.reservations[i].start >= start + demand.duration

(* The starts of the windows that lie within the horizon. *)
Windows ==
    {s \in 0 .. Horizon : s + demand.duration <= Horizon /\ Undisturbed(s)}

Search == TemporalContinuousFit(snap.reservations, 0, Horizon, demand.duration)

(* temporal_continuous_fit against its definition: whatever the timetable, *)
(* it finds the earliest window within the horizon when there is one, and  *)
(* when there is none it answers so, provided that every reservation ends  *)
(* within the horizon.  Without that proviso it is NoFitIsAnswered.        *)
WindowExact ==
    demand.duration # NoDuration =>
        /\ Windows # {} =>
              /\ Search.result = "FOUND"
              /\ Search.earliest \in Windows
              /\ \A s \in Windows : Search.earliest <= s
        /\ /\ Windows = {}
           /\ \A i \in DOMAIN snap.reservations : snap.reservations[i].end <= Horizon
           => Search.result = "NONE"

(* What fit.hpp:30-32 says of temporal_continuous_fit for any timetable:   *)
(* when there is no "continuous window" in "[horizon_start, horizon_end)"  *)
(* it "Returns false", so it neither names a window past the horizon nor   *)
(* throws.                                                                 *)
NoFitIsAnswered ==
    demand.duration # NoDuration /\ Windows = {} => Search.result = "NONE"

(* Every byte a device reports as used is either protected or reclaimable, *)
(* never both and never neither, at any point of a plan's execution, and   *)
(* carrying out actions leaves the protected bytes as they are.            *)
MetricsAccount ==
    \A r \in DOMAIN live :
        LET m == LayoutMetrics(live[r])
        IN  /\ m.protected + m.reclaimable = m.used
            /\ m.protected = LayoutMetrics(snap.devices[r]).protected
            /\ "OWNERSHIP" \in Categories(m) => m.blocks > 1

(* The metrics of a single device tell the same story as the fit analysis  *)
(* and the verification of it, when the contiguous span a demand asks for  *)
(* is its memory per device: it fits in one view when it fits in the       *)
(* other, the reported opportunity is enough when reclaiming is promised,  *)
(* and the stranded capacity is the one verification compares.             *)
MetricsAgree ==
    \A r \in DOMAIN snap.devices :
        LET alone  == [snap EXCEPT !.devices = [q \in {r} |-> snap.devices[q]],
                                   !.reservations = <<>>]
            one    == [demand EXCEPT !.count = 1, !.group = NoGroup]
            layout == LayoutMetrics(snap.devices[r])
            work   == WorkloadMetrics(snap.devices[r], one)
        IN  phase = "PLAN" /\ Evidence /\ demand.contiguous = demand.perDevice =>
                /\ work.fits <=> AnalyzeFit(alone, one) = "FIT_NOW"
                /\ AnalyzeFit(alone, one) = "FIT_AFTER_RECLAIM" =>
                      /\ layout.largest < one.perDevice
                      /\ layout.largest + work.opportunity >= one.perDevice
                      /\ layout.largest + work.opportunity <= layout.free + layout.reclaimable
                /\ layout.stranded = Stranded(alone.devices)
=============================================================================
