---------------------------- MODULE Verification ----------------------------
(***************************************************************************)
(* verify_remediation of src/verification/verification.cpp.                *)
(***************************************************************************)
EXTENDS Fit

VerificationOutcomes ==
    {"IMPROVED", "TARGET_FIT_ACHIEVED", "PARTIAL_IMPROVEMENT", "NO_CHANGE",
     "REGRESSION", "VERIFICATION_FAILED", "REVALIDATION_REQUIRED"}

LargestOf(devs) == Max({0} \cup {Largest(devs[r]) : r \in DOMAIN devs})

(* Aggregate free bytes outside the single largest free block. *)
Stranded(devs) ==
    IF AggregateFree(devs) > LargestOf(devs) THEN AggregateFree(devs) - LargestOf(devs)
    ELSE 0

(* used + free = total; used_capacity() itself is total - free, so the     *)
(* clause can only fail by free exceeding total.                           *)
AccountingClosed(devs) == \A r \in DOMAIN devs : Free(devs[r]) <= devs[r].cap

(* Bug: the policy generation is not compared. *)
CurrentGenerationsAnyPolicy(before, after) ==
    Complete(after.gens) /\ after.epoch = before.epoch

CurrentGenerations(before, after) ==
    /\ Complete(after.gens)
    /\ after.epoch = before.epoch
    /\ after.policyGen = before.policyGen

(* Every protected allocation of the before-state is still registered on   *)
(* some device.                                                            *)
ProtectedIntact(before, after) ==
    \A r \in DOMAIN before.devices : \A i \in DOMAIN before.devices[r].allocs :
        Protected(before.devices[r].allocs[i]) =>
            \E q \in DOMAIN after.devices : i \in DOMAIN after.devices[q].allocs

(* The hierarchy of outcomes.  Both states are analysed first, and what    *)
(* analyze_fit throws escapes from verify_remediation too.                 *)
VerifyRemediation(before, after, demand) ==
    LET beforeFit == AnalyzeFit(before, demand)
        afterFit  == AnalyzeFit(after, demand)
        gain      == Stranded(before.devices) - Stranded(after.devices)
    IN  IF beforeFit = "THROWS" \/ afterFit = "THROWS" THEN "THROWS"
        ELSE IF \/ ~AccountingClosed(before.devices)
                \/ ~AccountingClosed(after.devices)
                \/ ~CurrentGenerations(before, after)
                \/ ~ProtectedIntact(before, after)
        THEN "VERIFICATION_FAILED"
        ELSE IF afterFit = "FIT_NOW"
        THEN IF beforeFit = "FIT_NOW" THEN "IMPROVED" ELSE "TARGET_FIT_ACHIEVED"
        ELSE IF gain > 0 THEN "PARTIAL_IMPROVEMENT"
        ELSE IF gain < 0 THEN "REGRESSION"
        ELSE IF LargestOf(before.devices) = LargestOf(after.devices) THEN "NO_CHANGE"
        ELSE "REVALIDATION_REQUIRED"
=============================================================================
