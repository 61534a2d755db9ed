--------------------------- MODULE CheckpointedPlant ---------------------------
(***************************************************************************)
(* CapabilityPlantRuntime with a required checkpoint store: the sole owner *)
(* of the physical state.  The durable checkpoint is replaced before the   *)
(* in-memory state is swapped, and the plant refuses every call while the  *)
(* two differ, so `plant` is the durable state.                            *)
(***************************************************************************)
EXTENDS CoordinationBase

VARIABLES
    plant,        \* the durable physical state
    plantProc,    \* "up", or "down": crashed, or checkpoint store unusable
    plantBoot,    \* boot epoch
    called,       \* call nonces reserved since boot: one apply call per effect
    applications  \* history: how often each effect changed the plant

plantVars == <<plant, plantProc, plantBoot, called, applications>>

PlantTypeOK ==
    /\ plant \in PlantStates
    /\ plantProc \in Processes
    /\ plantBoot \in Nat
    /\ called \subseteq Effects
    /\ applications \in [Effects -> Nat]

PlantInit ==
    /\ plant = [version |-> 0, content |-> Baseline]
    /\ plantProc = "up"
    /\ plantBoot = 0
    /\ called = {}
    /\ applications = [e \in Effects |-> 0]

(***************************************************************************)
(* execute: a call of this boot epoch whose nonce is not reserved yet.  A  *)
(* second delivery of a call with a terminal response returns that         *)
(* response, which is still in msgs; one without is refused.               *)
(***************************************************************************)
AdmitsCall(e) ==
    /\ plantProc = "up"
    /\ Msg("apply", e, plantBoot, "none") \in msgs
    /\ e \notin called

CasHolds(e) == plant = pre[e]

(***************************************************************************)
(* The compare-and-swap on version and digest holds, the candidate is      *)
(* safe, and the checkpoint is replaced ("kept": replaced, but its         *)
(* directory could not be synced).  Only an "ok" write swaps the state in  *)
(* memory and answers.                                                     *)
(***************************************************************************)
\* Faulty variant: a repeated call is executed again, whatever the state.
ApplyUnchecked(e, w) ==
    /\ plantProc = "up"
    /\ Msg("apply", e, plantBoot, "none") \in msgs
    /\ SpendWrite(w)
    /\ plant' = IF Written(w) THEN Post(e) ELSE plant
    /\ applications' = [applications EXCEPT ![e] = @ + (IF Written(w) THEN 1 ELSE 0)]
    /\ plantProc' = ProcAfter(w)
    /\ UNCHANGED <<plantBoot, called, msgs>>

PlantApply(e, w) ==
    /\ AdmitsCall(e)
    /\ CasHolds(e)
    /\ SpendWrite(w)
    /\ plant' = IF Written(w) THEN Post(e) ELSE plant
    /\ applications' = [applications EXCEPT ![e] = @ + (IF Written(w) THEN 1 ELSE 0)]
    /\ called' = IF ProcAfter(w) = "up" THEN called \cup {e} ELSE {}
    /\ plantProc' = ProcAfter(w)
    /\ msgs' = IF w = "ok"
               THEN msgs \cup {Msg("reply", e, plantBoot, "applied")}
               ELSE msgs
    /\ UNCHANGED plantBoot

(***************************************************************************)
(* PhysicalSimulationError: the CAS failed, the power flow did not         *)
(* converge, the post-state is unsafe or differs from the candidate, or    *)
(* the deadline passed.  Signed as a known no-effect.                      *)
(***************************************************************************)
PlantReject(e) ==
    /\ AdmitsCall(e)
    /\ called' = called \cup {e}
    /\ msgs' = msgs \cup {Msg("reply", e, plantBoot, "rejected")}
    /\ UNCHANGED <<plant, plantProc, plantBoot, applications, faults>>

PlantCrash ==
    /\ plantProc = "up"
    /\ Spend(1)
    /\ plantProc' = "down"
    /\ called' = {}
    /\ UNCHANGED <<plant, plantBoot, applications, msgs>>

(***************************************************************************)
(* A restart restores the checkpoint and draws a new boot epoch, which     *)
(* refuses every call signed for an earlier one.                           *)
(***************************************************************************)
PlantRestart ==
    /\ plantProc = "down"
    /\ plantProc' = "up"
    /\ plantBoot' = plantBoot + 1
    /\ UNCHANGED <<plant, called, applications, msgs, faults>>

PlantNext ==
    \/ \E e \in Effects : (\E w \in Writes : PlantApply(e, w)) \/ PlantReject(e)
    \/ PlantCrash
    \/ PlantRestart

===============================================================================
