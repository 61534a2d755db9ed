----------------------------- MODULE OtCoordinator -----------------------------
(***************************************************************************)
(* The OT effect coordinator (coordinated CapabilityOtRuntime): the        *)
(* durable journal, the live commit marker, and the virtual PLC it hands   *)
(* an accepted commit to.  Its handlers run under one lock; otWork is the  *)
(* commit being executed inside commit_effect, which holds that lock.      *)
(***************************************************************************)
EXTENDS CheckpointedPlant

VARIABLES
    otState,    \* durable: coordination state of each effect, "none" if unrecorded
    otAnswers,  \* durable: the retained (query, outcome) pairs
    reserved,   \* durable: the PLC's semantic replay ledger
    otProc,     \* "up", or "down": crashed, or journal unusable
    otBoot,     \* boot epoch, drawn anew by every start
    otPlant,    \* the plant boot epoch pinned at start
    marker,     \* _live_commit_marker: the one effect this boot may commit
    otWork      \* [step, effect]: how far commit_effect has come

otVars == <<otState, otAnswers, reserved, otProc, otBoot, otPlant, marker, otWork>>

OtStates == {"none"} \cup PendingStates \cup TerminalStates

NoWork == [step |-> "idle", effect |-> NoEffect]

Work(step, e) == [step |-> step, effect |-> e]

OtTypeOK ==
    /\ otState \in [Effects -> OtStates]
    /\ otAnswers \subseteq [effect : Effects, n : Nat, d : Dispositions]
    /\ reserved \subseteq Effects
    /\ otProc \in Processes
    /\ otBoot \in Nat
    /\ otPlant \in Nat
    /\ marker \in Effects \cup {NoEffect}
    /\ otWork \in {NoWork} \cup [step : {"accepted", "applying"}, effect : Effects]

OtInit ==
    /\ otState = [e \in Effects |-> "none"]
    /\ otAnswers = {}
    /\ reserved = {}
    /\ otProc = "up"
    /\ otBoot = 0
    /\ otPlant = 0
    /\ marker = NoEffect
    /\ otWork = NoWork

-------------------------------------------------------------------------------
(***************************************************************************)
(* _refresh_coordination_recovery_locked, called first by every handler:   *)
(* the plant must answer under its pinned identity, and the marker lives   *)
(* only while its effect is the pending one and the plant at its pre-state.*)
(***************************************************************************)
PlantReachable == plantProc = "up" /\ otPlant = plantBoot

Reason == RecoveryReason(otState, plant)

CommitReadyFor(e) ==
    /\ Reason = "pending_effect_at_pre_state"
    /\ PendingIn(otState) = {e}
    /\ marker = e

MarkerAfterRefresh ==
    IF \E e \in Effects : CommitReadyFor(e) THEN marker ELSE NoEffect

OtHealthy ==
    /\ otProc = "up"
    /\ PlantReachable
    /\ RecoveryUsable(otState, plant)

OtReady == OtHealthy /\ otWork = NoWork

(***************************************************************************)
(* _require_coordination_alignment_locked for a prepare or a commit of e.  *)
(***************************************************************************)
\* Faulty variant: recovery only has to be usable, a pending effect may be there.
AlignmentUnchecked(e) == TRUE

AlignmentAdmits(e) == Reason \in AlignedReasons \/ CommitReadyFor(e)

(***************************************************************************)
(* health, and every handler that fails after its refresh: the marker is   *)
(* all that such a call can change.                                        *)
(***************************************************************************)
OtRefresh ==
    /\ otProc = "up" /\ otWork = NoWork /\ PlantReachable
    /\ marker # MarkerAfterRefresh
    /\ marker' = MarkerAfterRefresh
    /\ UNCHANGED <<otState, otAnswers, reserved, otProc, otBoot, otPlant, otWork,
                   msgs, faults>>

(***************************************************************************)
(* prepare_effect of an unrecorded effect: the record and its receipt are  *)
(* one write, the marker is set after it.  The permit must name this boot. *)
(* Alignment is checked before the record exists: e's own pre-state is not *)
(* compared with the plant.                                                *)
(***************************************************************************)
PrepareAdmitted(e) ==
    /\ OtReady
    /\ Msg("prepare", e, 0, "none") \in msgs
    /\ boot[e] = otBoot
    /\ AlignmentAdmits(e)

OtPrepare(e, w) ==
    /\ PrepareAdmitted(e)
    /\ otState[e] = "none"
    /\ SpendWrite(w)
    /\ otState' = IF Written(w) THEN [otState EXCEPT ![e] = "armed"] ELSE otState
    /\ otProc' = ProcAfter(w)
    /\ marker' = IF w = "ok" THEN e ELSE NoEffect
    /\ msgs' = IF w = "ok" THEN msgs \cup {Msg("receipt", e, 0, "none")} ELSE msgs
    /\ UNCHANGED <<otAnswers, reserved, otBoot, otPlant, otWork>>

(***************************************************************************)
(* prepare_effect of a retained request returns the retained receipt.      *)
(***************************************************************************)
OtRepeatPrepare(e) ==
    /\ PrepareAdmitted(e)
    /\ otState[e] # "none"
    /\ marker' = MarkerAfterRefresh
    /\ msgs' = msgs \cup {Msg("receipt", e, 0, "none")}
    /\ UNCHANGED <<otState, otAnswers, reserved, otProc, otBoot, otPlant, otWork,
                   faults>>

(***************************************************************************)
(* commit_effect: admission.  Only the armed effect of the live marker is  *)
(* accepted, once, and the acceptance is durable before the PLC runs.      *)
(* A write that is refused also drops the marker.                          *)
(***************************************************************************)
CommitAdmitted(e) ==
    /\ OtReady
    /\ Msg("commit", e, 0, "none") \in msgs
    /\ boot[e] = otBoot
    /\ AlignmentAdmits(e)

OtAccept(e, w) ==
    /\ CommitAdmitted(e)
    /\ otState[e] = "armed"
    /\ SpendWrite(w)
    /\ otState' = IF Written(w) THEN [otState EXCEPT ![e] = "accepted"] ELSE otState
    /\ otWork' = IF w = "ok" THEN Work("accepted", e) ELSE NoWork
    /\ otProc' = ProcAfter(w)
    /\ marker' = NoEffect
    /\ UNCHANGED <<otAnswers, reserved, otBoot, otPlant, msgs>>

(***************************************************************************)
(* A repeated commit of an effect with a terminal outcome gets that        *)
(* outcome again and reaches no device.                                    *)
(***************************************************************************)
OtRepeatCommit(e) ==
    /\ CommitAdmitted(e)
    /\ otState[e] \in {"applied", "rejected"}
    /\ marker' = NoEffect
    /\ msgs' = msgs \cup {Msg("outcome", e, 0, otState[e])}
    /\ UNCHANGED <<otState, otAnswers, reserved, otProc, otBoot, otPlant, otWork,
                   faults>>

(***************************************************************************)
(* VirtualPlc._execute_locked up to the dispatch: the permit is reserved   *)
(* in the replay ledger, then the CAS call goes to the pinned plant.       *)
(***************************************************************************)
PlcDispatch(e) ==
    /\ otProc = "up"
    /\ otWork = Work("accepted", e)
    /\ PlantReachable
    /\ plant = pre[e]
    /\ e \notin reserved
    /\ reserved' = reserved \cup {e}
    /\ otWork' = Work("applying", e)
    /\ msgs' = msgs \cup {Msg("apply", e, otPlant, "none")}
    /\ UNCHANGED <<otState, otAnswers, otProc, otBoot, otPlant, marker, faults>>

(***************************************************************************)
(* The end of commit_effect with disposition d: the outcome is retained,   *)
(* then a definite one is exposed only if the recovery refresh succeeds.   *)
(***************************************************************************)
FinishCommit(e, d, w) ==
    /\ SpendWrite(w)
    /\ otState' = IF Written(w) THEN [otState EXCEPT ![e] = d] ELSE otState
    /\ otWork' = NoWork
    /\ otProc' = ProcAfter(w)
    /\ msgs' = IF w = "ok" /\ (d = "unknown" \/
                               (PlantReachable /\ RecoveryUsable(otState', plant)))
               THEN msgs \cup {Msg("outcome", e, 0, d)}
               ELSE msgs
    /\ UNCHANGED <<otAnswers, otBoot, otPlant, marker>>

(***************************************************************************)
(* A PLC check failed, or the permit expired, before or after the replay   *)
(* reservation: REJECTED, and the plant was never called.                  *)
(***************************************************************************)
PlcRefuse(e, w) ==
    /\ otProc = "up"
    /\ otWork = Work("accepted", e)
    /\ PlantReachable
    /\ reserved' \in {reserved, reserved \cup {e}}
    /\ FinishCommit(e, "rejected", w)

(***************************************************************************)
(* The device raised before dispatch: plant unreachable, or the replay     *)
(* ledger failed (its file may hold the reservation or not).               *)
(***************************************************************************)
PlcFail(e, w) ==
    /\ otProc = "up"
    /\ otWork = Work("accepted", e)
    /\ reserved' \in {reserved, reserved \cup {e}}
    /\ FinishCommit(e, "unknown", w)

(***************************************************************************)
(* What the PLC may conclude of an apply call: what the plant signed, or,  *)
(* with no usable answer, that the effect is unknown.                      *)
(***************************************************************************)
\* Faulty variant: a call without an answer counts as rejected.
TimeoutIsRejection(e, d) ==
    \/ d = "rejected"
    \/ d \in {"applied", "unknown"} /\ Msg("reply", e, otPlant, d) \in msgs

PlcConclusion(e, d) ==
    \/ d = "unknown"
    \/ d \in {"applied", "rejected"} /\ Msg("reply", e, otPlant, d) \in msgs

PlcConclude(e, d, w) ==
    /\ otProc = "up"
    /\ otWork = Work("applying", e)
    /\ PlcConclusion(e, d)
    /\ FinishCommit(e, d, w)
    /\ UNCHANGED reserved

-------------------------------------------------------------------------------
(***************************************************************************)
(* query_effect.  An effect without an accepted commit is answered         *)
(* not_dispatched, and that answer is a durable tombstone; an accepted one *)
(* with no outcome is unknown; a terminal one is answered as it is.        *)
(***************************************************************************)
AnswerFor(e) ==
    CASE otState[e] \in {"armed", "not_dispatched"} -> "not_dispatched"
      [] otState[e] \in {"accepted", "unknown"}     -> "unknown"
      [] otState[e] \in {"applied", "rejected"}     -> otState[e]

\* Faulty variant: the answer is given and the record left as it was.
AnswerWithoutTombstone(e) == otState[e]

StateAfterAnswer(e) == AnswerFor(e)

\* Faulty variant: a query must name the current boot, as a commit must.
QueryOfThisBoot(e, n) ==
    /\ OtReady
    /\ Msg("query", e, n, "none") \in msgs
    /\ otState[e] # "none"
    /\ boot[e] = otBoot

QueryAdmitted(e, n) ==
    /\ OtReady
    /\ Msg("query", e, n, "none") \in msgs
    /\ otState[e] # "none"

RetainedAnswers(e) == {a \in otAnswers : a.effect = e}

(***************************************************************************)
(* The attempts of a record: its prepare, its commit if any, its queries.  *)
(***************************************************************************)
OtAttempts(e) ==
    1 + Cardinality(RetainedAnswers(e))
      + (IF otState[e] \in {"accepted", "unknown", "applied", "rejected"} THEN 1 ELSE 0)

OtAnswer(e, n, w) ==
    LET d == AnswerFor(e)
        after == [otState EXCEPT ![e] = StateAfterAnswer(e)]
    IN  /\ QueryAdmitted(e, n)
        /\ \A a \in RetainedAnswers(e) : a.n # n
        /\ OtAttempts(e) < MaxAttempts
        /\ SpendWrite(w)
        /\ otState' = IF Written(w) THEN after ELSE otState
        /\ otAnswers' = IF Written(w)
                        THEN otAnswers \cup {[effect |-> e, n |-> n, d |-> d]}
                        ELSE otAnswers
        /\ otProc' = ProcAfter(w)
        /\ marker' = IF ProcAfter(w) = "down" \/ (w = "ok" /\ marker = e /\ d # "unknown")
                     THEN NoEffect ELSE MarkerAfterRefresh
        /\ msgs' = IF w = "ok" /\ RecoveryUsable(after, plant)
                   THEN msgs \cup {Msg("answer", e, n, d)} ELSE msgs
        /\ UNCHANGED <<reserved, otBoot, otPlant, otWork>>

(***************************************************************************)
(* A query delivered again gets the answer retained for it.                *)
(***************************************************************************)
OtRepeatAnswer(e, n) ==
    /\ QueryAdmitted(e, n)
    /\ \E a \in RetainedAnswers(e) :
         /\ a.n = n
         /\ msgs' = msgs \cup {Msg("answer", e, n, a.d)}
    /\ marker' = MarkerAfterRefresh
    /\ UNCHANGED <<otState, otAnswers, reserved, otProc, otBoot, otPlant, otWork,
                   faults>>

-------------------------------------------------------------------------------
(***************************************************************************)
(* Any crash costs a fault; a coordinator pinned to a plant boot that is   *)
(* gone can do nothing but be stopped, which costs none.                   *)
(***************************************************************************)
OtStop ==
    /\ otProc = "up"
    /\ Spend(IF otPlant = plantBoot THEN 1 ELSE 0)
    /\ otProc' = "down"
    /\ marker' = NoEffect
    /\ otWork' = NoWork
    /\ UNCHANGED <<otState, otAnswers, reserved, otBoot, otPlant, msgs>>

(***************************************************************************)
(* The constructor pins the plant's current boot and refuses to start when *)
(* the journal and the plant cannot be reconciled.                         *)
(***************************************************************************)
OtRestart ==
    /\ otProc = "down"
    /\ plantProc = "up"
    /\ RecoveryUsable(otState, plant)
    /\ otProc' = "up"
    /\ otBoot' = otBoot + 1
    /\ otPlant' = plantBoot
    /\ UNCHANGED <<otState, otAnswers, reserved, marker, otWork, msgs, faults>>

OtWriting(e, w) ==
    \/ OtPrepare(e, w)
    \/ OtAccept(e, w)
    \/ PlcRefuse(e, w)
    \/ PlcFail(e, w)
    \/ \E d \in {"applied", "rejected", "unknown"} : PlcConclude(e, d, w)
    \/ \E n \in 1..MaxAttempts : OtAnswer(e, n, w)

OtNext ==
    \/ \E e \in Effects :
         \/ \E w \in Writes : OtWriting(e, w)
         \/ OtRepeatPrepare(e)
         \/ OtRepeatCommit(e)
         \/ PlcDispatch(e)
         \/ \E n \in 1..MaxAttempts : OtRepeatAnswer(e, n)
    \/ OtRefresh
    \/ OtStop
    \/ OtRestart

===============================================================================
