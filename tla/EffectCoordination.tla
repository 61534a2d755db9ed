-------------------------- MODULE EffectCoordination --------------------------
(***************************************************************************)
(* Durable effect coordination: gateway, OT effect coordinator and plant,  *)
(* talking over a network that delays, duplicates and loses, each of them  *)
(* crashing and restarting on its own, every durable write able to fail.   *)
(***************************************************************************)
EXTENDS GatewayPort, OtCoordinator

vars == <<pre, boot, msgs, faults, plantVars, otVars, gwVars>>

Init == BaseInit /\ PlantInit /\ OtInit /\ GwInit

(***************************************************************************)
(* The gateway observes the plant through services pinned to one plant     *)
(* boot.  Nothing is open at the gateway at that time, so no effect can    *)
(* change the plant between the observation and the prepare request        *)
(* (only an open effect is taken: ImplementsEffectOutcome), and the two    *)
(* are one step.                                                           *)
(***************************************************************************)
Execute(e, w) ==
    /\ plantProc = "up"
    /\ gwPins.plant = plantBoot
    /\ GwExecute(e, plant, w)

\* The query in progress has its answer, or the coordinator process that it
\* was sent to will give it one (once a commit in progress releases the lock).
Answerable(e) ==
    \/ \E d \in Dispositions : Msg("answer", e, gwQueries[e], d) \in msgs
    \/ /\ OtHealthy /\ gwCall.peer = otBoot
       /\ otState[e] # "none" /\ OtAttempts(e) < MaxAttempts

PinsCurrent == gwPins = [ot |-> otBoot, plant |-> plantBoot]

GwDiscover ==
    /\ otProc = "up" /\ PlantReachable
    /\ RecoveryUsable(otState, plant)
    /\ GwRestart(otBoot, plantBoot)

GwReconcile(e, w) ==
    \/ GwCloseUncommitted(e, w)
    \/ GwRecoverIntent(e, w)
    \/ GwQuery(e, otBoot, w)

GwWriting(e, w) ==
    \/ Execute(e, w)
    \/ GwRetainReceipt(e, w)
    \/ GwPrepareFails(e, w)
    \/ GwCommit(e, w)
    \/ \E d \in {"applied", "rejected", "unknown"} : GwCommitOutcome(e, d, w)
    \/ GwCommitAmbiguous(e, w)
    \/ GwReconcile(e, w)
    \/ \E d \in Dispositions : GwQueryOutcome(e, d, w)
    \/ GwQueryFails(e, Answerable(e), w)

GwNext ==
    \/ \E e \in Effects : (\E w \in Writes : GwWriting(e, w)) \/ GwQueryExhausted(e)
    \/ GwStop(PinsCurrent)
    \/ GwDiscover

GatewayStep == GwNext /\ UNCHANGED <<plantVars, otVars>>

CoordinatorStep == OtNext /\ UNCHANGED <<pre, boot, plantVars, gwVars>>

PlantStep == PlantNext /\ UNCHANGED <<pre, boot, otVars, gwVars>>

Next == GatewayStep \/ CoordinatorStep \/ PlantStep

Spec == Init /\ [][Next]_vars

-------------------------------------------------------------------------------
(***************************************************************************)
(* Safety.                                                                 *)
(***************************************************************************)
TypeOK == BaseTypeOK /\ PlantTypeOK /\ OtTypeOK /\ GwTypeOK

(***************************************************************************)
(* However requests are delayed or repeated and whoever restarts, an       *)
(* effect changes the plant at most once (CapabilityPlantRuntime.execute). *)
(***************************************************************************)
AppliedAtMostOnce == \A e \in Effects : applications[e] <= 1

(***************************************************************************)
(* CoordinatedWorkloadRemoteVirtualPlcPort: "A commit request is sent at   *)
(* most once", across gateway crashes and failed journal writes too.       *)
(***************************************************************************)
CommitSentAtMostOnce == \A e \in Effects : transmissions[e] <= 1

(***************************************************************************)
(* A definite disposition in either journal is true of the plant: applied  *)
(* means that the plant changed, rejected and not_dispatched that it did   *)
(* not (SignedEffectOutcome, close_not_dispatched).                        *)
(***************************************************************************)
ClaimsAreTrue ==
    \A e \in Effects :
        /\ "applied" \in {gwState[e], otState[e]} => applications[e] = 1
        /\ {gwState[e], otState[e]} \cap {"rejected", "not_dispatched"} # {}
               => applications[e] = 0

(***************************************************************************)
(* The two journals never disagree on a closed effect.  The one difference *)
(* the protocol leaves is an effect the gateway closed without a commit,   *)
(* which the coordinator may not know or may still hold armed.             *)
(***************************************************************************)
JournalsAgree ==
    \A e \in Effects :
        /\ gwState[e] \in {"applied", "rejected"} => otState[e] = gwState[e]
        /\ gwState[e] = "not_dispatched"
               => otState[e] \in {"none", "armed", "not_dispatched"}
        /\ gwState[e] = "unknown" => otState[e] = "unknown"

(***************************************************************************)
(* An effect that the gateway has closed and the coordinator holds armed.  *)
(***************************************************************************)
Orphan(e) == gwState[e] = "not_dispatched" /\ otState[e] = "armed"

(***************************************************************************)
(* validate_coordination_recovery never finds the plant in a state that    *)
(* the journal cannot explain, after any crash of either; and the one way  *)
(* the journal itself becomes unusable is an orphan that a late prepare    *)
(* armed after the plant had moved on.                                     *)
(***************************************************************************)
RecoveryExplained ==
    /\ Reason \notin InconsistentReasons
    /\ Reason \in UnavailableReasons =>
         \E e \in Effects : /\ PendingIn(otState) = {e}
                            /\ Orphan(e)
                            /\ pre[e].version < plant.version

(***************************************************************************)
(* An effect that stays open at the coordinator for good: an orphan, which *)
(* the gateway never queries because it never committed it, or an unknown  *)
(* one, which no query turns into anything else.                           *)
(***************************************************************************)
Blocking(e) == Orphan(e) \/ otState[e] = "unknown"

(***************************************************************************)
(* Such an effect is never resolved, whatever is sent, asked or restarted, *)
(* and no other effect changes the plant while it is there: coordination   *)
(* has stopped until someone repairs the journal by hand.                  *)
(***************************************************************************)
BlockedForGood ==
    [][\A e \in Effects : Blocking(e) =>
          /\ Blocking(e)'
          /\ \A f \in Effects \ {e} : applications'[f] = applications[f]
          /\ Orphan(e) => applications'[e] = applications[e]]_vars

-------------------------------------------------------------------------------
(***************************************************************************)
(* Why the safety properties hold: the strengthening that is inductive.    *)
(***************************************************************************)
\* No apply call for e that was ever sent can still be executed.
Spent(e) ==
    \A m \in msgs : m.type = "apply" /\ m.effect = e =>
        m.n < plantBoot \/ e \in called \/ plantProc = "down"

\* What the existence of a message says about the services.
MessageMeans(m) ==
    /\ m.type \in {"commit", "query"} => gwCommit[m.effect] # "none"
    /\ m.type = "apply" => m.effect \in reserved /\ m.n <= plantBoot
    /\ m.type = "reply" =>
         /\ m.effect \in reserved /\ Spent(m.effect)
         /\ m.d = "applied" => applications[m.effect] = 1
         /\ m.d = "rejected" => applications[m.effect] = 0
    /\ m.type \in {"outcome", "answer"} =>
         m.d \in Dispositions /\ otState[m.effect] = m.d

MessagesMean == \A m \in msgs : MessageMeans(m)

PlantKnowsOf(e) ==
    /\ applications[e] \in {0, 1}
    /\ applications[e] = 1 => e \in reserved /\ Spent(e)

PlantKnows == \A e \in Effects : PlantKnowsOf(e)

CoordinatorKnowsOf(e) ==
    /\ otState[e] \in {"none", "armed", "not_dispatched"} => e \notin reserved
    /\ otState[e] \in {"accepted", "unknown", "applied", "rejected"}
          => gwCommit[e] # "none"
    /\ otState[e] = "applied" => applications[e] = 1
    /\ otState[e] = "rejected" => applications[e] = 0 /\ Spent(e)
    /\ otWork.effect = e => otState[e] = "accepted"
    /\ otWork = Work("accepted", e) => e \notin reserved

CoordinatorKnows ==
    /\ otPlant <= plantBoot
    /\ \A a \in otAnswers : otState[a.effect] = a.d
    /\ \A e \in Effects : CoordinatorKnowsOf(e)

GatewayKnowsOf(e) ==
    /\ transmissions[e] <= 1
    /\ gwCommit[e] = "none" => transmissions[e] = 0
    /\ gwState[e] \in {"none", "received"} => gwCommit[e] = "none"
    /\ gwState[e] \in {"applied", "rejected", "unknown"} => otState[e] = gwState[e]
    /\ gwState[e] = "not_dispatched"
          => gwCommit[e] = "none" \/ otState[e] = "not_dispatched"
    /\ gwCall = Call("prepare", e) => gwState[e] = "received"
    /\ gwCall = Call("commit", e) => gwState[e] = "armed" /\ gwCommit[e] = "retained"
    /\ gwCall = Call("reconcile", e) \/ Querying(e)
          => gwState[e] \in GwOpen /\ gwCommit[e] \in {"unknown", "response"}

GatewayKnows == \A e \in Effects : GatewayKnowsOf(e)

(***************************************************************************)
(* A commit is sent only after its intent is retained, accepted only after *)
(* it is sent, reserved at the PLC before it is dispatched, and the call   *)
(* of a rejected or applied effect can no longer run; a signed response    *)
(* states a coordinator state that is final.                               *)
(***************************************************************************)
Inv == TypeOK /\ MessagesMean /\ PlantKnows /\ CoordinatorKnows /\ GatewayKnows

-------------------------------------------------------------------------------
(***************************************************************************)
(* Liveness.  Calls end (every HTTP call has a timeout), a handler that    *)
(* was entered finishes, and stopped services are started again, as are    *)
(* those whose pinned plant boot is gone.  The agent keeps asking for the  *)
(* reconciliation of an open effect, but only while the coordinator is     *)
(* healthy: otherwise it could use up MAX_ATTEMPTS_PER_EFFECT beforehand.  *)
(***************************************************************************)
AsksOnlyWhenHealthy == \A e \in Effects : gwQueries'[e] # gwQueries[e] => OtReady

LiveNext == Next /\ AsksOnlyWhenHealthy

GwCallEnds(e) ==
    /\ \/ GwRetainReceipt(e, "ok")
       \/ GwPrepareFails(e, "ok")
       \/ gwCall = Call("ready", e) /\ GwCommit(e, "ok")
       \/ \E d \in {"applied", "rejected", "unknown"} : GwCommitOutcome(e, d, "ok")
       \/ GwCommitAmbiguous(e, "ok")
       \/ \E d \in Dispositions : GwQueryOutcome(e, d, "ok")
       \/ GwQueryFails(e, Answerable(e), "ok")
       \/ GwQueryExhausted(e)
    /\ UNCHANGED <<plantVars, otVars>>

AgentReconciles(e) ==
    /\ \/ GwCloseUncommitted(e, "ok")
       \/ GwRecoverIntent(e, "ok")
       \/ OtReady /\ GwQuery(e, otBoot, "ok")
    /\ UNCHANGED <<plantVars, otVars>>

OtHandlerEnds(e) ==
    /\ \/ \E n \in 1..MaxAttempts : OtAnswer(e, n, "ok")
       \/ PlcFail(e, "ok")
       \/ \E d \in {"applied", "rejected", "unknown"} : PlcConclude(e, d, "ok")
    /\ UNCHANGED <<pre, boot, plantVars, gwVars>>

ServicesRestart ==
    \/ PlantRestart /\ UNCHANGED <<pre, boot, otVars, gwVars>>
    \/ /\ OtRestart \/ (otPlant # plantBoot /\ OtStop)
       /\ UNCHANGED <<pre, boot, plantVars, gwVars>>
    \/ GwDiscover /\ UNCHANGED <<plantVars, otVars>>

LiveSpec ==
    /\ Init /\ [][LiveNext]_vars
    /\ \A e \in Effects : /\ WF_vars(GwCallEnds(e))
                          /\ WF_vars(AgentReconciles(e))
                          /\ WF_vars(OtHandlerEnds(e))
    /\ WF_vars(ServicesRestart)

(***************************************************************************)
(* Once faults stop, every effect the gateway began is closed in its       *)
(* journal, or both journals hold it as unknown, or an orphan has made the *)
(* coordinator's recovery unavailable.  MaxAttempts - 2 > MaxFaults leaves *)
(* a query for each fault that can waste one, and one to spare.            *)
(***************************************************************************)
EventuallySettled ==
    \A e \in Effects :
        gwState[e] \in GwOpen ~>
            \/ gwState[e] \in GwClosed
            \/ gwState[e] = "unknown" /\ otState[e] = "unknown"
            \/ Reason \in UnavailableReasons

-------------------------------------------------------------------------------
(***************************************************************************)
(* Refinement: coordination implements EffectOutcome.                      *)
(***************************************************************************)
ClaimOf(e) == IF gwState[e] \in GwOpen THEN "open" ELSE gwState[e]

FateOf(e) ==
    IF applications[e] # 0 THEN "taken"
    ELSE IF gwState[e] = "not_dispatched" \/ otState[e] \in {"rejected", "not_dispatched"}
         THEN "void" ELSE "undecided"

Claim == [e \in Effects |-> ClaimOf(e)]

Fate == [e \in Effects |-> FateOf(e)]

Outcome == INSTANCE EffectOutcome
               WITH claim <- Claim, fate <- Fate, version <- plant.version

(***************************************************************************)
(* One effect at a time is taken at most once, only while the gateway has  *)
(* it open, and is closed with what happened to it.                        *)
(***************************************************************************)
ImplementsEffectOutcome == Outcome!Spec

===============================================================================
