------------------------ MODULE EffectCoordinationProofs ------------------------
(***************************************************************************)
(* Proofs about EffectCoordination, for any set of effects, any number of  *)
(* faults and any attempt limit: its types, the inductive invariant and    *)
(* the safety properties that follow from it, and the refinement.          *)
(***************************************************************************)
EXTENDS EffectCoordination, TLAPS

(***************************************************************************)
(* Every message an action sends is one of Messages.                       *)
(***************************************************************************)
LEMMA MessageType ==
    ASSUME NEW t \in MessageTypes, NEW e \in Effects, NEW n \in Nat,
           NEW d \in Dispositions \cup {"none"}
    PROVE  Msg(t, e, n, d) \in Messages
BY DEF Msg, Messages

(***************************************************************************)
(* The post-state of an effect is a plant state.                           *)
(***************************************************************************)
LEMMA PostType ==
    ASSUME pre \in [Effects -> PlantStates], NEW e \in Effects
    PROVE  Post(e) \in PlantStates
BY EffectAssumption DEF Post, PlantStates

(***************************************************************************)
(* Spending on faults keeps their count within the bound.                  *)
(***************************************************************************)
LEMMA SpendType ==
    ASSUME faults \in 0..MaxFaults, NEW n \in Nat, Spend(n)
    PROVE  faults' \in 0..MaxFaults
BY BoundAssumption DEF Spend

LEMMA SpendWriteType ==
    ASSUME faults \in 0..MaxFaults, NEW w \in Writes, SpendWrite(w)
    PROVE  faults' \in 0..MaxFaults
BY SpendType DEF SpendWrite

LEMMA InitType == Init => TypeOK
<1>1. BaseInit => BaseTypeOK
  BY BoundAssumption DEF BaseInit, BaseTypeOK, PlantStates
<1>2. PlantInit => PlantTypeOK
  BY DEF PlantInit, PlantTypeOK, PlantStates, Processes
<1>3. OtInit => OtTypeOK
  BY DEF OtInit, OtTypeOK, OtStates, Processes
<1>4. GwInit => GwTypeOK
  BY DEF GwInit, GwTypeOK, Processes, CommitStatuses
<1>5. QED
  BY <1>1, <1>2, <1>3, <1>4 DEF Init, TypeOK

LEMMA PlantStepType ==
    ASSUME TypeOK, PlantStep
    PROVE  TypeOK'
<1> USE DEF TypeOK
<1>1. OtTypeOK' /\ GwTypeOK' /\ UNCHANGED <<pre, boot>>
  BY DEF PlantStep, OtTypeOK, GwTypeOK, otVars, gwVars
<1>2. PlantTypeOK' /\ msgs' \subseteq Messages /\ faults' \in 0..MaxFaults
  <2>1. ASSUME NEW e \in Effects, NEW w \in Writes, PlantApply(e, w)
        PROVE  PlantTypeOK' /\ msgs' \subseteq Messages /\ faults' \in 0..MaxFaults
    <3>1. Post(e) \in PlantStates
      BY PostType DEF BaseTypeOK
    <3>2. Msg("reply", e, plantBoot, "applied") \in Messages
      BY MessageType DEF PlantTypeOK, MessageTypes, Dispositions
    <3>3. faults' \in 0..MaxFaults
      BY <2>1, SpendWriteType DEF PlantApply, BaseTypeOK
    <3>4. QED
      BY <2>1, <3>1, <3>2, <3>3
         DEF PlantApply, PlantTypeOK, BaseTypeOK, ProcAfter, Processes
  <2>2. ASSUME NEW e \in Effects, PlantReject(e)
        PROVE  PlantTypeOK' /\ msgs' \subseteq Messages /\ faults' \in 0..MaxFaults
    <3>1. Msg("reply", e, plantBoot, "rejected") \in Messages
      BY MessageType DEF PlantTypeOK, MessageTypes, Dispositions
    <3>2. QED
      BY <2>2, <3>1 DEF PlantReject, PlantTypeOK, BaseTypeOK
  <2>3. CASE PlantCrash
    BY <2>3, SpendType DEF PlantCrash, PlantTypeOK, BaseTypeOK, Processes
  <2>4. CASE PlantRestart
    BY <2>4 DEF PlantRestart, PlantTypeOK, BaseTypeOK, Processes
  <2>5. QED
    BY <2>1, <2>2, <2>3, <2>4 DEF PlantStep, PlantNext
<1>3. QED
  BY <1>1, <1>2 DEF BaseTypeOK

(***************************************************************************)
(* A store of the gateway journal keeps its records well-formed.           *)
(***************************************************************************)
LEMMA StoreType ==
    ASSUME GwTypeOK, faults \in 0..MaxFaults, NEW e \in Effects, NEW w \in Writes,
           NEW state \in {"none"} \cup GwOpen \cup GwClosed,
           NEW commit \in CommitStatuses,
           Store(e, state, commit, w)
    PROVE  /\ gwState' \in [Effects -> {"none"} \cup GwOpen \cup GwClosed]
           /\ gwCommit' \in [Effects -> CommitStatuses]
           /\ gwProc' \in Processes
           /\ faults' \in 0..MaxFaults
<1>1. faults' \in 0..MaxFaults
  BY SpendWriteType DEF Store
<1>2. QED
  BY <1>1 DEF Store, GwTypeOK, ProcAfter, Processes

LEMMA GatewayStepType ==
    ASSUME TypeOK, GatewayStep
    PROVE  TypeOK'
<1> USE DEF TypeOK
<1> DEFINE Typed == GwTypeOK /\ BaseTypeOK
<1>1. PlantTypeOK' /\ OtTypeOK'
  BY DEF GatewayStep, OtTypeOK, PlantTypeOK, otVars, plantVars
<1>2. ASSUME NEW e \in Effects, NEW w \in Writes, Execute(e, w)
      PROVE  Typed'
  <2>1. Store(e, "received", "none", w)
    BY <1>2 DEF Execute, GwExecute
  <2>2. Msg("prepare", e, 0, "none") \in Messages
    BY MessageType DEF MessageTypes
  <2>3. /\ gwState' \in [Effects -> {"none"} \cup GwOpen \cup GwClosed]
        /\ gwCommit' \in [Effects -> CommitStatuses]
        /\ gwProc' \in Processes
        /\ faults' \in 0..MaxFaults
    BY <2>1, StoreType DEF BaseTypeOK, GwOpen, CommitStatuses
  <2>4. gwCall' \in {NoCall} \cup [op : CallOps, effect : Effects, peer : Nat]
    BY <1>2 DEF Execute, GwExecute, Call, CallOps
  <2>5. QED
    BY <1>2, <2>2, <2>3, <2>4
       DEF Execute, GwExecute, GwTypeOK, BaseTypeOK, PlantTypeOK
<1>3. ASSUME NEW e \in Effects, NEW w \in Writes,
             GwRetainReceipt(e, w) \/ GwPrepareFails(e, w)
      PROVE  Typed'
  <2>1. Store(e, "armed", "none", w) \/ Store(e, "not_dispatched", "none", w)
    BY <1>3 DEF GwRetainReceipt, GwPrepareFails
  <2>2. /\ gwState' \in [Effects -> {"none"} \cup GwOpen \cup GwClosed]
        /\ gwCommit' \in [Effects -> CommitStatuses]
        /\ gwProc' \in Processes
        /\ faults' \in 0..MaxFaults
    BY <2>1, StoreType DEF BaseTypeOK, GwOpen, GwClosed, CommitStatuses
  <2>3. gwCall' \in {NoCall} \cup [op : CallOps, effect : Effects, peer : Nat]
    BY <1>3 DEF GwRetainReceipt, GwPrepareFails, CallAfter, Call, CallOps
  <2>4. QED
    BY <1>3, <2>2, <2>3
       DEF GwRetainReceipt, GwPrepareFails, GwTypeOK, BaseTypeOK
<1>4. ASSUME NEW e \in Effects, NEW w \in Writes, GwCommit(e, w)
      PROVE  Typed'
  <2>1. Store(e, "armed", "retained", w)
    BY <1>4 DEF GwCommit
  <2>2. Msg("commit", e, 0, "none") \in Messages
    BY MessageType DEF MessageTypes
  <2>3. /\ gwState' \in [Effects -> {"none"} \cup GwOpen \cup GwClosed]
        /\ gwCommit' \in [Effects -> CommitStatuses]
        /\ gwProc' \in Processes
        /\ faults' \in 0..MaxFaults
    BY <2>1, StoreType DEF BaseTypeOK, GwOpen, CommitStatuses
  <2>4. gwCall' \in {NoCall} \cup [op : CallOps, effect : Effects, peer : Nat]
    BY <1>4 DEF GwCommit, Call, CallOps
  <2>5. transmissions' \in [Effects -> Nat]
    BY <1>4 DEF GwCommit, GwTypeOK
  <2>6. BaseTypeOK'
    BY <1>4, <2>2, <2>3 DEF GwCommit, BaseTypeOK
  <2>7. QED
    BY <1>4, <2>3, <2>4, <2>5, <2>6 DEF GwCommit, GwTypeOK
<1>5. ASSUME NEW e \in Effects, NEW w \in Writes, NEW d \in Dispositions,
             GwCommitOutcome(e, d, w) \/ GwQueryOutcome(e, d, w)
      PROVE  Typed'
  <2>1. Store(e, d, "response", w) \/ Store(e, d, gwCommit[e], w)
    BY <1>5 DEF GwCommitOutcome, GwQueryOutcome
  <2>2. /\ gwState' \in [Effects -> {"none"} \cup GwOpen \cup GwClosed]
        /\ gwCommit' \in [Effects -> CommitStatuses]
        /\ gwProc' \in Processes
        /\ faults' \in 0..MaxFaults
    <3>1. d \in {"none"} \cup GwOpen \cup GwClosed /\ "response" \in CommitStatuses
      BY DEF GwOpen, GwClosed, CommitStatuses, Dispositions
    <3>2. gwCommit[e] \in CommitStatuses /\ faults \in 0..MaxFaults
      BY DEF GwTypeOK, BaseTypeOK
    <3>3. QED
      BY <2>1, <3>1, <3>2, StoreType
  <2>3. QED
    BY <1>5, <2>2 DEF GwCommitOutcome, GwQueryOutcome, GwTypeOK, BaseTypeOK
<1>6. ASSUME NEW e \in Effects, NEW w \in Writes,
             \/ GwCommitAmbiguous(e, w)
             \/ GwCloseUncommitted(e, w)
             \/ GwRecoverIntent(e, w)
      PROVE  Typed'
  <2>1. \/ Store(e, gwState[e], "unknown", w)
        \/ Store(e, "not_dispatched", gwCommit[e], w)
    BY <1>6 DEF GwCommitAmbiguous, GwCloseUncommitted, GwRecoverIntent, StateIfAmbiguous
  <2>2. /\ gwState' \in [Effects -> {"none"} \cup GwOpen \cup GwClosed]
        /\ gwCommit' \in [Effects -> CommitStatuses]
        /\ gwProc' \in Processes
        /\ faults' \in 0..MaxFaults
    <3>1. /\ gwState[e] \in {"none"} \cup GwOpen \cup GwClosed
          /\ gwCommit[e] \in CommitStatuses
          /\ faults \in 0..MaxFaults
      BY DEF GwTypeOK, BaseTypeOK
    <3>2. /\ "not_dispatched" \in {"none"} \cup GwOpen \cup GwClosed
          /\ "unknown" \in CommitStatuses
      BY DEF GwClosed, CommitStatuses
    <3>3. QED
      BY <2>1, <3>1, <3>2, StoreType
  <2>3. gwCall' \in {NoCall} \cup [op : CallOps, effect : Effects, peer : Nat]
    BY <1>6 DEF GwCommitAmbiguous, GwCloseUncommitted, GwRecoverIntent, GwTypeOK,
                Call, CallOps
  <2>4. QED
    BY <1>6, <2>2, <2>3
       DEF GwCommitAmbiguous, GwCloseUncommitted, GwRecoverIntent, GwTypeOK, BaseTypeOK
<1>7. ASSUME NEW e \in Effects, NEW w \in Writes, GwQuery(e, otBoot, w)
      PROVE  Typed'
  <2>1. Msg("query", e, gwQueries[e] + 1, "none") \in Messages
    BY MessageType DEF MessageTypes, GwTypeOK
  <2>2. faults' \in 0..MaxFaults
    BY <1>7, SpendWriteType DEF GwQuery, BaseTypeOK
  <2>3. gwCall' \in {NoCall} \cup [op : CallOps, effect : Effects, peer : Nat]
    BY <1>7 DEF GwQuery, QueryCall, CallOps, OtTypeOK
  <2>4. QED
    BY <1>7, <2>1, <2>2, <2>3 DEF GwQuery, GwTypeOK, BaseTypeOK, ProcAfter, Processes
<1>8. ASSUME NEW e \in Effects, NEW w \in Writes,
             GwQueryFails(e, Answerable(e), w) \/ GwQueryExhausted(e)
      PROVE  Typed'
  <2>1. faults' \in 0..MaxFaults
    BY <1>8, SpendType DEF GwQueryFails, GwQueryExhausted, BaseTypeOK
  <2>2. QED
    BY <1>8, <2>1
       DEF GwQueryFails, GwQueryExhausted, GwTypeOK, BaseTypeOK, ProcAfter, Processes
<1>9. ASSUME GwStop(PinsCurrent) \/ GwDiscover
      PROVE  Typed'
  <2>1. faults' \in 0..MaxFaults
    BY <1>9, SpendType DEF GwStop, GwDiscover, GwRestart, BaseTypeOK
  <2>2. QED
    BY <1>9, <2>1
       DEF GwStop, GwDiscover, GwRestart, GwTypeOK, BaseTypeOK, OtTypeOK, PlantTypeOK,
           Processes
<1>10. ASSUME NEW e \in Effects, NEW w \in Writes, GwWriting(e, w)
       PROVE  Typed'
  <2>1. {"applied", "rejected", "unknown"} \subseteq Dispositions
    BY DEF Dispositions
  <2>2. QED
    BY <1>2, <1>3, <1>4, <1>5, <1>6, <1>7, <1>8, <1>10, <2>1 DEF GwWriting, GwReconcile
<1>11. "ok" \in Writes
  BY DEF Writes
<1>12. Typed'
  BY <1>8, <1>9, <1>10, <1>11 DEF GatewayStep, GwNext
<1>13. QED
  BY <1>1, <1>12

(***************************************************************************)
(* The marker a refresh leaves is the old one or none.                     *)
(***************************************************************************)
LEMMA MarkerType ==
    ASSUME marker \in Effects \cup {NoEffect}
    PROVE  MarkerAfterRefresh \in Effects \cup {NoEffect}
BY DEF MarkerAfterRefresh

(***************************************************************************)
(* The end of commit_effect keeps the journal well-formed.                 *)
(***************************************************************************)
LEMMA FinishCommitType ==
    ASSUME TypeOK, NEW e \in Effects, NEW w \in Writes,
           NEW d \in {"applied", "rejected", "unknown"},
           FinishCommit(e, d, w)
    PROVE  /\ otState' \in [Effects -> OtStates]
           /\ otWork' = NoWork
           /\ otProc' \in Processes
           /\ msgs' \subseteq Messages
           /\ faults' \in 0..MaxFaults
           /\ UNCHANGED <<otAnswers, otBoot, otPlant, marker>>
<1> USE DEF TypeOK
<1>1. Msg("outcome", e, 0, d) \in Messages
  BY MessageType DEF MessageTypes, Dispositions
<1>2. faults' \in 0..MaxFaults
  BY SpendWriteType DEF FinishCommit, BaseTypeOK
<1>3. d \in OtStates
  BY DEF OtStates, PendingStates, TerminalStates
<1>4. QED
  BY <1>1, <1>2, <1>3 DEF FinishCommit, OtTypeOK, BaseTypeOK, ProcAfter, Processes

LEMMA CoordinatorStepType ==
    ASSUME TypeOK, CoordinatorStep
    PROVE  TypeOK'
<1> USE DEF TypeOK
<1> DEFINE Typed == OtTypeOK /\ msgs \subseteq Messages /\ faults \in 0..MaxFaults
<1>1. PlantTypeOK' /\ GwTypeOK' /\ UNCHANGED <<pre, boot>>
  BY DEF CoordinatorStep, GwTypeOK, PlantTypeOK, gwVars, plantVars
<1>2. MarkerAfterRefresh \in Effects \cup {NoEffect}
  BY MarkerType DEF OtTypeOK
<1>3. ASSUME NEW e \in Effects, NEW w \in Writes, OtPrepare(e, w)
      PROVE  Typed'
  <2>1. Msg("receipt", e, 0, "none") \in Messages
    BY MessageType DEF MessageTypes
  <2>2. faults' \in 0..MaxFaults
    BY <1>3, SpendWriteType DEF OtPrepare, BaseTypeOK
  <2>3. QED
    BY <1>3, <2>1, <2>2
       DEF OtPrepare, OtTypeOK, BaseTypeOK, OtStates, PendingStates, ProcAfter, Processes
<1>4. ASSUME NEW e \in Effects, OtRepeatPrepare(e)
      PROVE  Typed'
  <2>1. Msg("receipt", e, 0, "none") \in Messages
    BY MessageType DEF MessageTypes
  <2>2. QED
    BY <1>2, <1>4, <2>1 DEF OtRepeatPrepare, OtTypeOK, BaseTypeOK
<1>5. ASSUME NEW e \in Effects, NEW w \in Writes, OtAccept(e, w)
      PROVE  Typed'
  <2>1. faults' \in 0..MaxFaults
    BY <1>5, SpendWriteType DEF OtAccept, BaseTypeOK
  <2>2. QED
    BY <1>5, <2>1
       DEF OtAccept, OtTypeOK, BaseTypeOK, OtStates, PendingStates, ProcAfter, Processes,
           Work
<1>6. ASSUME NEW e \in Effects, OtRepeatCommit(e)
      PROVE  Typed'
  <2>1. Msg("outcome", e, 0, otState[e]) \in Messages
    BY <1>6, MessageType DEF OtRepeatCommit, MessageTypes, Dispositions
  <2>2. QED
    BY <1>6, <2>1 DEF OtRepeatCommit, OtTypeOK, BaseTypeOK
<1>7. ASSUME NEW e \in Effects, PlcDispatch(e)
      PROVE  Typed'
  <2>1. Msg("apply", e, otPlant, "none") \in Messages
    BY MessageType DEF MessageTypes, OtTypeOK
  <2>2. QED
    BY <1>7, <2>1 DEF PlcDispatch, OtTypeOK, BaseTypeOK, Work
<1>8. ASSUME NEW e \in Effects, NEW w \in Writes, PlcRefuse(e, w) \/ PlcFail(e, w)
      PROVE  Typed'
  <2>1. FinishCommit(e, "rejected", w) \/ FinishCommit(e, "unknown", w)
    BY <1>8 DEF PlcRefuse, PlcFail
  <2>2. reserved' \subseteq Effects
    BY <1>8 DEF PlcRefuse, PlcFail, OtTypeOK
  <2>3. QED
    BY <2>1, <2>2, FinishCommitType DEF OtTypeOK
<1>9. ASSUME NEW e \in Effects, NEW w \in Writes,
             NEW d \in {"applied", "rejected", "unknown"}, PlcConclude(e, d, w)
      PROVE  Typed'
  BY <1>9, FinishCommitType DEF PlcConclude, OtTypeOK
<1>10. ASSUME NEW e \in Effects, NEW w \in Writes, NEW n \in 1..MaxAttempts,
              OtAnswer(e, n, w)
       PROVE  Typed'
  <2>1. AnswerFor(e) \in Dispositions \cap OtStates /\ n \in Nat
    BY <1>10, BoundAssumption
       DEF OtAnswer, QueryAdmitted, AnswerFor, OtTypeOK, OtStates, PendingStates,
           TerminalStates, Dispositions
  <2>2. Msg("answer", e, n, AnswerFor(e)) \in Messages
    BY <2>1, MessageType DEF MessageTypes
  <2>3. faults' \in 0..MaxFaults
    BY <1>10, SpendWriteType DEF OtAnswer, BaseTypeOK
  <2>4. otAnswers' \subseteq [effect : Effects, n : Nat, d : Dispositions]
    BY <1>10, <2>1 DEF OtAnswer, OtTypeOK
  <2>5. otState' \in [Effects -> OtStates]
    BY <1>10, <2>1 DEF OtAnswer, StateAfterAnswer, OtTypeOK
  <2>6. msgs' \subseteq Messages
    BY <1>10, <2>2 DEF OtAnswer, BaseTypeOK
  <2>7. marker' \in Effects \cup {NoEffect} /\ otProc' \in Processes
    BY <1>2, <1>10 DEF OtAnswer, ProcAfter, Processes
  <2>8. QED
    BY <1>10, <2>3, <2>4, <2>5, <2>6, <2>7 DEF OtAnswer, OtTypeOK
<1>11. ASSUME NEW e \in Effects, NEW n \in 1..MaxAttempts, OtRepeatAnswer(e, n)
       PROVE  Typed'
  <2>1. PICK a \in otAnswers : msgs' = msgs \cup {Msg("answer", e, n, a.d)}
    BY <1>11 DEF OtRepeatAnswer, RetainedAnswers
  <2>2. a.d \in Dispositions /\ n \in Nat
    BY BoundAssumption DEF OtTypeOK
  <2>3. Msg("answer", e, n, a.d) \in Messages
    BY <2>2, MessageType DEF MessageTypes
  <2>4. QED
    BY <1>2, <1>11, <2>1, <2>3 DEF OtRepeatAnswer, OtTypeOK, BaseTypeOK
<1>12. ASSUME OtRefresh \/ OtStop \/ OtRestart
       PROVE  Typed'
  <2>1. faults' \in 0..MaxFaults
    BY <1>12, SpendType DEF OtRefresh, OtStop, OtRestart, BaseTypeOK
  <2>2. QED
    BY <1>2, <1>12, <2>1
       DEF OtRefresh, OtStop, OtRestart, OtTypeOK, BaseTypeOK, PlantTypeOK, Processes
<1>13. ASSUME NEW e \in Effects, NEW w \in Writes, OtWriting(e, w)
       PROVE  Typed'
  BY <1>3, <1>5, <1>8, <1>9, <1>10, <1>13 DEF OtWriting
<1>14. Typed'
  BY <1>4, <1>6, <1>7, <1>11, <1>12, <1>13 DEF CoordinatorStep, OtNext
<1>15. QED
  BY <1>1, <1>14 DEF BaseTypeOK

(***************************************************************************)
(* Every journal record, message, pin and call of the three services stays *)
(* well-formed: Gateway, OtCoordinator and CheckpointedPlant compose.      *)
(***************************************************************************)
THEOREM TypeCorrect == Spec => []TypeOK
<1>1. TypeOK /\ [Next]_vars => TypeOK'
  <2>1. TypeOK /\ UNCHANGED vars => TypeOK'
    BY DEF TypeOK, BaseTypeOK, PlantTypeOK, OtTypeOK, GwTypeOK, vars, plantVars, otVars,
           gwVars
  <2>2. QED
    BY <2>1, GatewayStepType, CoordinatorStepType, PlantStepType DEF Next
<1>2. QED
  BY <1>1, InitType, PTL DEF Spec

-------------------------------------------------------------------------------
(***************************************************************************)
(* Inv is an inductive invariant of EffectCoordination, and the safety     *)
(* properties follow from it.                                              *)
(***************************************************************************)

(***************************************************************************)
(* A gateway step changes neither the coordinator nor the plant, and what  *)
(* it sends is a prepare, or a commit or query of an effect whose commit   *)
(* intent it retains: the other parts of the invariant cannot notice it.   *)
(***************************************************************************)
LEMMA GatewayFrame ==
    ASSUME Inv, UNCHANGED <<plantVars, otVars>>, msgs \subseteq msgs',
           \A m \in msgs' \ msgs :
               \/ m.type = "prepare"
               \/ m.type \in {"commit", "query"} /\ gwCommit'[m.effect] # "none",
           \A e \in Effects : gwCommit[e] # "none" => gwCommit'[e] # "none"
    PROVE  MessagesMean' /\ PlantKnows' /\ CoordinatorKnows'
<1> USE DEF Inv, plantVars, otVars
<1>1. \A e : Spent(e) => Spent(e)'
  BY DEF Spent
<1>2. MessagesMean'
  <2> SUFFICES ASSUME NEW m \in msgs'
               PROVE  MessageMeans(m)'
    BY DEF MessagesMean
  <2>1. CASE m \in msgs
    <3>1. m.effect \in Effects
      BY <2>1 DEF TypeOK, BaseTypeOK, Messages
    <3>2. QED
      BY <1>1, <2>1, <3>1 DEF MessagesMean, MessageMeans
  <2>2. CASE m \in msgs' \ msgs
    BY <2>2 DEF MessageMeans
  <2>3. QED
    BY <2>1, <2>2
<1>3. PlantKnows'
  BY <1>1 DEF PlantKnows, PlantKnowsOf
<1>4. CoordinatorKnows'
  BY <1>1 DEF CoordinatorKnows, CoordinatorKnowsOf, Work
<1>5. QED
  BY <1>2, <1>3, <1>4

(***************************************************************************)
(* What a store of the gateway journal does to one record.                 *)
(***************************************************************************)
LEMMA StoreEffect ==
    ASSUME GwTypeOK, NEW e \in Effects, NEW w \in Writes, NEW state, NEW commit,
           Store(e, state, commit, w)
    PROVE  /\ \A f \in Effects \ {e} :
                  gwState'[f] = gwState[f] /\ gwCommit'[f] = gwCommit[f]
           /\ Written(w) => gwState'[e] = state /\ gwCommit'[e] = commit
           /\ ~Written(w) => gwState'[e] = gwState[e] /\ gwCommit'[e] = gwCommit[e]
BY DEF Store, GwTypeOK

LEMMA GatewayStepInv ==
    ASSUME Inv, GatewayStep
    PROVE  MessagesMean' /\ PlantKnows' /\ CoordinatorKnows' /\ GatewayKnows'
<1> DEFINE Rest == MessagesMean /\ PlantKnows /\ CoordinatorKnows
           Known == \A f \in Effects : GatewayKnowsOf(f)
<1>1. /\ TypeOK /\ GwTypeOK /\ MessagesMean
      /\ UNCHANGED <<plantVars, otVars>>
      /\ UNCHANGED otState
      /\ Known
      /\ gwCommit \in [Effects -> CommitStatuses] /\ transmissions \in [Effects -> Nat]
  BY DEF Inv, TypeOK, GwTypeOK, GatewayKnows, GatewayStep, otVars
<1>2. ASSUME NEW e \in Effects, NEW w \in Writes, Execute(e, w)
      PROVE  Rest' /\ Known'
  <2>1. /\ gwState[e] = "none" /\ gwCommit[e] = "none" /\ gwCall = NoCall
        /\ Store(e, "received", "none", w)
        /\ UNCHANGED transmissions
        /\ gwCall' \in {NoCall, Call("prepare", e)}
        /\ gwCall' # NoCall => w = "ok"
        /\ msgs \subseteq msgs' /\ msgs' \subseteq msgs \cup {Msg("prepare", e, 0, "none")}
    BY <1>1, <1>2 DEF Execute, GwExecute, NoPendingRequired, GatewayKnowsOf
  <2>2. Rest'
    BY <1>1, <2>1, StoreEffect, GatewayFrame DEF Msg
  <2>3. /\ \A f \in Effects \ {e} :
               gwState'[f] = gwState[f] /\ gwCommit'[f] = gwCommit[f]
        /\ gwCommit'[e] = "none" /\ gwState'[e] \in {"none", "received"}
        /\ w = "ok" => gwState'[e] = "received"
    BY <1>1, <2>1, StoreEffect DEF Written
  <2>4. ASSUME NEW f \in Effects
        PROVE  GatewayKnowsOf(f)'
    <3>1. GatewayKnowsOf(f) /\ otState' = otState
      BY <1>1
    <3>2. CASE f = e
      BY <2>1, <2>3, <3>1, <3>2 DEF GatewayKnowsOf, Call, NoCall, Querying
    <3>3. CASE f # e
      BY <2>1, <2>3, <3>1, <3>3 DEF GatewayKnowsOf, Call, NoCall, Querying
    <3>4. QED
      BY <3>2, <3>3
  <2>5. QED
    BY <2>2, <2>4
<1>3. ASSUME NEW e \in Effects, NEW w \in Writes,
             GwRetainReceipt(e, w) \/ GwPrepareFails(e, w)
      PROVE  Rest' /\ Known'
  <2>1. /\ gwCall = Call("prepare", e) /\ gwState[e] = "received" /\ gwCommit[e] = "none"
        /\ Store(e, "armed", "none", w) \/ Store(e, "not_dispatched", "none", w)
        /\ gwCall' \in {NoCall, Call("ready", e)}
        /\ UNCHANGED <<msgs, transmissions>>
    BY <1>1, <1>3 DEF GwRetainReceipt, GwPrepareFails, CallAfter, GatewayKnowsOf
  <2>2. Rest'
    BY <1>1, <2>1, StoreEffect, GatewayFrame
  <2>3. /\ \A f \in Effects \ {e} :
               gwState'[f] = gwState[f] /\ gwCommit'[f] = gwCommit[f]
        /\ gwCommit'[e] = "none"
        /\ gwState'[e] \in {"received", "armed", "not_dispatched"}
    BY <1>1, <2>1, StoreEffect
  <2>4. ASSUME NEW f \in Effects
        PROVE  GatewayKnowsOf(f)'
    <3>1. GatewayKnowsOf(f) /\ otState' = otState
      BY <1>1
    <3>2. CASE f = e
      BY <2>1, <2>3, <3>1, <3>2 DEF GatewayKnowsOf, Call, NoCall, Querying
    <3>3. CASE f # e
      BY <2>1, <2>3, <3>1, <3>3 DEF GatewayKnowsOf, Call, NoCall, Querying
    <3>4. QED
      BY <3>2, <3>3
  <2>5. QED
    BY <2>2, <2>4
<1>4. ASSUME NEW e \in Effects, NEW w \in Writes, GwCommit(e, w)
      PROVE  Rest' /\ Known'
  <2>1. /\ gwState[e] = "armed" /\ gwCommit[e] = "none" /\ transmissions[e] = 0
        /\ Store(e, "armed", "retained", w)
        /\ gwCall' = IF w = "ok" THEN Call("commit", e) ELSE NoCall
        /\ msgs' = IF w = "ok" THEN msgs \cup {Msg("commit", e, 0, "none")} ELSE msgs
    BY <1>1, <1>4 DEF GwCommit, NoCommitRetained, GatewayKnowsOf
  <2>2. /\ \A f \in Effects \ {e} : transmissions'[f] = transmissions[f]
        /\ transmissions'[e] = IF w = "ok" THEN 1 ELSE 0
    BY <1>1, <1>4, <2>1 DEF GwCommit
  <2>3. Rest'
    BY <1>1, <2>1, StoreEffect, GatewayFrame DEF Msg, Written
  <2>4. Known'
    BY <1>1, <2>1, <2>2, StoreEffect DEF GatewayKnowsOf, Call, NoCall, Querying, Written
  <2>5. QED
    BY <2>3, <2>4
<1>5. ASSUME NEW e \in Effects, NEW w \in Writes,
             NEW d \in {"applied", "rejected", "unknown"}, GwCommitOutcome(e, d, w)
      PROVE  Rest' /\ Known'
  <2>1. /\ gwState[e] = "armed" /\ gwCommit[e] = "retained"
        /\ Store(e, d, "response", w)
        /\ gwCall' = NoCall
        /\ Msg("outcome", e, 0, d) \in msgs
        /\ UNCHANGED <<msgs, transmissions>>
    BY <1>1, <1>5 DEF GwCommitOutcome, GatewayKnowsOf
  <2>2. otState[e] = d
    BY <1>1, <2>1 DEF MessagesMean, MessageMeans, Msg
  <2>3. Rest'
    BY <1>1, <2>1, StoreEffect, GatewayFrame
  <2>4. Known'
    BY <1>1, <2>1, <2>2, StoreEffect DEF GatewayKnowsOf, Call, NoCall, Querying
  <2>5. QED
    BY <2>3, <2>4
<1>6. ASSUME NEW e \in Effects, NEW w \in Writes, GwCommitAmbiguous(e, w)
      PROVE  Rest' /\ Known'
  <2>1. /\ gwState[e] = "armed" /\ gwCommit[e] = "retained"
        /\ Store(e, gwState[e], "unknown", w)
        /\ gwCall' = NoCall
        /\ UNCHANGED <<msgs, transmissions>>
    BY <1>1, <1>6 DEF GwCommitAmbiguous, StateIfAmbiguous, GatewayKnowsOf
  <2>2. Rest'
    BY <1>1, <2>1, StoreEffect, GatewayFrame
  <2>3. Known'
    BY <1>1, <2>1, StoreEffect DEF GatewayKnowsOf, Call, NoCall, Querying
  <2>4. QED
    BY <2>2, <2>3
<1>7. ASSUME NEW e \in Effects, NEW w \in Writes, GwCloseUncommitted(e, w)
      PROVE  Rest' /\ Known'
  <2>1. /\ gwState[e] \in GwOpen /\ gwCommit[e] = "none" /\ gwCall = NoCall
        /\ Store(e, "not_dispatched", gwCommit[e], w)
        /\ UNCHANGED <<msgs, transmissions, gwCall>>
    BY <1>1, <1>7 DEF GwCloseUncommitted, UncommittedOpen
  <2>2. Rest'
    BY <1>1, <2>1, StoreEffect, GatewayFrame
  <2>3. /\ \A f \in Effects \ {e} :
               gwState'[f] = gwState[f] /\ gwCommit'[f] = gwCommit[f]
        /\ gwCommit'[e] = "none"
        /\ gwState'[e] \in {gwState[e], "not_dispatched"}
    BY <1>1, <2>1, StoreEffect
  <2>4. ASSUME NEW f \in Effects
        PROVE  GatewayKnowsOf(f)'
    <3>1. GatewayKnowsOf(f) /\ otState' = otState
      BY <1>1
    <3>2. CASE f = e
      BY <2>1, <2>3, <3>1, <3>2 DEF GatewayKnowsOf, Call, NoCall, Querying
    <3>3. CASE f # e
      BY <2>1, <2>3, <3>1, <3>3 DEF GatewayKnowsOf, Call, NoCall, Querying
    <3>4. QED
      BY <3>2, <3>3
  <2>5. QED
    BY <2>2, <2>4
<1>8. ASSUME NEW e \in Effects, NEW w \in Writes, GwRecoverIntent(e, w)
      PROVE  Rest' /\ Known'
  <2>1. /\ gwState[e] \in GwOpen /\ gwCommit[e] = "retained"
        /\ Store(e, gwState[e], "unknown", w)
        /\ gwCall' = IF w = "ok" THEN Call("reconcile", e) ELSE NoCall
        /\ UNCHANGED <<msgs, transmissions>>
    BY <1>1, <1>8 DEF GwRecoverIntent
  <2>2. Rest'
    BY <1>1, <2>1, StoreEffect, GatewayFrame
  <2>3. Known'
    BY <1>1, <2>1, StoreEffect
       DEF GatewayKnowsOf, Call, NoCall, Querying, GwOpen, Written
  <2>4. QED
    BY <2>2, <2>3
<1>9. ASSUME NEW e \in Effects, NEW w \in Writes, GwQuery(e, otBoot, w)
      PROVE  Rest' /\ Known'
  <2>1. /\ gwState[e] \in GwOpen /\ gwCommit[e] \in {"unknown", "response"}
        /\ gwCall' \in {QueryCall(e, otBoot), NoCall}
        /\ msgs \subseteq msgs'
        /\ msgs' \subseteq msgs \cup {Msg("query", e, gwQueries[e] + 1, "none")}
        /\ UNCHANGED <<gwState, gwCommit, transmissions>>
    BY <1>1, <1>9 DEF GwQuery, GatewayKnowsOf
  <2>2. Rest'
    BY <1>1, <2>1, GatewayFrame DEF Msg
  <2>3. Known'
    BY <1>1, <2>1 DEF GatewayKnowsOf, Call, QueryCall, NoCall, Querying
  <2>4. QED
    BY <2>2, <2>3
<1>10. ASSUME NEW e \in Effects, NEW w \in Writes, NEW d \in Dispositions,
              GwQueryOutcome(e, d, w)
       PROVE  Rest' /\ Known'
  <2>1. /\ gwState[e] \in GwOpen /\ gwCommit[e] \in {"unknown", "response"}
        /\ Store(e, d, gwCommit[e], w)
        /\ gwCall' = NoCall
        /\ Msg("answer", e, gwQueries[e], d) \in msgs
        /\ UNCHANGED <<msgs, transmissions>>
    BY <1>1, <1>10 DEF GwQueryOutcome, GatewayKnowsOf
  <2>2. otState[e] = d
    BY <1>1, <2>1 DEF MessagesMean, MessageMeans, Msg
  <2>3. Rest'
    BY <1>1, <2>1, StoreEffect, GatewayFrame
  <2>4. Known'
    BY <1>1, <2>1, <2>2, StoreEffect
       DEF GatewayKnowsOf, Call, NoCall, Querying, Dispositions
  <2>5. QED
    BY <2>3, <2>4
<1>11. ASSUME NEW e \in Effects, NEW w \in Writes,
              GwQueryFails(e, Answerable(e), w) \/ GwQueryExhausted(e)
       PROVE  Rest' /\ Known'
  <2>1. gwCall' = NoCall /\ UNCHANGED <<msgs, gwState, gwCommit, transmissions>>
    BY <1>11 DEF GwQueryFails, GwQueryExhausted
  <2>2. Rest'
    BY <1>1, <2>1, GatewayFrame
  <2>3. Known'
    BY <1>1, <2>1 DEF GatewayKnowsOf, Call, NoCall, Querying
  <2>4. QED
    BY <2>2, <2>3
<1>12. ASSUME GwStop(PinsCurrent) \/ GwDiscover
       PROVE  Rest' /\ Known'
  <2>1. gwCall' \in {gwCall, NoCall} /\ UNCHANGED <<msgs, gwState, gwCommit, transmissions>>
    BY <1>12 DEF GwStop, GwDiscover, GwRestart
  <2>2. Rest'
    BY <1>1, <2>1, GatewayFrame
  <2>3. Known'
    BY <1>1, <2>1 DEF GatewayKnowsOf, Call, NoCall, Querying
  <2>4. QED
    BY <2>2, <2>3
<1>13. ASSUME NEW e \in Effects, NEW w \in Writes, GwWriting(e, w)
       PROVE  Rest' /\ Known'
  BY <1>2, <1>3, <1>4, <1>5, <1>6, <1>7, <1>8, <1>9, <1>10, <1>11, <1>13
     DEF GwWriting, GwReconcile
<1>14. "ok" \in Writes
  BY DEF Writes
<1>15. Rest' /\ Known'
  BY <1>11, <1>12, <1>13, <1>14 DEF GatewayStep, GwNext
<1>16. QED
  BY <1>15 DEF GatewayKnows

(***************************************************************************)
(* An effect whose calls are spent stays so as long as no new call is sent *)
(* for it: the plant forgets a nonce only by going down, and comes back    *)
(* under a boot epoch no earlier call names.                               *)
(***************************************************************************)
LEMMA SpentStays ==
    ASSUME Inv, PlantStep
    PROVE  /\ \A m \in msgs' : m.type = "apply" => m \in msgs
           /\ plantBoot' \in Nat /\ plantBoot <= plantBoot'
           /\ \A e \in Effects : Spent(e) => Spent(e)'
<1>1. /\ plantBoot \in Nat /\ msgs \subseteq Messages
      /\ \A m \in msgs : m.type = "apply" => m.n <= plantBoot /\ m.n \in Nat
  BY DEF Inv, TypeOK, PlantTypeOK, BaseTypeOK, Messages, MessagesMean, MessageMeans
<1>2. ASSUME NEW e \in Effects, NEW w \in Writes, PlantApply(e, w)
      PROVE  /\ \A m \in msgs' : m.type = "apply" => m \in msgs
             /\ plantBoot' = plantBoot
             /\ plantProc' = "down" \/ called \subseteq called'
             /\ plantProc = "up"
  BY <1>2 DEF PlantApply, AdmitsCall, ProcAfter, Msg
<1>3. ASSUME NEW e \in Effects, PlantReject(e)
      PROVE  /\ \A m \in msgs' : m.type = "apply" => m \in msgs
             /\ plantBoot' = plantBoot
             /\ plantProc' = "down" \/ called \subseteq called'
             /\ plantProc = "up"
  BY <1>3 DEF PlantReject, AdmitsCall, Msg
<1>4. ASSUME PlantCrash
      PROVE  msgs' = msgs /\ plantBoot' = plantBoot /\ plantProc' = "down"
  BY <1>4 DEF PlantCrash
<1>5. ASSUME PlantRestart
      PROVE  msgs' = msgs /\ plantBoot' = plantBoot + 1
  BY <1>5 DEF PlantRestart
<1>6. /\ \A m \in msgs' : m.type = "apply" => m \in msgs
      /\ \/ /\ plantBoot' = plantBoot
            /\ plantProc' = "down" \/ (plantProc = "up" /\ called \subseteq called')
         \/ plantBoot' = plantBoot + 1
  BY <1>2, <1>3, <1>4, <1>5 DEF PlantStep, PlantNext
<1>7. ASSUME NEW e \in Effects, Spent(e)
      PROVE  Spent(e)'
  <2> SUFFICES ASSUME NEW m \in msgs', m.type = "apply", m.effect = e
               PROVE  m.n < plantBoot' \/ e \in called' \/ plantProc' = "down"
    BY DEF Spent
  <2>1. m \in msgs /\ (m.n < plantBoot \/ e \in called \/ plantProc = "down")
    BY <1>6, <1>7 DEF Spent
  <2>2. QED
    BY <1>1, <1>6, <2>1
<1>8. QED
  BY <1>1, <1>6, <1>7

(***************************************************************************)
(* A plant step that keeps the history of applications and sends nothing   *)
(* but a reply about a spent call leaves the invariant as it was.          *)
(***************************************************************************)
LEMMA PlantFrame ==
    ASSUME Inv, PlantStep,
           \A m \in msgs' \ msgs :
               /\ m.type = "reply" /\ m.effect \in Effects
               /\ m.effect \in reserved /\ Spent(m.effect)'
               /\ m.d = "applied" => applications'[m.effect] = 1
               /\ m.d = "rejected" => applications'[m.effect] = 0,
           \A e \in Effects :
               \/ applications'[e] = applications[e]
               \/ /\ ~Spent(e) /\ e \in reserved
                  /\ applications'[e] = 1 /\ Spent(e)'
    PROVE  MessagesMean' /\ PlantKnows' /\ CoordinatorKnows' /\ GatewayKnows'
<1>1. /\ \A e \in Effects : Spent(e) => Spent(e)'
      /\ plantBoot' \in Nat /\ plantBoot <= plantBoot'
  BY SpentStays
<1>2. /\ plantBoot \in Nat /\ otPlant \in Nat /\ otAnswers \in SUBSET [effect : Effects, n : Nat, d : Dispositions]
      /\ \A m \in msgs : m.effect \in Effects /\ m.n \in Nat
  BY DEF Inv, TypeOK, PlantTypeOK, OtTypeOK, BaseTypeOK, Messages
<1>3. UNCHANGED <<otVars, gwVars>>
  BY DEF PlantStep
<1>4. MessagesMean'
  <2> SUFFICES ASSUME NEW m \in msgs'
               PROVE  MessageMeans(m)'
    BY DEF MessagesMean
  <2>1. CASE m \in msgs
    <3>1. MessageMeans(m) /\ m.effect \in Effects
      BY <1>2, <2>1 DEF Inv, MessagesMean
    <3>2. m.type = "apply" => m.n <= plantBoot'
      BY <1>1, <1>2, <2>1, <3>1 DEF MessageMeans
    <3>3. QED
      BY <1>1, <1>3, <3>1, <3>2 DEF MessageMeans, otVars, gwVars
  <2>2. CASE m \in msgs' \ msgs
    BY <1>3, <2>2 DEF MessageMeans, otVars
  <2>3. QED
    BY <2>1, <2>2
<1>5. PlantKnows'
  BY <1>1, <1>3 DEF Inv, PlantKnows, PlantKnowsOf, otVars
<1>6. CoordinatorKnows'
  <2>1. otPlant' <= plantBoot'
    BY <1>1, <1>2, <1>3 DEF Inv, CoordinatorKnows, otVars
  <2>2. \A a \in otAnswers' : otState'[a.effect] = a.d
    BY <1>3 DEF Inv, CoordinatorKnows, otVars
  <2>3. ASSUME NEW e \in Effects
        PROVE  CoordinatorKnowsOf(e)'
    <3>1. CoordinatorKnowsOf(e) /\ PlantKnowsOf(e)
      BY DEF Inv, CoordinatorKnows, PlantKnows
    <3>2. QED
      BY <1>1, <1>3, <3>1 DEF CoordinatorKnowsOf, PlantKnowsOf, otVars, gwVars, Work
  <2>4. QED
    BY <2>1, <2>2, <2>3 DEF CoordinatorKnows
<1>7. GatewayKnows'
  BY <1>3 DEF Inv, GatewayKnows, GatewayKnowsOf, otVars, gwVars, Querying
<1>8. QED
  BY <1>4, <1>5, <1>6, <1>7

LEMMA PlantStepInv ==
    ASSUME Inv, PlantStep
    PROVE  MessagesMean' /\ PlantKnows' /\ CoordinatorKnows' /\ GatewayKnows'
<1>1. /\ applications \in [Effects -> Nat] /\ plantBoot \in Nat
      /\ \A e \in Effects : PlantKnowsOf(e)
      /\ \A m \in msgs : MessageMeans(m)
  BY DEF Inv, TypeOK, PlantTypeOK, PlantKnows, MessagesMean
<1>2. ASSUME NEW e \in Effects, AdmitsCall(e)
      PROVE  ~Spent(e) /\ e \in reserved /\ applications[e] = 0
  <2>1. /\ Msg("apply", e, plantBoot, "none") \in msgs /\ e \notin called
        /\ plantProc = "up"
    BY <1>2 DEF AdmitsCall
  <2>2. e \in reserved
    BY <1>1, <2>1 DEF MessageMeans, Msg
  <2>3. ~Spent(e)
    BY <1>1, <2>1 DEF Spent, Msg
  <2>4. QED
    BY <1>1, <2>2, <2>3 DEF PlantKnowsOf
<1>3. ASSUME NEW e \in Effects, NEW w \in Writes, PlantApply(e, w)
      PROVE  MessagesMean' /\ PlantKnows' /\ CoordinatorKnows' /\ GatewayKnows'
  <2>1. ~Spent(e) /\ e \in reserved /\ applications[e] = 0
    BY <1>2, <1>3 DEF PlantApply
  <2>2. /\ \A f \in Effects \ {e} : applications'[f] = applications[f]
        /\ applications'[e] = IF Written(w) THEN 1 ELSE 0
    BY <1>1, <1>3, <2>1 DEF PlantApply
  <2>3. e \in called' \/ plantProc' = "down"
    BY <1>3 DEF PlantApply, ProcAfter
  <2>4. Spent(e)'
    BY <2>3 DEF Spent
  <2>5. \A m \in msgs' \ msgs : /\ m = Msg("reply", e, plantBoot, "applied")
                                /\ w = "ok"
    BY <1>3 DEF PlantApply
  <2>6. \A m \in msgs' \ msgs :
               /\ m.type = "reply" /\ m.effect \in Effects
               /\ m.effect \in reserved /\ Spent(m.effect)'
               /\ m.d = "applied" => applications'[m.effect] = 1
               /\ m.d = "rejected" => applications'[m.effect] = 0
    BY <2>1, <2>2, <2>4, <2>5 DEF Msg, Written
  <2>7. QED
    BY <2>1, <2>2, <2>4, <2>6, PlantFrame
<1>4. ASSUME NEW e \in Effects, PlantReject(e)
      PROVE  MessagesMean' /\ PlantKnows' /\ CoordinatorKnows' /\ GatewayKnows'
  <2>1. e \in reserved /\ applications[e] = 0
    BY <1>2, <1>4 DEF PlantReject
  <2>2. Spent(e)'
    BY <1>4 DEF PlantReject, Spent
  <2>3. \A m \in msgs' \ msgs : m = Msg("reply", e, plantBoot, "rejected")
    BY <1>4 DEF PlantReject
  <2>4. UNCHANGED applications
    BY <1>4 DEF PlantReject
  <2>5. \A m \in msgs' \ msgs :
               /\ m.type = "reply" /\ m.effect \in Effects
               /\ m.effect \in reserved /\ Spent(m.effect)'
               /\ m.d = "applied" => applications'[m.effect] = 1
               /\ m.d = "rejected" => applications'[m.effect] = 0
    BY <2>1, <2>2, <2>3, <2>4 DEF Msg
  <2>6. QED
    BY <2>4, <2>5, PlantFrame
<1>5. ASSUME PlantCrash \/ PlantRestart
      PROVE  MessagesMean' /\ PlantKnows' /\ CoordinatorKnows' /\ GatewayKnows'
  <2>1. UNCHANGED <<msgs, applications>>
    BY <1>5 DEF PlantCrash, PlantRestart
  <2>2. QED
    BY <2>1, PlantFrame
<1>6. QED
  BY <1>3, <1>4, <1>5 DEF PlantStep, PlantNext

(***************************************************************************)
(* A coordinator step about effect e: its state moves only from a state no *)
(* response states, a call to the plant is sent only for an effect that    *)
(* was not reserved yet, and every response states the state it leaves.    *)
(***************************************************************************)
LEMMA CoordinatorFrame ==
    ASSUME Inv, UNCHANGED <<plantVars, gwVars>>, NEW e \in Effects,
           \A f \in Effects \ {e} : otState'[f] = otState[f] /\ otWork'.effect # f,
           otState'[e] = otState[e] \/ otState[e] \in {"none", "armed", "accepted"},
           reserved \subseteq reserved', reserved' \subseteq reserved \cup {e},
           msgs \subseteq msgs',
           \A m \in msgs' \ msgs :
               /\ m.effect = e
               /\ \/ m.type = "receipt"
                  \/ /\ m.type = "apply" /\ m.n <= plantBoot
                     /\ e \notin reserved /\ e \in reserved' /\ otState'[e] # "rejected"
                  \/ m.type \in {"outcome", "answer"} /\ m.d \in Dispositions /\ m.d = otState'[e],
           \A a \in otAnswers' \ otAnswers : a.effect = e /\ a.d = otState'[e],
           otPlant' = otPlant,
           otState'[e] \in {"none", "armed", "not_dispatched"} => e \notin reserved',
           otState'[e] \in {"accepted", "unknown", "applied", "rejected"}
               => gwCommit[e] # "none",
           otState'[e] = "applied" => applications[e] = 1,
           otState'[e] = "rejected" => applications[e] = 0 /\ Spent(e),
           otWork'.effect = e => otState'[e] = "accepted",
           otWork' = Work("accepted", e) => e \notin reserved'
    PROVE  MessagesMean' /\ PlantKnows' /\ CoordinatorKnows' /\ GatewayKnows'
<1>1. /\ \A f \in Effects : PlantKnowsOf(f) /\ CoordinatorKnowsOf(f) /\ GatewayKnowsOf(f)
      /\ \A m \in msgs : MessageMeans(m) /\ m.effect \in Effects
      /\ otPlant <= plantBoot /\ \A a \in otAnswers : otState[a.effect] = a.d
      /\ \A a \in otAnswers : a.effect \in Effects /\ a.d \in Dispositions
  BY DEF Inv, TypeOK, BaseTypeOK, OtTypeOK, Messages, MessagesMean, PlantKnows,
         CoordinatorKnows, GatewayKnows
<1>2. /\ UNCHANGED <<plantBoot, called, plantProc, applications>>
      /\ UNCHANGED <<gwState, gwCommit, gwCall, transmissions>>
  BY DEF plantVars, gwVars
<1>3. \A f \in Effects \ {e} : Spent(f) => Spent(f)'
  BY <1>2 DEF Spent
<1>4. e \in reserved \/ otState'[e] = "rejected" => (Spent(e) => Spent(e)')
  BY <1>2 DEF Spent
<1>5. otState[e] \in Dispositions => otState'[e] = otState[e]
  BY DEF Dispositions
<1>6. MessagesMean'
  <2> SUFFICES ASSUME NEW m \in msgs'
               PROVE  MessageMeans(m)'
    BY DEF MessagesMean
  <2>1. CASE m \in msgs /\ m.effect = e
    <3>1. MessageMeans(m)
      BY <1>1, <2>1
    <3>2. QED
      BY <1>2, <1>4, <1>5, <2>1, <3>1 DEF MessageMeans
  <2>2. CASE m \in msgs /\ m.effect # e
    <3>1. MessageMeans(m) /\ m.effect \in Effects \ {e}
      BY <1>1, <2>2
    <3>2. QED
      BY <1>2, <1>3, <3>1 DEF MessageMeans
  <2>3. CASE m \in msgs' \ msgs
    BY <1>2, <2>3 DEF MessageMeans
  <2>4. QED
    BY <2>1, <2>2, <2>3
<1>7. PlantKnows'
  BY <1>1, <1>2, <1>3, <1>4 DEF PlantKnows, PlantKnowsOf
<1>8. CoordinatorKnows'
  <2>1. otPlant' <= plantBoot' /\ \A a \in otAnswers' : otState'[a.effect] = a.d
    BY <1>1, <1>2, <1>5
  <2>2. CoordinatorKnowsOf(e)'
    BY <1>2, <1>4 DEF CoordinatorKnowsOf, Work
  <2>3. ASSUME NEW f \in Effects \ {e}
        PROVE  CoordinatorKnowsOf(f)'
    BY <1>1, <1>2, <1>3 DEF CoordinatorKnowsOf, Work
  <2>4. QED
    BY <2>1, <2>2, <2>3 DEF CoordinatorKnows
<1>9. GatewayKnows'
  <2>1. GatewayKnowsOf(e)'
    BY <1>1, <1>2 DEF GatewayKnowsOf, CoordinatorKnowsOf, Querying
  <2>2. ASSUME NEW f \in Effects \ {e}
        PROVE  GatewayKnowsOf(f)'
    BY <1>1, <1>2 DEF GatewayKnowsOf, Querying
  <2>3. QED
    BY <2>1, <2>2 DEF GatewayKnows
<1>10. QED
  BY <1>6, <1>7, <1>8, <1>9

(***************************************************************************)
(* The end of commit_effect, for the effect that is being executed, with a *)
(* disposition that the plant bears out.                                   *)
(***************************************************************************)
LEMMA FinishCommitInv ==
    ASSUME Inv, UNCHANGED <<plantVars, gwVars>>, NEW e \in Effects, NEW w \in Writes,
           NEW d \in {"applied", "rejected", "unknown"},
           otWork.effect = e, FinishCommit(e, d, w),
           reserved \subseteq reserved', reserved' \subseteq reserved \cup {e},
           d = "applied" => applications[e] = 1,
           d = "rejected" => applications[e] = 0 /\ Spent(e)
    PROVE  MessagesMean' /\ PlantKnows' /\ CoordinatorKnows' /\ GatewayKnows'
<1>1. otState[e] = "accepted" /\ gwCommit[e] # "none" /\ otState \in [Effects -> OtStates]
  BY DEF Inv, TypeOK, OtTypeOK, CoordinatorKnows, CoordinatorKnowsOf
<1>2. /\ \A f \in Effects \ {e} : otState'[f] = otState[f]
      /\ otState'[e] \in {"accepted", d}
      /\ w = "ok" => otState'[e] = d
  BY <1>1 DEF FinishCommit, Written
<1>3. otWork' = NoWork /\ otWork'.effect \notin Effects
      /\ otPlant' = otPlant /\ otAnswers' = otAnswers
  BY EffectAssumption DEF FinishCommit, NoWork
<1>4. /\ msgs \subseteq msgs'
      /\ \A m \in msgs' \ msgs : m = Msg("outcome", e, 0, d) /\ w = "ok"
  BY DEF FinishCommit
<1>5. \A m \in msgs' \ msgs : /\ m.effect = e /\ m.type = "outcome"
                              /\ m.d \in Dispositions /\ m.d = otState'[e]
  BY <1>2, <1>4 DEF Msg, Dispositions
<1>6. QED
  BY <1>1, <1>2, <1>3, <1>4, <1>5, CoordinatorFrame DEF Work

LEMMA CoordinatorStepInv ==
    ASSUME Inv, CoordinatorStep
    PROVE  MessagesMean' /\ PlantKnows' /\ CoordinatorKnows' /\ GatewayKnows'
<1> DEFINE Known == MessagesMean /\ PlantKnows /\ CoordinatorKnows /\ GatewayKnows
<1>1. /\ UNCHANGED <<plantVars, gwVars>>
      /\ otState \in [Effects -> OtStates] /\ otPlant <= plantBoot
      /\ \A m \in msgs : MessageMeans(m)
      /\ \A f \in Effects : PlantKnowsOf(f) /\ CoordinatorKnowsOf(f)
      /\ \A a \in otAnswers : otState[a.effect] = a.d /\ a.d \in Dispositions
  BY DEF CoordinatorStep, Inv, TypeOK, OtTypeOK, MessagesMean, PlantKnows, CoordinatorKnows
<1>2. NoWork.effect \notin Effects
  BY EffectAssumption DEF NoWork
<1>3. ASSUME NEW e \in Effects, NEW w \in Writes, OtPrepare(e, w)
      PROVE  Known'
  <2>1. /\ otState[e] = "none" /\ otWork' = NoWork
        /\ UNCHANGED <<otAnswers, reserved, otPlant>>
    BY <1>3 DEF OtPrepare, PrepareAdmitted, OtReady
  <2>2. /\ \A f \in Effects \ {e} : otState'[f] = otState[f]
        /\ otState'[e] \in {"none", "armed"}
    BY <1>1, <1>3, <2>1 DEF OtPrepare
  <2>3. /\ msgs \subseteq msgs'
        /\ \A m \in msgs' \ msgs : m = Msg("receipt", e, 0, "none")
    BY <1>3 DEF OtPrepare
  <2>4. \A m \in msgs' \ msgs : m.effect = e /\ m.type = "receipt"
    BY <2>3 DEF Msg
  <2>5. e \notin reserved
    BY <1>1, <2>1 DEF CoordinatorKnowsOf
  <2>6. QED
    BY <1>1, <1>2, <2>1, <2>2, <2>3, <2>4, <2>5, CoordinatorFrame DEF Work, NoWork
<1>4. ASSUME NEW e \in Effects, OtRepeatPrepare(e) \/ OtRepeatCommit(e)
      PROVE  Known'
  <2>1. otWork = NoWork /\ UNCHANGED <<otState, otAnswers, reserved, otPlant, otWork>>
    BY <1>4 DEF OtRepeatPrepare, OtRepeatCommit, PrepareAdmitted, CommitAdmitted, OtReady
  <2>2. /\ msgs \subseteq msgs'
        /\ \A m \in msgs' \ msgs :
              \/ m = Msg("receipt", e, 0, "none")
              \/ m = Msg("outcome", e, 0, otState[e]) /\ otState[e] \in {"applied", "rejected"}
    BY <1>4 DEF OtRepeatPrepare, OtRepeatCommit
  <2>3. \A m \in msgs' \ msgs :
              /\ m.effect = e
              /\ \/ m.type = "receipt"
                 \/ m.type = "outcome" /\ m.d \in Dispositions /\ m.d = otState'[e]
    BY <2>1, <2>2 DEF Msg, Dispositions
  <2>4. CoordinatorKnowsOf(e)
    BY <1>1
  <2>5. QED
    BY <1>1, <1>2, <2>1, <2>2, <2>3, <2>4, CoordinatorFrame DEF CoordinatorKnowsOf
<1>5. ASSUME NEW e \in Effects, NEW w \in Writes, OtAccept(e, w)
      PROVE  Known'
  <2>1. /\ otState[e] = "armed" /\ otWork' \in {NoWork, Work("accepted", e)}
        /\ otWork' # NoWork => w = "ok"
        /\ Msg("commit", e, 0, "none") \in msgs
        /\ UNCHANGED <<otAnswers, reserved, otPlant, msgs>>
    BY <1>5 DEF OtAccept, CommitAdmitted
  <2>2. /\ \A f \in Effects \ {e} : otState'[f] = otState[f]
        /\ otState'[e] \in {"armed", "accepted"}
        /\ w = "ok" => otState'[e] = "accepted"
    BY <1>1, <1>5, <2>1 DEF OtAccept, Written
  <2>3. e \notin reserved
    BY <1>1, <2>1 DEF CoordinatorKnowsOf
  <2>4. gwCommit[e] # "none"
    BY <1>1, <2>1 DEF MessageMeans, Msg
  <2>5. /\ \A f \in Effects \ {e} : otWork'.effect # f
        /\ otWork'.effect = e => otState'[e] = "accepted"
    BY <1>2, <2>1, <2>2 DEF Work
  <2>6. QED
    BY <1>1, <2>1, <2>2, <2>3, <2>4, <2>5, CoordinatorFrame
<1>6. ASSUME NEW e \in Effects, PlcDispatch(e)
      PROVE  Known'
  <2>1. /\ otWork = Work("accepted", e) /\ otWork' = Work("applying", e)
        /\ e \notin reserved /\ reserved' = reserved \cup {e}
        /\ otPlant = plantBoot
        /\ msgs' = msgs \cup {Msg("apply", e, otPlant, "none")}
        /\ UNCHANGED <<otState, otAnswers, otPlant>>
    BY <1>6 DEF PlcDispatch, PlantReachable
  <2>2. otState[e] = "accepted" /\ gwCommit[e] # "none"
    BY <1>1, <2>1 DEF CoordinatorKnowsOf, Work
  <2>3. \A m \in msgs' \ msgs : m.effect = e /\ m.type = "apply" /\ m.n <= plantBoot
    BY <1>1, <2>1 DEF Msg
  <2>4. otWork'.effect = e /\ otWork' # Work("accepted", e)
    BY <2>1 DEF Work
  <2>5. QED
    BY <1>1, <2>1, <2>2, <2>3, <2>4, CoordinatorFrame
<1>7. ASSUME NEW e \in Effects, NEW w \in Writes, PlcRefuse(e, w) \/ PlcFail(e, w)
      PROVE  Known'
  <2>1. /\ otWork = Work("accepted", e)
        /\ reserved' \in {reserved, reserved \cup {e}}
        /\ FinishCommit(e, "rejected", w) \/ FinishCommit(e, "unknown", w)
    BY <1>7 DEF PlcRefuse, PlcFail
  <2>2. otWork.effect = e /\ e \notin reserved
    BY <1>1, <2>1 DEF CoordinatorKnowsOf, Work
  <2>3. applications[e] = 0 /\ Spent(e)
    BY <1>1, <2>2 DEF PlantKnowsOf, MessageMeans, Spent
  <2>4. QED
    BY <1>1, <2>1, <2>2, <2>3, FinishCommitInv
<1>8. ASSUME NEW e \in Effects, NEW w \in Writes,
             NEW d \in {"applied", "rejected", "unknown"}, PlcConclude(e, d, w)
      PROVE  Known'
  <2>1. /\ otWork = Work("applying", e) /\ FinishCommit(e, d, w) /\ reserved' = reserved
        /\ d # "unknown" => Msg("reply", e, otPlant, d) \in msgs
    BY <1>8 DEF PlcConclude, PlcConclusion
  <2>2. otWork.effect = e
    BY <2>1 DEF Work
  <2>3. /\ d = "applied" => applications[e] = 1
        /\ d = "rejected" => applications[e] = 0 /\ Spent(e)
    BY <1>1, <2>1 DEF MessageMeans, Msg
  <2>4. QED
    BY <1>1, <2>1, <2>2, <2>3, FinishCommitInv
<1>9. ASSUME NEW e \in Effects, NEW w \in Writes, NEW n \in 1..MaxAttempts,
             OtAnswer(e, n, w)
      PROVE  Known'
  <2>1. /\ otState[e] # "none" /\ otWork' = NoWork
        /\ UNCHANGED <<reserved, otPlant>>
    BY <1>9 DEF OtAnswer, QueryAdmitted, OtReady
  <2>2. /\ otState[e] \in {"armed", "not_dispatched"} => AnswerFor(e) = "not_dispatched"
        /\ otState[e] \in {"accepted", "unknown"} => AnswerFor(e) = "unknown"
        /\ otState[e] \in {"applied", "rejected"} => AnswerFor(e) = otState[e]
    BY DEF AnswerFor
  <2>3. AnswerFor(e) \in Dispositions
    BY <1>1, <2>1, <2>2 DEF OtStates, PendingStates, TerminalStates, Dispositions
  <2>4. /\ \A f \in Effects \ {e} : otState'[f] = otState[f]
        /\ otState'[e] \in {otState[e], AnswerFor(e)}
        /\ Written(w) => otState'[e] = AnswerFor(e)
    BY <1>1, <1>9 DEF OtAnswer, StateAfterAnswer
  <2>5. /\ \A a \in otAnswers' \ otAnswers : a.effect = e /\ a.d = otState'[e]
        /\ msgs \subseteq msgs'
        /\ \A m \in msgs' \ msgs : m = Msg("answer", e, n, AnswerFor(e)) /\ w = "ok"
    BY <1>9, <2>4 DEF OtAnswer
  <2>6. \A m \in msgs' \ msgs : /\ m.effect = e /\ m.type = "answer"
                                /\ m.d \in Dispositions /\ m.d = otState'[e]
    BY <2>3, <2>4, <2>5 DEF Msg, Written
  <2>7. otState'[e] = otState[e] \/ otState[e] \in {"none", "armed", "accepted"}
    BY <1>1, <2>2, <2>4 DEF OtStates, PendingStates, TerminalStates
  <2>8. CoordinatorKnowsOf(e)
    BY <1>1
  <2>9. /\ otState'[e] \in {"none", "armed", "not_dispatched"} => e \notin reserved'
        /\ otState'[e] \in {"accepted", "unknown", "applied", "rejected"}
              => gwCommit[e] # "none"
        /\ otState'[e] = "applied" => applications[e] = 1
        /\ otState'[e] = "rejected" => applications[e] = 0 /\ Spent(e)
    BY <1>1, <2>1, <2>2, <2>4, <2>8
       DEF CoordinatorKnowsOf, OtStates, PendingStates, TerminalStates
  <2>10. QED
    BY <1>1, <1>2, <2>1, <2>4, <2>5, <2>6, <2>7, <2>9, CoordinatorFrame DEF Work, NoWork
<1>10. ASSUME NEW e \in Effects, NEW n \in 1..MaxAttempts, OtRepeatAnswer(e, n)
       PROVE  Known'
  <2>1. /\ otWork = NoWork /\ UNCHANGED <<otState, otAnswers, reserved, otPlant, otWork>>
    BY <1>10 DEF OtRepeatAnswer, QueryAdmitted, OtReady
  <2>2. PICK a \in otAnswers : a.effect = e /\ msgs' = msgs \cup {Msg("answer", e, n, a.d)}
    BY <1>10 DEF OtRepeatAnswer, RetainedAnswers
  <2>3. \A m \in msgs' \ msgs : /\ m.effect = e /\ m.type = "answer"
                                /\ m.d \in Dispositions /\ m.d = otState'[e]
    BY <1>1, <2>1, <2>2 DEF Msg
  <2>4. CoordinatorKnowsOf(e)
    BY <1>1
  <2>5. QED
    BY <1>1, <1>2, <2>1, <2>2, <2>3, <2>4, CoordinatorFrame DEF CoordinatorKnowsOf
<1>11. ASSUME OtRefresh \/ OtStop \/ OtRestart
       PROVE  Known'
  <2>1. /\ UNCHANGED <<otState, otAnswers, reserved, msgs>>
        /\ otWork' \in {otWork, NoWork} /\ otPlant' \in {otPlant, plantBoot}
    BY <1>11 DEF OtRefresh, OtStop, OtRestart
  <2>2. \A f : Spent(f)' <=> Spent(f)
    BY <1>1, <2>1 DEF Spent, plantVars
  <2>3. MessagesMean' /\ PlantKnows'
    BY <1>1, <2>1, <2>2
       DEF MessagesMean, MessageMeans, PlantKnows, PlantKnowsOf, plantVars, gwVars
  <2>4. ASSUME NEW f \in Effects
        PROVE  CoordinatorKnowsOf(f)'
    BY <1>1, <1>2, <2>1, <2>2 DEF CoordinatorKnowsOf, plantVars, gwVars, Work, NoWork
  <2>5. otPlant' <= plantBoot'
    BY <1>1, <2>1 DEF plantVars, Inv, TypeOK, PlantTypeOK
  <2>6. GatewayKnows'
    BY <1>1, <2>1 DEF Inv, GatewayKnows, GatewayKnowsOf, gwVars, Querying
  <2>7. QED
    BY <1>1, <2>1, <2>3, <2>4, <2>5, <2>6 DEF CoordinatorKnows
<1>12. ASSUME NEW e \in Effects, NEW w \in Writes, OtWriting(e, w)
       PROVE  Known'
  BY <1>3, <1>5, <1>7, <1>8, <1>9, <1>12 DEF OtWriting
<1>13. QED
  BY <1>4, <1>6, <1>10, <1>11, <1>12 DEF CoordinatorStep, OtNext

LEMMA InitInv == Init => Inv
<1>1. SUFFICES ASSUME Init PROVE Inv
  OBVIOUS
<1>2. MessagesMean
  BY <1>1 DEF Init, BaseInit, MessagesMean
<1>3. PlantKnows
  BY <1>1 DEF Init, PlantInit, PlantKnows, PlantKnowsOf
<1>4. CoordinatorKnows
  BY <1>1, EffectAssumption
     DEF Init, OtInit, PlantInit, CoordinatorKnows, CoordinatorKnowsOf, NoWork, Work
<1>5. GatewayKnows
  BY <1>1 DEF Init, GwInit, GatewayKnows, GatewayKnowsOf, Call, NoCall, Querying
<1>6. QED
  BY <1>1, <1>2, <1>3, <1>4, <1>5, InitType DEF Inv

(***************************************************************************)
(* The inductive invariant of durable effect coordination: what every      *)
(* message, journal record and reservation says about the other services   *)
(* (the gateway port, commit_effect and query_effect, and the plant's      *)
(* compare-and-swap).                                                      *)
(***************************************************************************)
THEOREM InvHolds == Spec => []Inv
<1>1. Inv /\ [Next]_vars => Inv'
  <2>1. ASSUME Inv, Next PROVE Inv'
    <3>1. TypeOK'
      BY <2>1, GatewayStepType, CoordinatorStepType, PlantStepType DEF Inv, Next
    <3>2. MessagesMean' /\ PlantKnows' /\ CoordinatorKnows' /\ GatewayKnows'
      BY <2>1, GatewayStepInv, CoordinatorStepInv, PlantStepInv DEF Next
    <3>3. QED
      BY <3>1, <3>2 DEF Inv
  <2>2. ASSUME Inv, UNCHANGED vars PROVE Inv'
    <3>1. TypeOK'
      BY <2>2 DEF Inv, TypeOK, BaseTypeOK, PlantTypeOK, OtTypeOK, GwTypeOK, vars,
                  plantVars, otVars, gwVars
    <3>2. \A f : Spent(f)' <=> Spent(f)
      BY <2>2 DEF Spent, vars, plantVars
    <3>3. MessagesMean' /\ PlantKnows' /\ CoordinatorKnows' /\ GatewayKnows'
      BY <2>2, <3>2
         DEF Inv, MessagesMean, MessageMeans, PlantKnows, PlantKnowsOf, CoordinatorKnows,
             CoordinatorKnowsOf, GatewayKnows, GatewayKnowsOf, Querying, vars, plantVars,
             otVars, gwVars
    <3>4. QED
      BY <3>1, <3>3 DEF Inv
  <2>3. QED
    BY <2>1, <2>2
<1>2. QED
  BY <1>1, InitInv, PTL DEF Spec

(***************************************************************************)
(* However requests are delayed or repeated and whoever crashes, no effect *)
(* changes the plant twice (CapabilityPlantRuntime.execute).               *)
(***************************************************************************)
THEOREM AppliedOnce == Spec => []AppliedAtMostOnce
<1>1. Inv => AppliedAtMostOnce
  BY DEF Inv, PlantKnows, PlantKnowsOf, AppliedAtMostOnce
<1>2. QED
  BY <1>1, InvHolds, PTL

(***************************************************************************)
(* The gateway port sends the commit of an effect at most once, crashes    *)
(* and failed journal writes included.                                     *)
(***************************************************************************)
THEOREM CommittedOnce == Spec => []CommitSentAtMostOnce
<1>1. Inv => CommitSentAtMostOnce
  BY DEF Inv, GatewayKnows, GatewayKnowsOf, CommitSentAtMostOnce
<1>2. QED
  BY <1>1, InvHolds, PTL

(***************************************************************************)
(* The journals of gateway and coordinator agree on every effect that      *)
(* either of them has closed.                                              *)
(***************************************************************************)
THEOREM Agreement == Spec => []JournalsAgree
<1>1. Inv => JournalsAgree
  <2> SUFFICES ASSUME Inv, NEW e \in Effects
               PROVE  /\ gwState[e] \in {"applied", "rejected"} => otState[e] = gwState[e]
                      /\ gwState[e] = "not_dispatched"
                             => otState[e] \in {"none", "armed", "not_dispatched"}
                      /\ gwState[e] = "unknown" => otState[e] = "unknown"
    BY DEF JournalsAgree
  <2>1. GatewayKnowsOf(e) /\ CoordinatorKnowsOf(e) /\ otState[e] \in OtStates
    BY DEF Inv, GatewayKnows, CoordinatorKnows, TypeOK, OtTypeOK
  <2>2. QED
    BY <2>1
       DEF GatewayKnowsOf, CoordinatorKnowsOf, OtStates, PendingStates, TerminalStates
<1>2. QED
  BY <1>1, InvHolds, PTL

(***************************************************************************)
(* A definite disposition, in either journal, is true of the plant.        *)
(***************************************************************************)
THEOREM Truthful == Spec => []ClaimsAreTrue
<1>1. Inv => ClaimsAreTrue
  <2> SUFFICES ASSUME Inv, NEW e \in Effects
               PROVE  /\ "applied" \in {gwState[e], otState[e]} => applications[e] = 1
                      /\ {gwState[e], otState[e]} \cap {"rejected", "not_dispatched"} # {}
                             => applications[e] = 0
    BY DEF ClaimsAreTrue
  <2>1. /\ GatewayKnowsOf(e) /\ CoordinatorKnowsOf(e) /\ PlantKnowsOf(e)
        /\ otState[e] \in OtStates
    BY DEF Inv, GatewayKnows, CoordinatorKnows, PlantKnows, TypeOK, OtTypeOK
  <2>2. \/ otState[e] \in {"none", "armed", "not_dispatched"}
        \/ otState[e] \in {"accepted", "unknown", "applied", "rejected"}
    BY <2>1 DEF OtStates, PendingStates, TerminalStates
  <2>3. gwState[e] = "not_dispatched" => otState[e] \in {"none", "armed", "not_dispatched"}
    BY <2>1, <2>2 DEF GatewayKnowsOf, CoordinatorKnowsOf
  <2>4. otState[e] \in {"none", "armed", "not_dispatched"} => applications[e] = 0
    BY <2>1 DEF CoordinatorKnowsOf, PlantKnowsOf
  <2>5. QED
    BY <2>1, <2>3, <2>4 DEF GatewayKnowsOf, CoordinatorKnowsOf
<1>2. QED
  BY <1>1, InvHolds, PTL

-------------------------------------------------------------------------------
(***************************************************************************)
(* Effect coordination implements EffectOutcome: every step of a service   *)
(* is a step of the abstract specification, or changes nothing in it.      *)
(***************************************************************************)

(***************************************************************************)
(* How the abstract variables change when at most one effect does.         *)
(***************************************************************************)
LEMMA OneChanges ==
    ASSUME NEW e \in Effects,
           \A f \in Effects \ {e} : ClaimOf(f)' = ClaimOf(f) /\ FateOf(f)' = FateOf(f)
    PROVE  /\ Claim' = [Claim EXCEPT ![e] = ClaimOf(e)']
           /\ Fate' = [Fate EXCEPT ![e] = FateOf(e)']
           /\ ClaimOf(e)' = ClaimOf(e) => Claim' = Claim
           /\ FateOf(e)' = FateOf(e) => Fate' = Fate
           /\ Claim[e] = ClaimOf(e) /\ Fate[e] = FateOf(e)
<1>1. /\ Claim' = [f \in Effects |-> ClaimOf(f)']
      /\ Fate' = [f \in Effects |-> FateOf(f)']
  BY DEF Claim, Fate
<1>2. QED
  BY <1>1 DEF Claim, Fate

LEMMA NoneChanges ==
    ASSUME \A f \in Effects : ClaimOf(f)' = ClaimOf(f) /\ FateOf(f)' = FateOf(f),
           plant' = plant
    PROVE  UNCHANGED Outcome!vars
<1>1. /\ Claim' = [f \in Effects |-> ClaimOf(f)']
      /\ Fate' = [f \in Effects |-> FateOf(f)']
  BY DEF Claim, Fate
<1>2. Claim' = Claim /\ Fate' = Fate
  BY <1>1 DEF Claim, Fate
<1>3. QED
  BY <1>2 DEF Outcome!vars

(***************************************************************************)
(* An effect with a commit intent whose outcome the coordinator does not   *)
(* know yet is open at the gateway.                                        *)
(***************************************************************************)
LEMMA CommittedIsOpen ==
    ASSUME Inv, NEW e \in Effects, gwCommit[e] # "none",
           otState[e] \in {"armed", "accepted", "unknown"}
    PROVE  gwState[e] \in GwOpen
<1>1. gwState[e] \in {"none"} \cup GwOpen \cup GwClosed /\ GatewayKnowsOf(e)
  BY DEF Inv, TypeOK, GwTypeOK, GatewayKnows
<1>2. QED
  BY <1>1 DEF GatewayKnowsOf, GwOpen, GwClosed

(***************************************************************************)
(* The plant takes an effect that is open and undecided, or nothing.       *)
(***************************************************************************)
LEMMA PlantStepRefines ==
    ASSUME Inv, PlantStep
    PROVE  [Outcome!Next]_(Outcome!vars)
<1>1. /\ gwState' = gwState /\ otState' = otState
      /\ applications \in [Effects -> Nat] /\ plant \in PlantStates
      /\ pre \in [Effects -> PlantStates]
  BY DEF PlantStep, gwVars, otVars, Inv, TypeOK, PlantTypeOK, BaseTypeOK
<1>2. ASSUME NEW e \in Effects, NEW w \in Writes, PlantApply(e, w), Written(w)
      PROVE  Outcome!Next
  <2>1. /\ \A f \in Effects \ {e} : applications'[f] = applications[f]
        /\ applications'[e] = applications[e] + 1
        /\ plant = pre[e] /\ plant' = Post(e)
        /\ Msg("apply", e, plantBoot, "none") \in msgs
        /\ e \notin called /\ plantProc = "up"
    BY <1>1, <1>2 DEF PlantApply, AdmitsCall, CasHolds
  <2>2. plant'.version = plant.version + 1
    BY <1>1, <2>1 DEF Post
  <2>3. /\ e \in reserved /\ ~Spent(e)
        /\ PlantKnowsOf(e) /\ CoordinatorKnowsOf(e)
        /\ otState[e] \in OtStates
    <3>1. MessageMeans(Msg("apply", e, plantBoot, "none"))
      BY <2>1 DEF Inv, MessagesMean
    <3>2. e \in reserved
      BY <3>1 DEF MessageMeans, Msg
    <3>3. ~Spent(e)
      BY <2>1 DEF Spent, Msg, Inv, TypeOK, PlantTypeOK
    <3>4. QED
      BY <3>2, <3>3 DEF Inv, PlantKnows, CoordinatorKnows, TypeOK, OtTypeOK
  <2>4. applications[e] = 0 /\ otState[e] \in {"accepted", "unknown"}
    BY <2>3 DEF PlantKnowsOf, CoordinatorKnowsOf, OtStates, PendingStates, TerminalStates
  <2>5. gwState[e] \in GwOpen
    BY <2>3, <2>4, CommittedIsOpen DEF CoordinatorKnowsOf
  <2>6. /\ ClaimOf(e) = "open" /\ ClaimOf(e)' = ClaimOf(e)
        /\ FateOf(e) = "undecided" /\ FateOf(e)' = "taken"
    BY <1>1, <2>1, <2>4, <2>5 DEF ClaimOf, FateOf, GwOpen
  <2>7. \A f \in Effects \ {e} : ClaimOf(f)' = ClaimOf(f) /\ FateOf(f)' = FateOf(f)
    BY <1>1, <2>1 DEF ClaimOf, FateOf
  <2>8. /\ Claim' = Claim /\ Fate' = [Fate EXCEPT ![e] = "taken"]
        /\ Claim[e] = "open" /\ Fate[e] = "undecided"
    BY <2>6, <2>7, OneChanges
  <2>9. QED
    BY <2>2, <2>8 DEF Outcome!Next, Outcome!Take
<1>3. ASSUME UNCHANGED <<applications, plant>>
      PROVE  UNCHANGED Outcome!vars
  BY <1>1, <1>3, NoneChanges DEF ClaimOf, FateOf
<1>4. ASSUME NEW e \in Effects, NEW w \in Writes, PlantApply(e, w), ~Written(w)
      PROVE  UNCHANGED <<applications, plant>>
  BY <1>1, <1>4 DEF PlantApply
<1>5. QED
  BY <1>2, <1>3, <1>4 DEF PlantStep, PlantNext, PlantReject, PlantCrash, PlantRestart

(***************************************************************************)
(* The coordinator may refuse an effect that is open and undecided.        *)
(***************************************************************************)
LEMMA RefuseStep ==
    ASSUME Inv, NEW e \in Effects, plant' = plant, gwState' = gwState,
           applications' = applications,
           \A f \in Effects \ {e} : otState'[f] = otState[f],
           \/ otState'[e] = otState[e]
           \/ /\ otState[e] \in {"none", "armed", "accepted"}
              /\ otState'[e] \notin {"rejected", "not_dispatched"}
           \/ /\ otState[e] \in {"armed", "accepted"} /\ gwCommit[e] # "none"
              /\ otState'[e] \in {"rejected", "not_dispatched"}
    PROVE  [Outcome!Next]_(Outcome!vars)
<1>1. \A f \in Effects \ {e} : ClaimOf(f)' = ClaimOf(f) /\ FateOf(f)' = FateOf(f)
  BY DEF ClaimOf, FateOf
<1>2. ClaimOf(e)' = ClaimOf(e)
  BY DEF ClaimOf
<1>3. CASE FateOf(e)' = FateOf(e)
  BY <1>1, <1>2, <1>3, NoneChanges
<1>4. CASE FateOf(e)' # FateOf(e)
  <2>1. /\ otState[e] \in {"armed", "accepted"} /\ gwCommit[e] # "none"
        /\ otState'[e] \in {"rejected", "not_dispatched"}
    BY <1>4 DEF FateOf
  <2>2. gwState[e] \in GwOpen
    BY <2>1, CommittedIsOpen
  <2>3. ClaimOf(e) = "open" /\ FateOf(e) = "undecided" /\ FateOf(e)' = "void"
    BY <1>4, <2>1, <2>2 DEF ClaimOf, FateOf, GwOpen
  <2>4. /\ Claim' = Claim /\ Fate' = [Fate EXCEPT ![e] = "void"]
        /\ Claim[e] = "open" /\ Fate[e] = "undecided"
    BY <1>1, <1>2, <2>3, OneChanges
  <2>5. QED
    BY <2>4 DEF Outcome!Next, Outcome!Refuse
<1>5. QED
  BY <1>3, <1>4

LEMMA CoordinatorStepRefines ==
    ASSUME Inv, CoordinatorStep
    PROVE  [Outcome!Next]_(Outcome!vars)
<1> DEFINE Refines == [Outcome!Next]_(Outcome!vars)
<1>1. /\ plant' = plant /\ gwState' = gwState /\ applications' = applications
      /\ otState \in [Effects -> OtStates]
      /\ \A f \in Effects : CoordinatorKnowsOf(f)
      /\ \A m \in msgs : MessageMeans(m)
  BY DEF CoordinatorStep, plantVars, gwVars, Inv, TypeOK, OtTypeOK, CoordinatorKnows,
         MessagesMean
<1>2. ASSUME UNCHANGED otState
      PROVE  Refines
  BY <1>1, <1>2, NoneChanges DEF ClaimOf, FateOf
<1>3. ASSUME NEW e \in Effects, NEW w \in Writes, OtPrepare(e, w) \/ OtAccept(e, w)
      PROVE  Refines
  <2>1. /\ otState[e] \in {"none", "armed"}
        /\ \A f \in Effects \ {e} : otState'[f] = otState[f]
        /\ otState'[e] \in {otState[e], "armed", "accepted"}
    BY <1>1, <1>3 DEF OtPrepare, OtAccept
  <2>2. QED
    BY <1>1, <2>1, RefuseStep
<1>4. ASSUME NEW e \in Effects, NEW w \in Writes,
             NEW d \in {"applied", "rejected", "unknown"},
             otWork.effect = e, FinishCommit(e, d, w)
      PROVE  Refines
  <2>1. otState[e] = "accepted" /\ gwCommit[e] # "none"
    BY <1>1, <1>4 DEF CoordinatorKnowsOf
  <2>2. /\ \A f \in Effects \ {e} : otState'[f] = otState[f]
        /\ otState'[e] \in {otState[e], d}
    BY <1>1, <1>4 DEF FinishCommit
  <2>3. QED
    BY <1>1, <2>1, <2>2, RefuseStep
<1>5. ASSUME NEW e \in Effects, NEW w \in Writes, NEW n \in 1..MaxAttempts,
             OtAnswer(e, n, w)
      PROVE  Refines
  <2>1. otState[e] \in OtStates \ {"none"} /\ Msg("query", e, n, "none") \in msgs
    BY <1>1, <1>5 DEF OtAnswer, QueryAdmitted
  <2>2. gwCommit[e] # "none"
    BY <1>1, <2>1 DEF MessageMeans, Msg
  <2>3. /\ otState[e] \in {"armed", "not_dispatched"} => AnswerFor(e) = "not_dispatched"
        /\ otState[e] \in {"accepted", "unknown"} => AnswerFor(e) = "unknown"
        /\ otState[e] \in {"applied", "rejected"} => AnswerFor(e) = otState[e]
    BY DEF AnswerFor
  <2>4. /\ \A f \in Effects \ {e} : otState'[f] = otState[f]
        /\ otState'[e] \in {otState[e], AnswerFor(e)}
    BY <1>1, <1>5 DEF OtAnswer, StateAfterAnswer
  <2>5. \/ otState'[e] = otState[e]
        \/ otState[e] = "armed" /\ otState'[e] = "not_dispatched"
        \/ otState[e] = "accepted" /\ otState'[e] = "unknown"
    BY <2>1, <2>3, <2>4 DEF OtStates, PendingStates, TerminalStates
  <2>6. QED
    BY <1>1, <2>2, <2>4, <2>5, RefuseStep
<1>6. ASSUME NEW e \in Effects, NEW w \in Writes, OtWriting(e, w)
      PROVE  Refines
  BY <1>3, <1>4, <1>5, <1>6 DEF OtWriting, PlcRefuse, PlcFail, PlcConclude, Work
<1>7. QED
  BY <1>2, <1>6
     DEF CoordinatorStep, OtNext, OtRepeatPrepare, OtRepeatCommit, PlcDispatch,
         OtRepeatAnswer, OtRefresh, OtStop, OtRestart

(***************************************************************************)
(* The gateway begins an effect when none is open, closes one with what    *)
(* happened to it, or abandons one that it never committed.                *)
(***************************************************************************)
LEMMA GatewayStepRefines ==
    ASSUME Inv, GatewayStep
    PROVE  [Outcome!Next]_(Outcome!vars)
<1> DEFINE Refines == [Outcome!Next]_(Outcome!vars)
<1>1. /\ plant' = plant /\ otState' = otState /\ applications' = applications
      /\ TypeOK /\ GwTypeOK
      /\ \A f \in Effects : GatewayKnowsOf(f) /\ CoordinatorKnowsOf(f) /\ PlantKnowsOf(f)
      /\ \A m \in msgs : MessageMeans(m)
  BY DEF GatewayStep, plantVars, otVars, Inv, TypeOK, GatewayKnows, CoordinatorKnows,
         PlantKnows, MessagesMean
<1>2. ASSUME \A f \in Effects : gwState'[f] = gwState[f]
      PROVE  Refines
  BY <1>1, <1>2, NoneChanges DEF ClaimOf, FateOf
<1>3. ASSUME NEW e \in Effects,
             \A f \in Effects \ {e} : gwState'[f] = gwState[f],
             gwState[e] \in GwOpen, gwState'[e] \in GwOpen
      PROVE  Refines
  BY <1>1, <1>3, NoneChanges DEF ClaimOf, FateOf, GwOpen
<1>4. ASSUME NEW e \in Effects,
             \A f \in Effects \ {e} : gwState'[f] = gwState[f],
             gwState[e] \in GwOpen, gwCommit[e] = "none", gwState'[e] = "not_dispatched"
      PROVE  Refines
  <2>1. \A f \in Effects \ {e} : ClaimOf(f)' = ClaimOf(f) /\ FateOf(f)' = FateOf(f)
    BY <1>1, <1>4 DEF ClaimOf, FateOf
  <2>2. otState[e] \in {"none", "armed", "not_dispatched"}
    BY <1>1, <1>4
       DEF TypeOK, OtTypeOK, CoordinatorKnowsOf, OtStates, PendingStates, TerminalStates
  <2>3. applications[e] = 0
    BY <1>1, <2>2 DEF CoordinatorKnowsOf, PlantKnowsOf
  <2>4. /\ ClaimOf(e) = "open" /\ ClaimOf(e)' = "not_dispatched"
        /\ FateOf(e) \in {"undecided", "void"} /\ FateOf(e)' = "void"
    BY <1>1, <1>4, <2>3 DEF ClaimOf, FateOf, GwOpen
  <2>5. /\ Claim' = [Claim EXCEPT ![e] = "not_dispatched"]
        /\ Fate' = [Fate EXCEPT ![e] = "void"]
        /\ Claim[e] = "open" /\ Fate[e] \in {"undecided", "void"}
    BY <2>1, <2>4, OneChanges
  <2>6. QED
    BY <1>1, <2>5 DEF Outcome!Next, Outcome!Abandon
<1>5. ASSUME NEW e \in Effects, NEW d \in {"applied", "rejected", "not_dispatched"},
             \A f \in Effects \ {e} : gwState'[f] = gwState[f],
             gwState[e] \in GwOpen, gwState'[e] = d, otState[e] = d
      PROVE  Refines
  <2>1. \A f \in Effects \ {e} : ClaimOf(f)' = ClaimOf(f) /\ FateOf(f)' = FateOf(f)
    BY <1>1, <1>5 DEF ClaimOf, FateOf
  <2>2. /\ d = "applied" => applications[e] = 1
        /\ d \in {"rejected", "not_dispatched"} => applications[e] = 0
    BY <1>1, <1>5 DEF CoordinatorKnowsOf, PlantKnowsOf
  <2>3. /\ ClaimOf(e) = "open" /\ ClaimOf(e)' = d
        /\ FateOf(e)' = FateOf(e)
        /\ d = "applied" => FateOf(e) = "taken"
        /\ d # "applied" => FateOf(e) = "void"
    BY <1>1, <1>5, <2>2 DEF ClaimOf, FateOf, GwOpen
  <2>4. /\ Claim' = [Claim EXCEPT ![e] = d] /\ Fate' = Fate /\ Claim[e] = "open"
        /\ d = "applied" => Fate[e] = "taken"
        /\ d # "applied" => Fate[e] = "void"
    BY <2>1, <2>3, OneChanges
  <2>5. QED
    BY <1>1, <2>4 DEF Outcome!Next, Outcome!Close
<1>6. ASSUME NEW e \in Effects, NEW w \in Writes, Execute(e, w)
      PROVE  Refines
  <2>1. /\ gwState[e] = "none" /\ PendingAtGateway = {}
        /\ Store(e, "received", "none", w)
    BY <1>6 DEF Execute, GwExecute, NoPendingRequired
  <2>2. /\ \A f \in Effects \ {e} : gwState'[f] = gwState[f]
        /\ gwState'[e] \in {gwState[e], "received"}
    BY <1>1, <2>1, StoreEffect
  <2>3. CASE gwState'[e] = gwState[e]
    BY <1>2, <2>2, <2>3
  <2>4. CASE gwState'[e] = "received"
    <3>1. \A f \in Effects \ {e} : ClaimOf(f)' = ClaimOf(f) /\ FateOf(f)' = FateOf(f)
      BY <1>1, <2>2 DEF ClaimOf, FateOf
    <3>2. /\ ClaimOf(e) = "none" /\ ClaimOf(e)' = "open" /\ FateOf(e)' = FateOf(e)
      BY <1>1, <2>1, <2>4 DEF ClaimOf, FateOf, GwOpen
    <3>3. /\ Claim' = [Claim EXCEPT ![e] = "open"] /\ Fate' = Fate /\ Claim[e] = "none"
      BY <3>1, <3>2, OneChanges
    <3>4. \A f \in Effects : Claim[f] # "open"
      <4>1. ASSUME NEW f \in Effects PROVE ClaimOf(f) # "open"
        BY <1>1, <2>1 DEF ClaimOf, PendingAtGateway, GwTypeOK, GwOpen, GwClosed
      <4>2. QED
        BY <4>1 DEF Claim
    <3>5. QED
      BY <1>1, <3>3, <3>4 DEF Outcome!Next, Outcome!Begin
  <2>5. QED
    BY <2>2, <2>3, <2>4
<1>7. ASSUME NEW e \in Effects, NEW w \in Writes,
             GwRetainReceipt(e, w) \/ GwPrepareFails(e, w)
      PROVE  Refines
  <2>1. /\ gwState[e] = "received" /\ gwCommit[e] = "none"
        /\ Store(e, "armed", "none", w) \/ Store(e, "not_dispatched", "none", w)
    BY <1>1, <1>7 DEF GwRetainReceipt, GwPrepareFails, GatewayKnowsOf
  <2>2. /\ \A f \in Effects \ {e} : gwState'[f] = gwState[f]
        /\ gwState'[e] \in {"received", "armed", "not_dispatched"}
    BY <1>1, <2>1, StoreEffect
  <2>3. gwState[e] \in GwOpen /\ (gwState'[e] \in GwOpen \/ gwState'[e] = "not_dispatched")
    BY <2>1, <2>2 DEF GwOpen
  <2>4. QED
    BY <1>3, <1>4, <2>1, <2>2, <2>3
<1>8. ASSUME NEW e \in Effects, NEW w \in Writes,
             \/ GwCommit(e, w)
             \/ GwCommitAmbiguous(e, w)
             \/ GwRecoverIntent(e, w)
      PROVE  Refines
  <2>1. \/ gwState[e] = "armed" /\ Store(e, "armed", "retained", w)
        \/ Store(e, gwState[e], "unknown", w)
    BY <1>8 DEF GwCommit, NoCommitRetained, GwCommitAmbiguous, StateIfAmbiguous,
                GwRecoverIntent
  <2>2. \A f \in Effects : gwState'[f] = gwState[f]
    BY <1>1, <2>1, StoreEffect
  <2>3. QED
    BY <1>2, <2>2
<1>9. ASSUME NEW e \in Effects, NEW w \in Writes, GwCloseUncommitted(e, w)
      PROVE  Refines
  <2>1. /\ gwState[e] \in GwOpen /\ gwCommit[e] = "none"
        /\ Store(e, "not_dispatched", gwCommit[e], w)
    BY <1>9 DEF GwCloseUncommitted, UncommittedOpen
  <2>2. /\ \A f \in Effects \ {e} : gwState'[f] = gwState[f]
        /\ gwState'[e] \in {gwState[e], "not_dispatched"}
    BY <1>1, <2>1, StoreEffect
  <2>3. QED
    BY <1>3, <1>4, <2>1, <2>2
<1>10. ASSUME NEW e \in Effects, NEW w \in Writes, NEW d \in Dispositions,
              GwCommitOutcome(e, d, w) \/ GwQueryOutcome(e, d, w)
       PROVE  Refines
  <2>1. /\ gwState[e] \in GwOpen
        /\ Store(e, d, "response", w) \/ Store(e, d, gwCommit[e], w)
        /\ Msg("outcome", e, 0, d) \in msgs \/ Msg("answer", e, gwQueries[e], d) \in msgs
    BY <1>1, <1>10 DEF GwCommitOutcome, GwQueryOutcome, GatewayKnowsOf, GwOpen
  <2>2. otState[e] = d
    BY <1>1, <2>1 DEF MessageMeans, Msg
  <2>3. /\ \A f \in Effects \ {e} : gwState'[f] = gwState[f]
        /\ gwState'[e] \in {gwState[e], d}
    BY <1>1, <2>1, StoreEffect
  <2>4. d \in {"applied", "rejected", "not_dispatched"} \/ d \in GwOpen
    BY DEF Dispositions, GwOpen
  <2>5. QED
    BY <1>3, <1>5, <2>1, <2>2, <2>3, <2>4
<1>11. ASSUME NEW e \in Effects, NEW w \in Writes,
              \/ GwQuery(e, otBoot, w)
              \/ GwQueryFails(e, Answerable(e), w)
              \/ GwQueryExhausted(e)
       PROVE  Refines
  BY <1>2, <1>11 DEF GwQuery, GwQueryFails, GwQueryExhausted
<1>12. ASSUME GwStop(PinsCurrent) \/ GwDiscover
       PROVE  Refines
  BY <1>2, <1>12 DEF GwStop, GwDiscover, GwRestart
<1>13. ASSUME NEW e \in Effects, NEW w \in Writes, GwWriting(e, w)
       PROVE  Refines
  <2>1. {"applied", "rejected", "unknown"} \subseteq Dispositions
    BY DEF Dispositions
  <2>2. QED
    BY <1>6, <1>7, <1>8, <1>9, <1>10, <1>11, <1>13, <2>1 DEF GwWriting, GwReconcile
<1>14. "ok" \in Writes
  BY DEF Writes
<1>15. QED
  BY <1>11, <1>12, <1>13, <1>14 DEF GatewayStep, GwNext

(***************************************************************************)
(* Coordination keeps its promise to the agent, for any number of effects, *)
(* faults and query attempts: one effect at a time, taken at most once and *)
(* only while it is open at the gateway, closed with what happened to it.  *)
(***************************************************************************)
THEOREM Implements == Spec => ImplementsEffectOutcome
<1>1. Init => Outcome!Init
  <2>1. SUFFICES ASSUME Init PROVE Outcome!Init
    OBVIOUS
  <2>2. \A e \in Effects : ClaimOf(e) = "none" /\ FateOf(e) = "undecided"
    BY <2>1 DEF Init, GwInit, OtInit, PlantInit, ClaimOf, FateOf, GwOpen
  <2>3. plant.version = 0
    BY <2>1 DEF Init, PlantInit
  <2>4. QED
    BY <2>2, <2>3 DEF Outcome!Init, Claim, Fate
<1>2. Inv /\ [Next]_vars => [Outcome!Next]_(Outcome!vars)
  <2>1. ASSUME Inv, Next PROVE [Outcome!Next]_(Outcome!vars)
    BY <2>1, GatewayStepRefines, CoordinatorStepRefines, PlantStepRefines DEF Next
  <2>2. ASSUME UNCHANGED vars PROVE UNCHANGED Outcome!vars
    BY <2>2, NoneChanges DEF vars, plantVars, otVars, gwVars, ClaimOf, FateOf
  <2>3. QED
    BY <2>1, <2>2
<1>3. QED
  BY <1>1, <1>2, InvHolds, PTL DEF Spec, ImplementsEffectOutcome, Outcome!Spec
-------------------------------------------------------------------------------
(***************************************************************************)
(* Recovery.  The effects that changed the plant form a chain from the     *)
(* baseline to the plant's state; one effect at most is open at the        *)
(* gateway and one pending at the coordinator; and a pending one is where  *)
(* the plant is, unless it is an orphan.                                   *)
(***************************************************************************)
TakenChain ==
    /\ plant.version = 0 => plant.content = Baseline
    /\ plant.version # 0 => \E f \in Effects : applications[f] = 1 /\ Post(f) = plant
    /\ \A e \in Effects : applications[e] = 1 =>
          /\ pre[e].version < plant.version
          /\ pre[e].version # 0 => \E f \in Effects : applications[f] = 1 /\ Post(f) = pre[e]
    /\ \A e, f \in Effects : applications[e] = 1 /\ applications[f] = 1
                             /\ pre[e].version = pre[f].version => e = f

ObservedBefore(e) ==
    /\ pre[e].version <= plant.version
    /\ pre[e].version = plant.version => pre[e] = plant

OnePending == \A e, f \in PendingIn(otState) : e = f

OneOpen == \A e, f \in PendingAtGateway : e = f

PreparedAfterIntent ==
    /\ \A e \in Effects : otState[e] # "none" => gwState[e] # "none"
    /\ \A m \in msgs : m.type = "prepare" => gwState[m.effect] # "none"

PlantWhere(e) ==
    /\ otState[e] \in {"accepted", "unknown"} =>
          plant = IF applications[e] = 1 THEN Post(e) ELSE pre[e]
    /\ otState[e] = "armed" => plant = pre[e] \/ Orphan(e)
    /\ otState[e] \in {"none", "armed"} /\ gwState[e] \in GwOpen => plant = pre[e]

RecInv ==
    /\ TakenChain
    /\ \A e \in Effects : ObservedBefore(e) /\ PlantWhere(e)
    /\ OnePending
    /\ OneOpen
    /\ PreparedAfterIntent

LEMMA RecoveryTypes ==
    ASSUME Inv
    PROVE  /\ plant \in PlantStates /\ plant.version \in Nat
           /\ pre \in [Effects -> PlantStates] /\ otState \in [Effects -> OtStates]
           /\ applications \in [Effects -> Nat]
           /\ \A e \in Effects : /\ pre[e].version \in Nat /\ pre[e] \in PlantStates
                                 /\ Post(e).version = pre[e].version + 1
                                 /\ applications[e] \in {0, 1} /\ otState[e] \in OtStates
<1>1. /\ plant \in PlantStates /\ pre \in [Effects -> PlantStates]
      /\ otState \in [Effects -> OtStates] /\ applications \in [Effects -> Nat]
      /\ \A e \in Effects : applications[e] \in {0, 1}
  BY DEF Inv, TypeOK, BaseTypeOK, PlantTypeOK, OtTypeOK, PlantKnows, PlantKnowsOf
<1>2. \A s \in PlantStates : s.version \in Nat
  BY DEF PlantStates
<1>3. \A e \in Effects : Post(e).version = pre[e].version + 1
  BY DEF Post
<1>4. QED
  BY <1>1, <1>2, <1>3

\* Only an effect whose commit the coordinator accepted can change the plant.
LEMMA AppliedIsAccepted ==
    ASSUME Inv, NEW e \in Effects, applications[e] = 1
    PROVE  otState[e] \in {"accepted", "unknown", "applied"}
<1>1. PlantKnowsOf(e) /\ CoordinatorKnowsOf(e) /\ otState[e] \in OtStates
  BY DEF Inv, PlantKnows, CoordinatorKnows, TypeOK, OtTypeOK
<1>2. QED
  BY <1>1 DEF PlantKnowsOf, CoordinatorKnowsOf, OtStates, PendingStates, TerminalStates

LEMMA ApplyMeans ==
    ASSUME Inv, NEW e \in Effects, AdmitsCall(e)
    PROVE  /\ applications[e] = 0 /\ otState[e] \in {"accepted", "unknown"}
           /\ gwState[e] \in GwOpen
<1>1. /\ Msg("apply", e, plantBoot, "none") \in msgs /\ e \notin called /\ plantProc = "up"
  BY DEF AdmitsCall
<1>2. /\ PlantKnowsOf(e) /\ CoordinatorKnowsOf(e) /\ otState[e] \in OtStates
      /\ MessageMeans(Msg("apply", e, plantBoot, "none"))
  BY <1>1 DEF Inv, PlantKnows, CoordinatorKnows, TypeOK, OtTypeOK, MessagesMean
<1>3. e \in reserved
  BY <1>2 DEF MessageMeans, Msg
<1>4. ~Spent(e)
  BY <1>1 DEF Spent, Msg, Inv, TypeOK, PlantTypeOK
<1>5. applications[e] = 0 /\ otState[e] \in {"accepted", "unknown"}
  BY <1>2, <1>3, <1>4
     DEF PlantKnowsOf, CoordinatorKnowsOf, OtStates, PendingStates, TerminalStates
<1>6. QED
  BY <1>2, <1>5, CommittedIsOpen DEF CoordinatorKnowsOf

(***************************************************************************)
(* What the steps of each service do to the state that recovery reads.     *)
(***************************************************************************)
Opened(e) ==
    /\ gwState[e] = "none" /\ PendingAtGateway = {}
    /\ pre' = [pre EXCEPT ![e] = plant]
    /\ gwState' = [gwState EXCEPT ![e] = "received"]
    /\ \A m \in msgs' : m.type = "prepare" => m \in msgs \/ m.effect = e

OpenStays ==
    /\ pre' = pre
    /\ \A f \in Effects : \/ gwState'[f] = gwState[f]
                          \/ gwState[f] \in GwOpen /\ gwState'[f] # "none"
    /\ \A m \in msgs' : m.type = "prepare" => m \in msgs

LEMMA StoreKeepsOpen ==
    ASSUME Inv, NEW e \in Effects, NEW w \in Writes, NEW state, NEW commit,
           Store(e, state, commit, w), gwState[e] \in GwOpen, state # "none"
    PROVE  \A f \in Effects : \/ gwState'[f] = gwState[f]
                              \/ gwState[f] \in GwOpen /\ gwState'[f] # "none"
<1>1. GwTypeOK
  BY DEF Inv, TypeOK
<1>2. QED
  BY <1>1, StoreEffect

LEMMA GatewaySummary ==
    ASSUME Inv, GatewayStep
    PROVE  (\E e \in Effects : Opened(e)) \/ OpenStays
<1>1. \A e \in Effects : GatewayKnowsOf(e)
  BY DEF Inv, GatewayKnows
<1>2. gwState \in [Effects -> {"none"} \cup GwOpen \cup GwClosed]
  BY DEF Inv, TypeOK, GwTypeOK
<1>3. ASSUME NEW e \in Effects, NEW w \in Writes, Execute(e, w)
      PROVE  Opened(e) \/ OpenStays
  <2>1. /\ gwState[e] = "none" /\ PendingAtGateway = {}
        /\ gwState' = IF Written(w) THEN [gwState EXCEPT ![e] = "received"] ELSE gwState
        /\ pre' = IF Written(w) THEN [pre EXCEPT ![e] = plant] ELSE pre
        /\ msgs' = IF w = "ok" THEN msgs \cup {Msg("prepare", e, 0, "none")} ELSE msgs
    BY <1>3 DEF Execute, GwExecute, NoPendingRequired, Store
  <2>2. CASE Written(w)
    BY <2>1, <2>2 DEF Opened, Msg
  <2>3. CASE ~Written(w)
    BY <2>1, <2>3 DEF OpenStays, Written
  <2>4. QED
    BY <2>2, <2>3
<1>4. ASSUME NEW e \in Effects, NEW w \in Writes, GwRetainReceipt(e, w) \/ GwPrepareFails(e, w)
      PROVE  OpenStays
  <2>1. gwState[e] \in GwOpen /\ pre' = pre /\ msgs' = msgs
    BY <1>1, <1>4 DEF GwRetainReceipt, GwPrepareFails, GatewayKnowsOf, GwOpen
  <2>2. Store(e, "armed", "none", w) \/ Store(e, "not_dispatched", "none", w)
    BY <1>4 DEF GwRetainReceipt, GwPrepareFails
  <2>3. QED
    BY <2>1, <2>2, StoreKeepsOpen DEF OpenStays
<1>5. ASSUME NEW e \in Effects, NEW w \in Writes, GwCommit(e, w)
      PROVE  OpenStays
  <2>1. /\ gwState[e] \in GwOpen /\ pre' = pre /\ Store(e, "armed", "retained", w)
        /\ \A m \in msgs' : m \in msgs \/ m = Msg("commit", e, 0, "none")
    BY <1>5 DEF GwCommit, NoCommitRetained, GwOpen
  <2>2. QED
    BY <2>1, StoreKeepsOpen DEF OpenStays, Msg
<1>6. ASSUME NEW e \in Effects, NEW w \in Writes, NEW d \in {"applied", "rejected", "unknown"},
             GwCommitOutcome(e, d, w)
      PROVE  OpenStays
  <2>1. gwState[e] \in GwOpen /\ pre' = pre /\ msgs' = msgs /\ Store(e, d, "response", w)
    BY <1>1, <1>6 DEF GwCommitOutcome, GatewayKnowsOf, GwOpen
  <2>2. QED
    BY <2>1, StoreKeepsOpen DEF OpenStays
<1>7. ASSUME NEW e \in Effects, NEW w \in Writes, GwCommitAmbiguous(e, w)
      PROVE  OpenStays
  <2>1. /\ gwState[e] = "armed" /\ pre' = pre /\ msgs' = msgs
        /\ Store(e, gwState[e], "unknown", w)
    BY <1>1, <1>7 DEF GwCommitAmbiguous, GatewayKnowsOf, StateIfAmbiguous
  <2>2. QED
    BY <2>1, StoreKeepsOpen DEF OpenStays, GwOpen
<1>8. ASSUME NEW e \in Effects, NEW w \in Writes, GwReconcile(e, w)
      PROVE  OpenStays
  <2>1. CASE GwCloseUncommitted(e, w)
    <3>1. /\ gwState[e] \in GwOpen /\ pre' = pre /\ msgs' = msgs
          /\ Store(e, "not_dispatched", gwCommit[e], w)
      BY <2>1 DEF GwCloseUncommitted, UncommittedOpen
    <3>2. QED
      BY <3>1, StoreKeepsOpen DEF OpenStays
  <2>2. CASE GwRecoverIntent(e, w)
    <3>1. /\ gwState[e] \in GwOpen /\ pre' = pre /\ msgs' = msgs
          /\ Store(e, gwState[e], "unknown", w)
      BY <2>2 DEF GwRecoverIntent
    <3>2. gwState[e] # "none"
      BY <3>1 DEF GwOpen
    <3>3. QED
      BY <3>1, <3>2, StoreKeepsOpen DEF OpenStays
  <2>3. CASE GwQuery(e, otBoot, w)
    <3>1. /\ pre' = pre /\ gwState' = gwState
          /\ \A m \in msgs' : m \in msgs \/ m = Msg("query", e, gwQueries[e] + 1, "none")
      BY <2>3 DEF GwQuery
    <3>2. QED
      BY <3>1 DEF OpenStays, Msg
  <2>4. QED
    BY <1>8, <2>1, <2>2, <2>3 DEF GwReconcile
<1>9. ASSUME NEW e \in Effects, NEW w \in Writes, NEW d \in Dispositions, GwQueryOutcome(e, d, w)
      PROVE  OpenStays
  <2>1. /\ gwState[e] \in GwOpen /\ pre' = pre /\ msgs' = msgs
        /\ Store(e, d, gwCommit[e], w)
    BY <1>1, <1>9 DEF GwQueryOutcome, GatewayKnowsOf
  <2>2. d # "none"
    BY DEF Dispositions
  <2>3. QED
    BY <2>1, <2>2, StoreKeepsOpen DEF OpenStays
<1>10. ASSUME NEW e \in Effects, NEW w \in Writes,
              GwQueryFails(e, Answerable(e), w) \/ GwQueryExhausted(e)
       PROVE  OpenStays
  BY <1>10 DEF GwQueryFails, GwQueryExhausted, OpenStays
<1>11. CASE GwStop(PinsCurrent) \/ GwDiscover
  BY <1>11 DEF GwStop, GwDiscover, GwRestart, OpenStays
<1>12. ASSUME NEW e \in Effects, GwQueryExhausted(e) PROVE OpenStays
  BY <1>12 DEF GwQueryExhausted, OpenStays
<1>13. ASSUME NEW e \in Effects, NEW w \in Writes, GwWriting(e, w)
       PROVE  Opened(e) \/ OpenStays
  BY <1>3, <1>4, <1>5, <1>6, <1>7, <1>8, <1>9, <1>10, <1>13 DEF GwWriting
<1>14. QED
  BY <1>11, <1>12, <1>13 DEF GatewayStep, GwNext

\* A journal is aligned only while nothing is pending, and at the pre-state of a pending
\* effect only when the plant is there.
LEMMA AlignedMeans ==
    /\ Reason \in AlignedReasons => PendingIn(otState) = {}
    /\ \A e : Reason = "pending_effect_at_pre_state" /\ PendingIn(otState) = {e}
               => plant = pre[e]
<1> DEFINE pending == PendingIn(otState)
           links == AppliedIn(otState)
           some == CHOOSE e \in pending : TRUE
<1>1. \A e : PendingReason(e, plant) \notin AlignedReasons
             /\ (PendingReason(e, plant) = "pending_effect_at_pre_state" => plant = pre[e])
  BY DEF PendingReason, AlignedReasons
<1>2. SettledReason(links, plant) # "pending_effect_at_pre_state"
  BY DEF SettledReason
<1>3. \/ Reason \in UnavailableReasons
      \/ pending # {} /\ Reason = PendingReason(some, plant)
      \/ pending = {} /\ Reason = SettledReason(links, plant)
  BY DEF Reason, RecoveryReason, UnavailableReasons
<1>4. \A e : pending = {e} => some = e
  OBVIOUS
<1>5. QED
  BY <1>1, <1>2, <1>3, <1>4 DEF UnavailableReasons, AlignedReasons

Armed(e) ==
    /\ PendingIn(otState) = {} /\ otState[e] = "none" /\ gwState[e] # "none"
    /\ otState' = [otState EXCEPT ![e] = "armed"]

PendingStays ==
    \A f \in Effects :
        \/ otState'[f] = otState[f]
        \/ /\ otState[f] \in {"armed", "accepted"} /\ otState'[f] \notin {"none", "armed"}
           /\ otState[f] = "armed" => gwCommit[f] # "none"
           /\ otState'[f] \in {"accepted", "unknown"} =>
                 otState[f] = "accepted" \/ plant = pre[f]

LEMMA CoordinatorSummary ==
    ASSUME Inv, PreparedAfterIntent, CoordinatorStep
    PROVE  /\ (\E e \in Effects : Armed(e)) \/ PendingStays
           /\ \A m \in msgs' : m.type = "prepare" => m \in msgs
<1> DEFINE Goal == /\ (\E e \in Effects : Armed(e)) \/ PendingStays
                   /\ \A m \in msgs' : m.type = "prepare" => m \in msgs
<1>1. /\ otState \in [Effects -> OtStates] /\ \A e \in Effects : CoordinatorKnowsOf(e)
      /\ \A m \in msgs : MessageMeans(m)
  BY DEF Inv, TypeOK, OtTypeOK, CoordinatorKnows, MessagesMean
<1>2. ASSUME NEW e \in Effects, NEW w \in Writes, OtPrepare(e, w)
      PROVE  Goal
  <2>1. /\ otState[e] = "none" /\ AlignmentAdmits(e) /\ Msg("prepare", e, 0, "none") \in msgs
        /\ otState' = IF Written(w) THEN [otState EXCEPT ![e] = "armed"] ELSE otState
        /\ \A m \in msgs' : m \in msgs \/ m = Msg("receipt", e, 0, "none")
    BY <1>2 DEF OtPrepare, PrepareAdmitted
  <2>2. PendingIn(otState) = {}
    <3>1. e \notin PendingIn(otState)
      BY <2>1 DEF PendingIn, PendingStates
    <3>2. ~CommitReadyFor(e)
      BY <3>1 DEF CommitReadyFor
    <3>3. QED
      BY <2>1, <3>2, AlignedMeans DEF AlignmentAdmits
  <2>3. gwState[e] # "none"
    BY <2>1 DEF PreparedAfterIntent, Msg
  <2>4. QED
    BY <2>1, <2>2, <2>3 DEF Armed, PendingStays, Msg
<1>3. ASSUME NEW e \in Effects, NEW w \in Writes, OtAccept(e, w)
      PROVE  Goal
  <2>1. /\ otState[e] = "armed" /\ AlignmentAdmits(e) /\ Msg("commit", e, 0, "none") \in msgs
        /\ otState' = IF Written(w) THEN [otState EXCEPT ![e] = "accepted"] ELSE otState
        /\ msgs' = msgs
    BY <1>3 DEF OtAccept, CommitAdmitted
  <2>2. gwCommit[e] # "none"
    BY <1>1, <2>1 DEF MessageMeans, Msg
  <2>3. plant = pre[e]
    <3>1. e \in PendingIn(otState)
      BY <2>1 DEF PendingIn, PendingStates
    <3>2. CommitReadyFor(e)
      BY <2>1, <3>1, AlignedMeans DEF AlignmentAdmits
    <3>3. QED
      BY <3>2, AlignedMeans DEF CommitReadyFor
  <2>4. QED
    BY <1>1, <2>1, <2>2, <2>3 DEF PendingStays
<1>4. ASSUME NEW e \in Effects, NEW w \in Writes, NEW d \in {"applied", "rejected", "unknown"},
             otWork.effect = e, FinishCommit(e, d, w)
      PROVE  Goal
  <2>1. otState[e] = "accepted"
    BY <1>1, <1>4 DEF CoordinatorKnowsOf
  <2>2. /\ otState' = IF Written(w) THEN [otState EXCEPT ![e] = d] ELSE otState
        /\ \A m \in msgs' : m \in msgs \/ m = Msg("outcome", e, 0, d)
    BY <1>4 DEF FinishCommit
  <2>3. QED
    BY <1>1, <2>1, <2>2 DEF PendingStays, Msg
<1>5. ASSUME NEW e \in Effects, NEW w \in Writes, PlcRefuse(e, w) \/ PlcFail(e, w)
      PROVE  Goal
  BY <1>4, <1>5 DEF PlcRefuse, PlcFail, Work
<1>6. ASSUME NEW e \in Effects, NEW w \in Writes, NEW d \in {"applied", "rejected", "unknown"},
             PlcConclude(e, d, w)
      PROVE  Goal
  BY <1>4, <1>6 DEF PlcConclude, Work
<1>7. ASSUME NEW e \in Effects, NEW w \in Writes, NEW n \in 1..MaxAttempts, OtAnswer(e, n, w)
      PROVE  Goal
  <2>1. /\ Msg("query", e, n, "none") \in msgs /\ otState[e] # "none"
        /\ otState' = IF Written(w) THEN [otState EXCEPT ![e] = AnswerFor(e)] ELSE otState
        /\ \A m \in msgs' : m \in msgs \/ m = Msg("answer", e, n, AnswerFor(e))
    BY <1>7 DEF OtAnswer, QueryAdmitted, StateAfterAnswer
  <2>2. gwCommit[e] # "none"
    BY <1>1, <2>1 DEF MessageMeans, Msg
  <2>3. /\ otState[e] \in {"armed", "not_dispatched"} => AnswerFor(e) = "not_dispatched"
        /\ otState[e] \in {"accepted", "unknown"} => AnswerFor(e) = "unknown"
        /\ otState[e] \in {"applied", "rejected"} => AnswerFor(e) = otState[e]
    BY DEF AnswerFor
  <2>4. otState[e] \in {"armed", "not_dispatched", "accepted", "unknown", "applied", "rejected"}
    BY <1>1, <2>1 DEF OtStates, PendingStates, TerminalStates
  <2>5. PendingStays
    BY <1>1, <2>1, <2>2, <2>3, <2>4 DEF PendingStays
  <2>6. QED
    BY <2>1, <2>5 DEF Msg
<1>8. ASSUME NEW e \in Effects, OtRepeatPrepare(e) \/ OtRepeatCommit(e) \/ PlcDispatch(e)
      PROVE  Goal
  <2>1. /\ otState' = otState
        /\ \A m \in msgs' : \/ m \in msgs \/ m = Msg("receipt", e, 0, "none")
                            \/ m = Msg("outcome", e, 0, otState[e])
                            \/ m = Msg("apply", e, otPlant, "none")
    BY <1>8 DEF OtRepeatPrepare, OtRepeatCommit, PlcDispatch
  <2>2. QED
    BY <2>1 DEF PendingStays, Msg
<1>9. ASSUME NEW e \in Effects, NEW n \in 1..MaxAttempts, OtRepeatAnswer(e, n)
      PROVE  Goal
  <2>1. PICK d : otState' = otState /\ msgs' = msgs \cup {Msg("answer", e, n, d)}
    BY <1>9 DEF OtRepeatAnswer
  <2>2. QED
    BY <2>1 DEF PendingStays, Msg
<1>10. CASE OtRefresh \/ OtStop \/ OtRestart
  BY <1>10 DEF OtRefresh, OtStop, OtRestart, PendingStays
<1>11. ASSUME NEW e \in Effects, NEW w \in Writes, OtWriting(e, w) PROVE Goal
  BY <1>2, <1>3, <1>5, <1>6, <1>7, <1>11 DEF OtWriting
<1>12. QED
  BY <1>8, <1>9, <1>10, <1>11 DEF CoordinatorStep, OtNext

LEMMA InitRec == Init => RecInv
<1>1. SUFFICES ASSUME Init PROVE RecInv
  OBVIOUS
<1>2. /\ plant = [version |-> 0, content |-> Baseline] /\ msgs = {}
      /\ \A e \in Effects : /\ pre[e] = plant /\ applications[e] = 0
                            /\ otState[e] = "none" /\ gwState[e] = "none"
  BY <1>1 DEF Init, BaseInit, PlantInit, OtInit, GwInit
<1>3. TakenChain
  BY <1>2 DEF TakenChain
<1>4. \A e \in Effects : ObservedBefore(e) /\ PlantWhere(e)
  BY <1>2 DEF ObservedBefore, PlantWhere
<1>5. OnePending /\ OneOpen /\ PreparedAfterIntent
  BY <1>2 DEF OnePending, OneOpen, PreparedAfterIntent, PendingIn, PendingAtGateway,
              PendingStates, GwOpen
<1>6. QED
  BY <1>3, <1>4, <1>5 DEF RecInv

LEMMA GatewayStepRec ==
    ASSUME Inv, RecInv, GatewayStep
    PROVE  RecInv'
<1>1. UNCHANGED <<plant, applications, otState>>
  BY DEF GatewayStep, plantVars, otVars
<1>2. /\ TakenChain /\ \A e \in Effects : ObservedBefore(e) /\ PlantWhere(e)
      /\ OnePending /\ OneOpen /\ PreparedAfterIntent
  BY DEF RecInv
<1>3. /\ gwState \in [Effects -> {"none"} \cup GwOpen \cup GwClosed]
      /\ pre \in [Effects -> PlantStates] /\ msgs' \subseteq Messages
  BY GatewayStepType DEF Inv, TypeOK, BaseTypeOK, GwTypeOK
<1>4. OnePending'
  BY <1>1, <1>2 DEF OnePending, PendingIn
<1>5. ASSUME NEW e \in Effects, Opened(e) PROVE RecInv'
  <2>1. otState[e] = "none"
    BY <1>2, <1>5 DEF Opened, PreparedAfterIntent
  <2>2. applications[e] # 1
    BY <2>1, AppliedIsAccepted
  <2>3. /\ pre'[e] = plant /\ gwState'[e] = "received"
        /\ \A f \in Effects \ {e} : /\ pre'[f] = pre[f] /\ gwState'[f] = gwState[f]
                                    /\ Post(f)' = Post(f)
    BY <1>3, <1>5 DEF Opened, Post
  <2>4. \A f \in Effects : gwState[f] \notin GwOpen
    BY <1>5 DEF Opened, PendingAtGateway
  <2>5. TakenChain'
    BY <1>1, <1>2, <2>2, <2>3 DEF TakenChain
  <2>6. ASSUME NEW f \in Effects PROVE ObservedBefore(f)' /\ PlantWhere(f)'
    <3>1. CASE f = e
      <4>1. plant.version <= plant.version
        BY RecoveryTypes
      <4>2. ObservedBefore(e)'
        BY <1>1, <2>3, <4>1 DEF ObservedBefore
      <4>3. PlantWhere(e)'
        BY <1>1, <2>1, <2>3 DEF PlantWhere
      <4>4. QED
        BY <3>1, <4>2, <4>3
    <3>2. CASE f # e
      BY <1>1, <1>2, <2>3, <3>2 DEF ObservedBefore, PlantWhere, Orphan
    <3>3. QED
      BY <3>1, <3>2
  <2>7. OneOpen'
    BY <2>3, <2>4 DEF OneOpen, PendingAtGateway
  <2>8. PreparedAfterIntent'
    <3>1. \A f \in Effects : gwState[f] # "none" => gwState'[f] # "none"
      BY <2>3
    <3>2. \A m \in msgs' : m.effect \in Effects
      BY <1>3 DEF Messages
    <3>3. \A m \in msgs' : m.type = "prepare" => gwState'[m.effect] # "none"
      BY <1>2, <1>5, <2>3, <3>1, <3>2 DEF Opened, PreparedAfterIntent
    <3>4. QED
      BY <1>1, <1>2, <3>1, <3>3 DEF PreparedAfterIntent
  <2>9. QED
    BY <1>4, <2>5, <2>6, <2>7, <2>8 DEF RecInv
<1>6. CASE OpenStays
  <2>1. /\ pre' = pre /\ \A f \in Effects : Post(f)' = Post(f)
        /\ \A f \in Effects : \/ gwState'[f] = gwState[f]
                              \/ gwState[f] \in GwOpen /\ gwState'[f] # "none"
    BY <1>6 DEF OpenStays, Post
  <2>2. TakenChain'
    BY <1>1, <1>2, <2>1 DEF TakenChain
  <2>3. ASSUME NEW f \in Effects PROVE ObservedBefore(f)' /\ PlantWhere(f)'
    <3>1. Orphan(f) => Orphan(f)'
      BY <1>1, <2>1 DEF Orphan, GwOpen
    <3>2. QED
      BY <1>1, <1>2, <2>1, <3>1 DEF ObservedBefore, PlantWhere
  <2>4. OneOpen'
    <3>1. PendingAtGateway' \subseteq PendingAtGateway
      BY <2>1 DEF PendingAtGateway
    <3>2. QED
      BY <1>2, <3>1 DEF OneOpen
  <2>5. PreparedAfterIntent'
    <3>1. \A f \in Effects : gwState[f] # "none" => gwState'[f] # "none"
      BY <2>1
    <3>2. \A m \in msgs' : m.effect \in Effects
      BY <1>3 DEF Messages
    <3>3. \A m \in msgs' : m.type = "prepare" => gwState'[m.effect] # "none"
      BY <1>2, <1>6, <3>1, <3>2 DEF OpenStays, PreparedAfterIntent
    <3>4. QED
      BY <1>1, <1>2, <3>1, <3>3 DEF PreparedAfterIntent
  <2>6. QED
    BY <1>4, <2>2, <2>3, <2>4, <2>5 DEF RecInv
<1>7. QED
  BY <1>5, <1>6, GatewaySummary

LEMMA CoordinatorStepRec ==
    ASSUME Inv, RecInv, CoordinatorStep
    PROVE  RecInv'
<1>1. /\ UNCHANGED <<plant, applications, pre, gwState>>
      /\ \A f \in Effects : Post(f)' = Post(f)
  BY DEF CoordinatorStep, plantVars, gwVars, Post
<1>2. /\ TakenChain /\ \A e \in Effects : ObservedBefore(e) /\ PlantWhere(e)
      /\ OnePending /\ OneOpen /\ PreparedAfterIntent
  BY DEF RecInv
<1>3. otState \in [Effects -> OtStates]
  BY RecoveryTypes
<1>4. TakenChain' /\ OneOpen' /\ \A e \in Effects : ObservedBefore(e)'
  BY <1>1, <1>2 DEF TakenChain, OneOpen, PendingAtGateway, ObservedBefore
<1>5. ASSUME NEW e \in Effects, Armed(e)
      PROVE  /\ OnePending' /\ \A f \in Effects : PlantWhere(f)'
             /\ \A f \in Effects : otState'[f] # "none" => gwState[f] # "none"
  <2>1. /\ otState[e] = "none" /\ otState'[e] = "armed" /\ gwState[e] # "none"
        /\ \A f \in Effects \ {e} : otState'[f] = otState[f]
        /\ \A f \in Effects : otState[f] \notin PendingStates
    BY <1>3, <1>5 DEF Armed, PendingIn
  <2>2. OnePending'
    BY <2>1 DEF OnePending, PendingIn
  <2>3. \A f \in Effects \ {e} : PlantWhere(f)'
    BY <1>1, <1>2, <2>1 DEF PlantWhere, Orphan
  <2>4. PlantWhere(e)'
    <3>1. gwState[e] \in GwOpen \/ gwState[e] = "not_dispatched"
      <4>1. GatewayKnowsOf(e) /\ gwState[e] \in {"none"} \cup GwOpen \cup GwClosed
        BY DEF Inv, GatewayKnows, TypeOK, GwTypeOK
      <4>2. QED
        BY <2>1, <4>1 DEF GatewayKnowsOf, GwOpen, GwClosed
    <3>2. CASE gwState[e] \in GwOpen
      BY <1>1, <1>2, <2>1, <3>2 DEF PlantWhere
    <3>3. CASE gwState[e] = "not_dispatched"
      BY <1>1, <2>1, <3>3 DEF PlantWhere, Orphan, GwOpen
    <3>4. QED
      BY <3>1, <3>2, <3>3
  <2>5. QED
    BY <1>2, <2>1, <2>2, <2>3, <2>4 DEF PreparedAfterIntent
<1>6. ASSUME PendingStays
      PROVE  /\ OnePending' /\ \A f \in Effects : PlantWhere(f)'
             /\ \A f \in Effects : otState'[f] # "none" => gwState[f] # "none"
  <2>1. PendingIn(otState') \subseteq PendingIn(otState)
    BY <1>6 DEF PendingStays, PendingIn, PendingStates
  <2>2. OnePending'
    BY <1>2, <2>1 DEF OnePending
  <2>3. ASSUME NEW f \in Effects PROVE PlantWhere(f)'
    <3>1. CASE otState'[f] = otState[f]
      BY <1>1, <1>2, <3>1 DEF PlantWhere, Orphan
    <3>2. CASE otState'[f] # otState[f]
      <4>1. /\ otState[f] \in {"armed", "accepted"} /\ otState'[f] \notin {"none", "armed"}
            /\ otState'[f] \in {"accepted", "unknown"} =>
                  otState[f] = "accepted" \/ plant = pre[f]
        BY <1>6, <3>2 DEF PendingStays
      <4>2. otState[f] = "armed" => applications[f] # 1
        BY AppliedIsAccepted
      <4>3. otState'[f] \in {"accepted", "unknown"} =>
               plant = IF applications[f] = 1 THEN Post(f) ELSE pre[f]
        BY <1>2, <4>1, <4>2 DEF PlantWhere
      <4>4. QED
        BY <1>1, <4>1, <4>3 DEF PlantWhere
    <3>3. QED
      BY <3>1, <3>2
  <2>4. QED
    BY <1>2, <1>6, <2>2, <2>3 DEF PreparedAfterIntent, PendingStays
<1>7. PreparedAfterIntent'
  BY <1>1, <1>2, <1>5, <1>6, CoordinatorSummary DEF PreparedAfterIntent
<1>8. QED
  BY <1>2, <1>4, <1>5, <1>6, <1>7, CoordinatorSummary DEF RecInv

Taken(e) ==
    /\ AdmitsCall(e) /\ CasHolds(e) /\ plant' = Post(e)
    /\ applications' = [applications EXCEPT ![e] = 1]

LEMMA PlantSummary ==
    ASSUME Inv, PlantStep
    PROVE  /\ (\E e \in Effects : Taken(e)) \/ UNCHANGED <<plant, applications>>
           /\ \A m \in msgs' : m.type = "prepare" => m \in msgs
           /\ UNCHANGED <<pre, otState, gwState>>
<1> DEFINE Goal == /\ (\E e \in Effects : Taken(e)) \/ UNCHANGED <<plant, applications>>
                   /\ \A m \in msgs' : m.type = "prepare" => m \in msgs
<1>1. ASSUME NEW e \in Effects, NEW w \in Writes, PlantApply(e, w) PROVE Goal
  <2>1. applications[e] = 0 /\ applications \in [Effects -> Nat]
    BY <1>1, ApplyMeans, RecoveryTypes DEF PlantApply
  <2>2. \A m \in msgs' : m.type = "prepare" => m \in msgs
    BY <1>1 DEF PlantApply, Msg
  <2>3. CASE Written(w)
    <3>1. /\ AdmitsCall(e) /\ CasHolds(e) /\ plant' = Post(e)
          /\ applications' = [applications EXCEPT ![e] = @ + 1]
      BY <1>1, <2>3 DEF PlantApply
    <3>2. applications' = [applications EXCEPT ![e] = 1]
      BY <2>1, <3>1
    <3>3. QED
      BY <2>2, <3>1, <3>2 DEF Taken
  <2>4. CASE ~Written(w)
    <3>1. plant' = plant /\ applications' = [applications EXCEPT ![e] = @ + 0]
      BY <1>1, <2>4 DEF PlantApply
    <3>2. applications' = applications
      BY <2>1, <3>1
    <3>3. QED
      BY <2>2, <3>1, <3>2
  <2>5. QED
    BY <2>3, <2>4
<1>2. ASSUME NEW e \in Effects, PlantReject(e) PROVE Goal
  BY <1>2 DEF PlantReject, Msg
<1>3. ASSUME PlantCrash \/ PlantRestart PROVE Goal
  BY <1>3 DEF PlantCrash, PlantRestart
<1>4. UNCHANGED <<pre, otState, gwState>>
  BY DEF PlantStep, otVars, gwVars
<1>5. Goal
  BY <1>1, <1>2, <1>3 DEF PlantStep, PlantNext
<1>6. QED
  BY <1>4, <1>5

LEMMA PlantStepRec ==
    ASSUME Inv, RecInv, PlantStep
    PROVE  RecInv'
<1>1. /\ UNCHANGED <<pre, otState, gwState>>
      /\ \A m \in msgs' : m.type = "prepare" => m \in msgs
      /\ \A f \in Effects : Post(f)' = Post(f)
  BY PlantSummary DEF Post
<1>2. /\ TakenChain /\ \A e \in Effects : ObservedBefore(e) /\ PlantWhere(e)
      /\ OnePending /\ OneOpen /\ PreparedAfterIntent
  BY DEF RecInv
<1>3. OnePending' /\ OneOpen' /\ PreparedAfterIntent'
  BY <1>1, <1>2 DEF OnePending, OneOpen, PreparedAfterIntent, PendingIn, PendingAtGateway
<1>4. CASE UNCHANGED <<plant, applications>>
  <2>1. TakenChain' /\ \A e \in Effects : ObservedBefore(e)' /\ PlantWhere(e)'
    BY <1>1, <1>2, <1>4 DEF TakenChain, ObservedBefore, PlantWhere, Orphan
  <2>2. QED
    BY <1>3, <2>1 DEF RecInv
<1>5. ASSUME NEW e \in Effects, Taken(e) PROVE RecInv'
  <2>1. /\ applications[e] = 0 /\ otState[e] \in {"accepted", "unknown"}
        /\ gwState[e] \in GwOpen
    BY <1>5, ApplyMeans DEF Taken
  <2>2. /\ plant = pre[e] /\ plant' = Post(e)
        /\ applications'[e] = 1
        /\ \A f \in Effects \ {e} : applications'[f] = applications[f]
    BY <1>5, RecoveryTypes DEF Taken, CasHolds
  <2>3. /\ plant.version \in Nat /\ plant'.version = plant.version + 1
        /\ \A f \in Effects : pre[f].version \in Nat /\ Post(f).version = pre[f].version + 1
    BY <2>2, RecoveryTypes
  <2>4. \A f \in Effects \ {e} : otState[f] \notin PendingStates /\ gwState[f] \notin GwOpen
    BY <1>2, <2>1 DEF OnePending, OneOpen, PendingIn, PendingAtGateway, PendingStates
  <2>5. TakenChain'
    <3>1. /\ plant'.version # 0 /\ applications'[e] = 1 /\ Post(e)' = plant'
      BY <1>1, <2>2, <2>3
    <3>2. ASSUME NEW f \in Effects, applications'[f] = 1
          PROVE  /\ pre[f].version < plant'.version
                 /\ pre[f].version # 0 =>
                       \E g \in Effects : applications'[g] = 1 /\ Post(g) = pre[f]
      <4>1. CASE f = e
        <5>1. pre[f].version < plant'.version
          BY <2>2, <2>3, <4>1
        <5>2. pre[f].version # 0 => \E g \in Effects : applications[g] = 1 /\ Post(g) = pre[f]
          BY <1>2, <2>2, <4>1 DEF TakenChain
        <5>3. QED
          BY <2>2, <5>1, <5>2
      <4>2. CASE f # e
        <5>1. /\ pre[f].version < plant.version
              /\ pre[f].version # 0 =>
                    \E g \in Effects : applications[g] = 1 /\ Post(g) = pre[f]
          BY <1>2, <2>2, <3>2, <4>2 DEF TakenChain
        <5>2. pre[f].version < plant'.version
          BY <2>3, <5>1
        <5>3. \A g \in Effects : applications[g] = 1 => applications'[g] = 1
          BY <2>2
        <5>4. QED
          BY <5>1, <5>2, <5>3
      <4>3. QED
        BY <4>1, <4>2
    <3>3. ASSUME NEW f \in Effects, NEW g \in Effects, applications'[f] = 1,
                 applications'[g] = 1, pre[f].version = pre[g].version
          PROVE  f = g
      <4>1. \A h \in Effects \ {e} : applications'[h] = 1 => pre[h].version # pre[e].version
        <5>1. \A h \in Effects \ {e} : applications'[h] = 1 => pre[h].version < plant.version
          BY <1>2, <2>2 DEF TakenChain
        <5>2. QED
          BY <2>2, <2>3, <5>1
      <4>2. QED
        BY <1>2, <2>2, <3>3, <4>1 DEF TakenChain
    <3>4. QED
      BY <1>1, <3>1, <3>2, <3>3 DEF TakenChain
  <2>6. ASSUME NEW f \in Effects PROVE ObservedBefore(f)' /\ PlantWhere(f)'
    <3>1. ObservedBefore(f)'
      <4>1. pre[f].version <= plant.version
        BY <1>2 DEF ObservedBefore
      <4>2. pre[f].version < plant'.version
        BY <2>3, <4>1
      <4>3. pre[f].version <= plant'.version /\ pre[f].version # plant'.version
        BY <2>3, <4>2
      <4>4. QED
        BY <1>1, <4>3 DEF ObservedBefore
    <3>2. CASE f = e
      <4>1. PlantWhere(e)'
        BY <1>1, <2>1, <2>2 DEF PlantWhere
      <4>2. QED
        BY <3>1, <3>2, <4>1
    <3>3. CASE f # e
      <4>1. /\ otState[f] \notin {"armed", "accepted", "unknown"}
            /\ gwState[f] \notin GwOpen
        BY <2>4, <3>3 DEF PendingStates
      <4>2. PlantWhere(f)'
        BY <1>1, <4>1 DEF PlantWhere
      <4>3. QED
        BY <3>1, <4>2
    <3>4. QED
      BY <3>2, <3>3
  <2>7. QED
    BY <1>3, <2>5, <2>6 DEF RecInv
<1>6. QED
  BY <1>4, <1>5, PlantSummary

(***************************************************************************)
(* The effects that changed the plant form one chain, ending where the     *)
(* plant is, in every reachable state.                                     *)
(***************************************************************************)
THEOREM RecoveryInvariant == Spec => []RecInv
<1>1. Inv /\ RecInv /\ [Next]_vars => RecInv'
  <2>1. ASSUME Inv, RecInv, Next PROVE RecInv'
    BY <2>1, GatewayStepRec, CoordinatorStepRec, PlantStepRec DEF Next
  <2>2. ASSUME RecInv, UNCHANGED vars PROVE RecInv'
    BY <2>2 DEF vars, plantVars, otVars, gwVars, RecInv, TakenChain, ObservedBefore,
       PlantWhere, Orphan, OnePending, OneOpen, PreparedAfterIntent, PendingIn,
       PendingAtGateway, Post
  <2>3. QED
    BY <2>1, <2>2
<1>2. QED
  BY <1>1, InitRec, InvHolds, PTL DEF Spec

(***************************************************************************)
(* Where the plant is, as seen from the applied links of the journal.      *)
(***************************************************************************)
LEMMA AppliedLinks ==
    ASSUME Inv, RecInv
    PROVE  /\ ChainMatches(AppliedIn(otState))
           /\ \A e \in AppliedIn(otState) : applications[e] = 1
           /\ \A f \in Effects : applications[f] = 1 /\ Post(f) # plant
                                    => f \in AppliedIn(otState)
<1> DEFINE links == AppliedIn(otState)
<1>1. TakenChain /\ \A e \in Effects : PlantWhere(e)
  BY DEF RecInv
<1>2. \A e \in links : e \in Effects /\ applications[e] = 1
  BY DEF Inv, CoordinatorKnows, CoordinatorKnowsOf, AppliedIn
<1>3. ASSUME NEW f \in Effects, applications[f] = 1, Post(f) # plant PROVE f \in links
  <2>1. otState[f] \in {"accepted", "unknown", "applied"}
    BY <1>3, AppliedIsAccepted
  <2>2. otState[f] \notin {"accepted", "unknown"}
    BY <1>1, <1>3 DEF PlantWhere
  <2>3. QED
    BY <2>1, <2>2 DEF AppliedIn
<1>4. \A e, f \in links : pre[e].version = pre[f].version => e = f
  BY <1>1, <1>2 DEF TakenChain
<1>5. ASSUME NEW e \in links, pre[e].version # 0 PROVE \E f \in links : Post(f) = pre[e]
  <2>1. PICK f \in Effects : applications[f] = 1 /\ Post(f) = pre[e]
    BY <1>1, <1>2, <1>5 DEF TakenChain
  <2>2. pre[e].version < plant.version /\ pre[e].version \in Nat /\ plant.version \in Nat
    BY <1>1, <1>2, RecoveryTypes DEF TakenChain
  <2>3. Post(f) # plant
    BY <2>1, <2>2
  <2>4. QED
    BY <1>3, <2>1, <2>3
<1>6. QED
  BY <1>2, <1>3, <1>4, <1>5 DEF ChainMatches

\* The link that ends where the plant is, is the only latest one.
LEMMA LatestIsPlant ==
    ASSUME Inv, RecInv, NEW g \in AppliedIn(otState), Post(g) = plant
    PROVE  LatestOf(AppliedIn(otState)) = {g}
<1> DEFINE links == AppliedIn(otState)
<1>1. /\ TakenChain /\ \A e \in links : e \in Effects /\ applications[e] = 1
  BY AppliedLinks DEF RecInv, AppliedIn
<1>2. /\ plant.version \in Nat /\ plant.version = pre[g].version + 1
      /\ \A e \in links : pre[e].version \in Nat /\ pre[e].version < plant.version
  BY <1>1, RecoveryTypes DEF TakenChain
<1>3. \A e \in links : pre[e].version <= pre[g].version
  BY <1>2
<1>4. ASSUME NEW e \in LatestOf(links) PROVE e = g
  <2>1. e \in links /\ pre[g].version <= pre[e].version
    BY DEF LatestOf
  <2>2. pre[e].version = pre[g].version
    BY <1>2, <1>3, <2>1
  <2>3. QED
    BY <1>1, <2>1, <2>2 DEF TakenChain
<1>5. g \in LatestOf(links)
  BY <1>3 DEF LatestOf
<1>6. QED
  BY <1>4, <1>5

\* The last link where the state s comes from, s being the plant's or what it was before
\* the pending effect e.
LEMMA PendingAtItsPlace ==
    ASSUME Inv, RecInv, NEW e \in PendingIn(otState), ~PendingChainMatches(e, AppliedIn(otState))
    PROVE  Orphan(e) /\ pre[e].version < plant.version
<1> DEFINE links == AppliedIn(otState)
<1>1. /\ TakenChain /\ ObservedBefore(e) /\ PlantWhere(e) /\ OnePending
      /\ e \in Effects /\ otState[e] \in PendingStates /\ e \notin links
  BY DEF RecInv, PendingIn, AppliedIn, PendingStates
<1>2. /\ plant.version \in Nat /\ pre[e].version \in Nat /\ applications[e] \in {0, 1}
      /\ Post(e).version = pre[e].version + 1
      /\ \A f \in Effects : /\ pre[f].version \in Nat
                            /\ Post(f).version = pre[f].version + 1
  BY <1>1, RecoveryTypes
<1>3. ASSUME plant = pre[e], applications[e] = 0 PROVE FALSE
  <2>1. \A f \in Effects : applications[f] = 1 => f \in links
    <3>1. \A f \in Effects : f # e => otState[f] \notin PendingStates
      BY <1>1 DEF OnePending, PendingIn
    <3>2. QED
      BY <1>3, <3>1, AppliedIsAccepted DEF PendingStates, AppliedIn
  <2>2. CASE plant.version = 0
    <3>1. links = {}
      BY <1>1, <1>2, <2>2, AppliedLinks DEF TakenChain, AppliedIn
    <3>2. QED
      BY <1>3, <2>2, <3>1 DEF PendingChainMatches
  <2>3. CASE plant.version # 0
    <3>1. PICK g \in Effects : applications[g] = 1 /\ Post(g) = plant
      BY <1>1, <2>3 DEF TakenChain
    <3>2. g \in LatestOf(links)
      BY <2>1, <3>1, LatestIsPlant
    <3>3. links # {}
      BY <2>1, <3>1
    <3>4. QED
      BY <1>3, <3>1, <3>2, <3>3 DEF PendingChainMatches
  <2>4. QED
    BY <2>2, <2>3
<1>4. ASSUME plant = Post(e), applications[e] = 1 PROVE FALSE
  <2>1. \A f \in links : pre[f].version < pre[e].version
    <3>1. ASSUME NEW f \in links PROVE pre[f].version < pre[e].version
      <4>1. f \in Effects /\ applications[f] = 1 /\ f # e
        BY <1>1, AppliedLinks DEF AppliedIn
      <4>2. pre[f].version < plant.version /\ pre[f].version # pre[e].version
        BY <1>1, <1>4, <4>1 DEF TakenChain
      <4>3. QED
        BY <1>2, <1>4, <4>1, <4>2
    <3>2. QED
      BY <3>1
  <2>2. CASE pre[e].version = 0
    <3>1. links = {}
      BY <1>2, <2>1, <2>2 DEF AppliedIn
    <3>2. QED
      BY <2>2, <3>1 DEF PendingChainMatches
  <2>3. CASE pre[e].version # 0
    <3>1. PICK g \in Effects : applications[g] = 1 /\ Post(g) = pre[e]
      BY <1>1, <1>4, <2>3 DEF TakenChain
    <3>2. g \in links
      <4>1. Post(g) # plant
        BY <1>2, <1>4, <3>1
      <4>2. QED
        BY <3>1, <4>1, AppliedLinks
    <3>3. \A f \in links : pre[f].version <= pre[g].version
      <4>1. pre[e].version = pre[g].version + 1
        BY <1>2, <3>1
      <4>2. QED
        BY <1>2, <2>1, <4>1 DEF AppliedIn
    <3>4. g \in LatestOf(links) /\ links # {}
      BY <3>2, <3>3 DEF LatestOf
    <3>5. QED
      BY <3>1, <3>4 DEF PendingChainMatches
  <2>4. QED
    BY <2>2, <2>3
<1>5. otState[e] = "armed"
  <2>1. otState[e] \notin {"accepted", "unknown"}
    BY <1>1, <1>2, <1>3, <1>4 DEF PlantWhere
  <2>2. QED
    BY <1>1, <2>1 DEF PendingStates
<1>6. applications[e] = 0
  BY <1>1, <1>2, <1>5, AppliedIsAccepted
<1>7. plant # pre[e]
  BY <1>3, <1>6
<1>8. Orphan(e)
  BY <1>1, <1>5, <1>7 DEF PlantWhere
<1>9. pre[e].version < plant.version
  BY <1>1, <1>2, <1>7 DEF ObservedBefore
<1>10. QED
  BY <1>8, <1>9

LEMMA Explained ==
    ASSUME Inv, RecInv
    PROVE  RecoveryExplained
<1> DEFINE links == AppliedIn(otState)
           pending == PendingIn(otState)
<1>1. /\ TakenChain /\ OnePending /\ \A e \in Effects : ObservedBefore(e) /\ PlantWhere(e)
      /\ ChainMatches(links)
  BY AppliedLinks DEF RecInv
<1>2. ~\E e, f \in pending : e # f
  BY <1>1 DEF OnePending
<1>3. CASE \E e \in pending : ~PendingChainMatches(e, links)
  <2>1. Reason = "pending_chain_broken"
    BY <1>1, <1>2, <1>3 DEF Reason, RecoveryReason
  <2>2. PICK e \in pending : ~PendingChainMatches(e, links)
    BY <1>3
  <2>3. e \in Effects /\ pending = {e} /\ Orphan(e) /\ pre[e].version < plant.version
    BY <1>2, <2>2, PendingAtItsPlace DEF PendingIn
  <2>4. QED
    BY <2>1, <2>3 DEF RecoveryExplained, InconsistentReasons
<1>4. CASE (\A e \in pending : PendingChainMatches(e, links)) /\ pending # {}
  <2>1. PICK e \in pending : TRUE
    BY <1>4
  <2>2. pending = {e} /\ (CHOOSE x \in pending : TRUE) = e
    BY <1>2, <2>1
  <2>3. Reason = PendingReason(e, plant)
    BY <1>1, <1>2, <1>4, <2>2 DEF Reason, RecoveryReason
  <2>4. plant = pre[e] \/ plant = Post(e)
    <3>1. e \in Effects /\ otState[e] \in PendingStates /\ PlantWhere(e) /\ ObservedBefore(e)
      BY <1>1, <2>1 DEF PendingIn
    <3>2. CASE otState[e] \in {"accepted", "unknown"}
      BY <3>1, <3>2 DEF PlantWhere
    <3>3. CASE otState[e] = "armed" /\ plant # pre[e]
      <4>1. /\ applications[e] # 1
        BY <3>1, <3>3, AppliedIsAccepted
      <4>2. /\ plant.version \in Nat /\ pre[e].version \in Nat
            /\ \A f \in Effects : /\ pre[f].version \in Nat
                                  /\ Post(f).version = pre[f].version + 1
        BY <3>1, RecoveryTypes
      <4>3. pre[e].version < plant.version
        BY <3>1, <3>3, <4>2 DEF ObservedBefore
      <4>4. PICK g \in Effects : applications[g] = 1 /\ Post(g) = plant
        BY <1>1, <4>2, <4>3 DEF TakenChain
      <4>5. g \in links
        <5>1. \A f \in Effects : f # e => otState[f] \notin PendingStates
          BY <2>2 DEF PendingIn
        <5>2. g # e
          BY <4>1, <4>4
        <5>3. QED
          BY <4>4, <5>1, <5>2, AppliedIsAccepted DEF PendingStates, AppliedIn
      <4>6. LatestOf(links) = {g}
        BY <4>4, <4>5, LatestIsPlant
      <4>7. Post(g) = pre[e]
        BY <1>4, <2>1, <4>5, <4>6 DEF PendingChainMatches
      <4>8. QED
        BY <3>3, <4>4, <4>7
    <3>4. QED
      BY <3>1, <3>2, <3>3 DEF PendingStates
  <2>5. QED
    BY <2>3, <2>4 DEF PendingReason, RecoveryExplained, InconsistentReasons,
                      UnavailableReasons
<1>5. CASE pending = {}
  <2>1. Reason = SettledReason(links, plant)
    BY <1>1, <1>5 DEF Reason, RecoveryReason
  <2>2. \A f \in Effects : applications[f] = 1 => f \in links
    BY <1>5, AppliedIsAccepted DEF PendingIn, PendingStates, AppliedIn
  <2>3. CASE links = {}
    <3>1. plant.version = 0
      BY <1>1, <2>2, <2>3 DEF TakenChain
    <3>2. QED
      BY <2>1, <2>3, <3>1 DEF SettledReason, RecoveryExplained, InconsistentReasons,
                              UnavailableReasons
  <2>4. CASE links # {}
    <3>1. plant.version # 0
      <4>1. PICK e \in links : TRUE
        BY <2>4
      <4>2. e \in Effects /\ pre[e].version \in Nat /\ pre[e].version < plant.version
        BY <1>1, <4>1, AppliedLinks, RecoveryTypes DEF TakenChain, AppliedIn
      <4>3. QED
        BY <4>2
    <3>2. PICK g \in Effects : applications[g] = 1 /\ Post(g) = plant
      BY <1>1, <3>1 DEF TakenChain
    <3>3. g \in links /\ LatestOf(links) = {g}
      BY <2>2, <3>2, LatestIsPlant
    <3>4. (CHOOSE e \in LatestOf(links) : TRUE) = g
      BY <3>3
    <3>5. plant.version \in Nat
      BY RecoveryTypes
    <3>6. Reason = "aligned_applied_chain"
      <4>1. /\ ~(plant.version < Post(g).version) /\ ~(plant.version > Post(g).version)
            /\ plant = Post(g)
        BY <3>2, <3>5
      <4>2. SettledReason(links, plant) = "aligned_applied_chain"
        BY <2>4, <3>4, <4>1, Zenon DEF SettledReason
      <4>3. QED
        BY <2>1, <4>2
    <3>7. QED
      BY <3>6 DEF RecoveryExplained, InconsistentReasons, UnavailableReasons
  <2>5. QED
    BY <2>3, <2>4
<1>6. QED
  BY <1>3, <1>4, <1>5

(***************************************************************************)
(* validate_coordination_recovery finds the plant where the journal says   *)
(* it may be, whatever crashed, for any number of effects; and only an     *)
(* orphan the plant has left behind makes the journal unusable.            *)
(***************************************************************************)
THEOREM RecoveryIsExplained == Spec => []RecoveryExplained
<1>1. Inv /\ RecInv => RecoveryExplained
  BY Explained
<1>2. QED
  BY <1>1, InvHolds, RecoveryInvariant, PTL

(***************************************************************************)
(* An orphan, or an effect that the coordinator holds as unknown, stays so *)
(* and no other effect changes the plant: nothing but a commit or a query  *)
(* moves a pending effect, and the gateway sends neither for an orphan.    *)
(***************************************************************************)
Held(e) ==
    /\ Blocking(e)'
    /\ \A f \in Effects \ {e} : applications'[f] = applications[f]
    /\ Orphan(e) => applications'[e] = applications[e]

LEMMA StaysBlocked ==
    ASSUME Inv, RecInv, Next, NEW e \in Effects, Blocking(e)
    PROVE  Held(e)
<1>1. otState[e] \in {"armed", "unknown"} /\ e \in PendingIn(otState)
  BY DEF Blocking, Orphan, PendingIn, PendingStates
<1>2. CASE GatewayStep
  <2>1. UNCHANGED <<applications, otState>>
    BY <1>2 DEF GatewayStep, plantVars, otVars
  <2>2. gwState \in [Effects -> {"none"} \cup GwOpen \cup GwClosed]
    BY DEF Inv, TypeOK, GwTypeOK
  <2>3. gwState[e] = "not_dispatched" => gwState'[e] = "not_dispatched"
    BY <1>2, <2>2, GatewaySummary DEF Opened, OpenStays, GwOpen
  <2>4. QED
    BY <2>1, <2>3 DEF Held, Blocking, Orphan
<1>3. CASE CoordinatorStep
  <2>1. UNCHANGED <<applications, gwState>> /\ PreparedAfterIntent
    BY <1>3 DEF CoordinatorStep, plantVars, gwVars, RecInv
  <2>2. PendingStays
    BY <1>1, <1>3, <2>1, CoordinatorSummary DEF Armed
  <2>3. Orphan(e) => gwCommit[e] = "none"
    BY DEF Inv, GatewayKnows, GatewayKnowsOf, Orphan
  <2>4. otState'[e] = otState[e]
    BY <2>2, <2>3 DEF PendingStays, Blocking, Orphan
  <2>5. QED
    BY <2>1, <2>4 DEF Held, Blocking, Orphan
<1>4. CASE PlantStep
  <2>1. UNCHANGED <<otState, gwState>>
    BY <1>4, PlantSummary
  <2>2. Blocking(e)'
    BY <2>1 DEF Blocking, Orphan
  <2>3. ASSUME NEW f \in Effects, Taken(f) PROVE Held(e)
    <3>1. otState[f] \in {"accepted", "unknown"}
      BY <2>3, ApplyMeans DEF Taken
    <3>2. f = e
      BY <1>1, <3>1 DEF RecInv, OnePending, PendingIn, PendingStates
    <3>3. \A g \in Effects \ {e} : applications'[g] = applications[g]
      BY <2>3, <3>2, RecoveryTypes DEF Taken
    <3>4. ~Orphan(e)
      BY <3>1, <3>2 DEF Orphan
    <3>5. QED
      BY <2>2, <3>3, <3>4 DEF Held
  <2>4. QED
    BY <1>4, <2>2, <2>3, PlantSummary DEF Held
<1>5. QED
  BY <1>2, <1>3, <1>4 DEF Next

(***************************************************************************)
(* Whatever is sent, asked or restarted, an orphan or an unknown effect is *)
(* never resolved and stops every other one.                               *)
(***************************************************************************)
THEOREM BlockedStaysBlocked == Spec => BlockedForGood
<1>1. Inv /\ RecInv /\ [Next]_vars =>
         [\A e \in Effects : Blocking(e) =>
             /\ Blocking(e)'
             /\ \A f \in Effects \ {e} : applications'[f] = applications[f]
             /\ Orphan(e) => applications'[e] = applications[e]]_vars
  BY StaysBlocked DEF Held
<1>2. QED
  BY <1>1, InvHolds, RecoveryInvariant, PTL DEF Spec, BlockedForGood

===============================================================================
