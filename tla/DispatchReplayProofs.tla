-------------------------- MODULE DispatchReplayProofs -------------------------
(***************************************************************************)
(* Proofs about DispatchReplay, for any sets of permits, envelopes,        *)
(* handlers and processes, any shared identifiers and any ledger limits,   *)
(* and about SegmentedLoop, for any actions and any numbers of executions, *)
(* observations and restarts.                                              *)
(***************************************************************************)
EXTENDS DispatchReplay, SegmentedLoop, FiniteSetTheorems, TLAPS

(***************************************************************************)
(* The inductive invariant.  One process serves, so a lock of that process *)
(* excludes every other handler; what a handler read is therefore still    *)
(* the file when it writes, and each ledger only grows by what was not in  *)
(* it.                                                                     *)
(***************************************************************************)
OneWriter == \A i, j \in running : i = j

Serving ==
    \A t \in Threads : pc[t] # "idle" => InstanceOf[t] \in running /\ job[t] \in Envelopes

Sections ==
    \A t, u \in Threads :
        \/ pc[t] = "transport_read" /\ pc[u] = "transport_read"
        \/ pc[t] \in DeviceSteps /\ pc[u] \in DeviceSteps
        => t = u

TransportReadCurrent ==
    \A t \in Threads :
        pc[t] = "transport_read" =>
            seen[t] = transport /\ ~KnownEnvelope(job[t], transport)

SemanticReadCurrent ==
    \A t \in Threads :
        pc[t] = "semantic_read" =>
            seen[t] = semantic /\ SemanticLoads /\ ~Replayed(t, semantic)

NoncesDistinct == \A d, e \in transport : NonceOf[d] = NonceOf[e] => d = e

PassedReserved == \A e \in Envelopes : passed[e] > 0 => e \in transport /\ passed[e] = 1

DispatchedReserved ==
    \A p \in Permits : dispatched[p] > 0 => MarksOf[p] \subseteq semantic

\* A permit granted shares no identifier with one that was dispatched.
GrantedApart ==
    \A t \in Threads :
        pc[t] = "granted" =>
            /\ MarksAsked(t) \subseteq semantic
            /\ \A p \in Permits : dispatched[p] > 0 => MarksOf[p] \cap MarksAsked(t) = {}

ReplayInv ==
    /\ TypeOK
    /\ OneWriter
    /\ Serving
    /\ Sections
    /\ TransportReadCurrent
    /\ SemanticReadCurrent
    /\ NoncesDistinct
    /\ PassedReserved
    /\ TransportStaysReadable
    /\ DispatchedReserved
    /\ GrantedApart
    /\ PermitDispatchedOnce

--------------------------------------------------------------------------------
LEMMA InitReplayInv == Init => ReplayInv
<1> SUFFICES ASSUME Init PROVE ReplayInv
  OBVIOUS
<1>1. TypeOK
  BY DEF Init, TypeOK, Steps
<1>2. OneWriter /\ Serving /\ TransportReadCurrent /\ SemanticReadCurrent
  BY DEF Init, OneWriter, Serving, TransportReadCurrent, SemanticReadCurrent
<1>3. Sections /\ NoncesDistinct
  BY DEF Init, Sections, DeviceSteps, NoncesDistinct
<1>4. PassedReserved /\ DispatchedReserved /\ GrantedApart /\ PermitDispatchedOnce
  BY DEF Init, PassedReserved, DispatchedReserved, GrantedApart, PermitDispatchedOnce
<1>5. TransportStaysReadable
  BY FS_EmptySet, ReplayAssumption DEF Init, TransportStaysReadable
<1>6. QED
  BY <1>1, <1>2, <1>3, <1>4, <1>5 DEF ReplayInv

(***************************************************************************)
(* A handler that answers without touching a ledger or the plant.          *)
(***************************************************************************)
LEMMA AnswerStep ==
    ASSUME ReplayInv, NEW t \in Threads, Answer(t),
           UNCHANGED <<transport, semantic, running, passed, dispatched>>
    PROVE  ReplayInv'
<1> USE DEF ReplayInv
<1>1. /\ pc' = [pc EXCEPT ![t] = "idle"]
      /\ job' = [job EXCEPT ![t] = NoEnvelope]
      /\ seen' = [seen EXCEPT ![t] = {}]
  BY DEF Answer, Goto
<1>2. TypeOK'
  BY <1>1 DEF TypeOK, Steps
<1>3. \A u \in Threads : u # t => pc'[u] = pc[u] /\ job'[u] = job[u] /\ seen'[u] = seen[u]
  BY <1>1 DEF TypeOK
<1>4. pc'[t] = "idle"
  BY <1>1 DEF TypeOK
<1>5. OneWriter' /\ Serving' /\ Sections'
  BY <1>3, <1>4 DEF OneWriter, Serving, Sections, DeviceSteps
<1>6. TransportReadCurrent' /\ SemanticReadCurrent'
  BY <1>3, <1>4 DEF TransportReadCurrent, SemanticReadCurrent, KnownEnvelope,
       Replayed, MarksAsked, SemanticLoads
<1>7. /\ NoncesDistinct' /\ PassedReserved' /\ TransportStaysReadable'
      /\ DispatchedReserved' /\ PermitDispatchedOnce'
  BY DEF NoncesDistinct, PassedReserved, TransportStaysReadable, DispatchedReserved,
         PermitDispatchedOnce
<1>8. GrantedApart'
  BY <1>3, <1>4 DEF GrantedApart, MarksAsked
<1>9. QED
  BY <1>2, <1>5, <1>6, <1>7, <1>8

LEMMA StartStep ==
    ASSUME ReplayInv, NEW i \in Instances, Start(i)
    PROVE  ReplayInv'
<1> USE DEF ReplayInv
<1>1. /\ running = {} /\ running' = {i}
      /\ UNCHANGED <<transport, semantic, pc, job, seen, passed, dispatched>>
  BY DEF Start, WriterLockFree
<1>2. TypeOK' /\ OneWriter' /\ Serving'
  BY <1>1 DEF TypeOK, OneWriter, Serving
<1>3. Sections' /\ TransportReadCurrent' /\ SemanticReadCurrent'
  BY <1>1 DEF Sections, TransportReadCurrent, SemanticReadCurrent, KnownEnvelope,
       Replayed, MarksAsked, SemanticLoads
<1>4. /\ NoncesDistinct' /\ PassedReserved' /\ TransportStaysReadable'
      /\ DispatchedReserved' /\ PermitDispatchedOnce' /\ GrantedApart'
  BY <1>1 DEF NoncesDistinct, PassedReserved, TransportStaysReadable,
       DispatchedReserved, PermitDispatchedOnce, GrantedApart, MarksAsked
<1>5. QED
  BY <1>2, <1>3, <1>4

LEMMA CrashStep ==
    ASSUME ReplayInv, NEW i \in Instances, Crash(i)
    PROVE  ReplayInv'
<1> USE DEF ReplayInv
<1>1. /\ running' = running \ {i}
      /\ pc' = [t \in Threads |-> IF InstanceOf[t] = i THEN "idle" ELSE pc[t]]
      /\ job' = [t \in Threads |-> IF InstanceOf[t] = i THEN NoEnvelope ELSE job[t]]
      /\ seen' = [t \in Threads |-> IF InstanceOf[t] = i THEN {} ELSE seen[t]]
      /\ UNCHANGED <<transport, semantic, passed, dispatched>>
  BY DEF Crash
<1>2. TypeOK'
  BY <1>1 DEF TypeOK, Steps
<1>3. \A u \in Threads : InstanceOf[u] # i =>
          pc'[u] = pc[u] /\ job'[u] = job[u] /\ seen'[u] = seen[u]
  BY <1>1
<1>4. \A u \in Threads : InstanceOf[u] = i => pc'[u] = "idle"
  BY <1>1
<1>5. OneWriter' /\ Serving' /\ Sections'
  BY <1>1, <1>3, <1>4 DEF OneWriter, Serving, Sections, DeviceSteps
<1>6. TransportReadCurrent' /\ SemanticReadCurrent'
  BY <1>1, <1>3, <1>4 DEF TransportReadCurrent, SemanticReadCurrent, KnownEnvelope,
       Replayed, MarksAsked, SemanticLoads
<1>7. /\ NoncesDistinct' /\ PassedReserved' /\ TransportStaysReadable'
      /\ DispatchedReserved' /\ PermitDispatchedOnce'
  BY <1>1 DEF NoncesDistinct, PassedReserved, TransportStaysReadable,
       DispatchedReserved, PermitDispatchedOnce
<1>8. GrantedApart'
  BY <1>1, <1>3, <1>4 DEF GrantedApart, MarksAsked
<1>9. QED
  BY <1>2, <1>5, <1>6, <1>7, <1>8

LEMMA ReceiveStep ==
    ASSUME ReplayInv, NEW t \in Threads, NEW e \in Envelopes, Receive(t, e)
    PROVE  ReplayInv'
<1> USE DEF ReplayInv
<1>1. /\ InstanceOf[t] \in running
      /\ job' = [job EXCEPT ![t] = e] /\ pc' = [pc EXCEPT ![t] = "received"]
      /\ UNCHANGED <<transport, semantic, running, seen, passed, dispatched>>
  BY DEF Receive, Goto
<1>2. TypeOK'
  BY <1>1 DEF TypeOK, Steps
<1>3. \A u \in Threads : u # t => pc'[u] = pc[u] /\ job'[u] = job[u] /\ seen'[u] = seen[u]
  BY <1>1 DEF TypeOK
<1>4. pc'[t] = "received" /\ job'[t] = e
  BY <1>1 DEF TypeOK
<1>5. OneWriter' /\ Serving' /\ Sections'
  BY <1>1, <1>3, <1>4 DEF OneWriter, Serving, Sections, DeviceSteps
<1>6. TransportReadCurrent' /\ SemanticReadCurrent'
  BY <1>1, <1>3, <1>4 DEF TransportReadCurrent, SemanticReadCurrent, KnownEnvelope,
       Replayed, MarksAsked, SemanticLoads
<1>7. /\ NoncesDistinct' /\ PassedReserved' /\ TransportStaysReadable'
      /\ DispatchedReserved' /\ PermitDispatchedOnce'
  BY <1>1 DEF NoncesDistinct, PassedReserved, TransportStaysReadable,
       DispatchedReserved, PermitDispatchedOnce
<1>8. GrantedApart'
  BY <1>1, <1>3, <1>4 DEF GrantedApart, MarksAsked
<1>9. QED
  BY <1>2, <1>5, <1>6, <1>7, <1>8

(***************************************************************************)
(* With one process serving, a lock that is free in a handler's process is *)
(* held by no handler at all.                                              *)
(***************************************************************************)
LEMMA LockIsGlobal ==
    ASSUME ReplayInv, NEW t \in Threads, pc[t] # "idle", NEW steps, "idle" \notin steps,
           Unlocked(t, steps)
    PROVE  \A u \in Threads : pc[u] \notin steps
<1> SUFFICES ASSUME NEW u \in Threads, pc[u] \in steps PROVE FALSE
  OBVIOUS
<1>1. InstanceOf[u] \in running /\ InstanceOf[t] \in running
  BY DEF ReplayInv, Serving
<1>2. QED
  BY <1>1 DEF ReplayInv, OneWriter, Unlocked

LEMMA ReadTransportStep ==
    ASSUME ReplayInv, NEW t \in Threads, ReadTransport(t)
    PROVE  ReplayInv'
<1>0. \A u \in Threads : pc[u] \notin {"transport_read"}
  BY LockIsGlobal DEF ReadTransport
<1> USE DEF ReplayInv
<1>1. /\ pc[t] = "received" /\ ~KnownEnvelope(job[t], transport)
      /\ seen' = [seen EXCEPT ![t] = transport]
      /\ pc' = [pc EXCEPT ![t] = "transport_read"]
      /\ UNCHANGED <<transport, semantic, running, job, passed, dispatched>>
  BY DEF ReadTransport, Goto
<1>2. TypeOK'
  BY <1>1 DEF TypeOK, Steps
<1>3. \A u \in Threads : u # t => pc'[u] = pc[u] /\ seen'[u] = seen[u]
  BY <1>1 DEF TypeOK
<1>4. pc'[t] = "transport_read" /\ seen'[t] = transport
  BY <1>1 DEF TypeOK
<1>5. OneWriter' /\ Serving' /\ Sections'
  BY <1>0, <1>1, <1>3, <1>4 DEF OneWriter, Serving, Sections, DeviceSteps
<1>6. TransportReadCurrent' /\ SemanticReadCurrent'
  BY <1>1, <1>3, <1>4 DEF TransportReadCurrent, SemanticReadCurrent, KnownEnvelope,
       Replayed, MarksAsked, SemanticLoads
<1>7. /\ NoncesDistinct' /\ PassedReserved' /\ TransportStaysReadable'
      /\ DispatchedReserved' /\ PermitDispatchedOnce'
  BY <1>1 DEF NoncesDistinct, PassedReserved, TransportStaysReadable,
       DispatchedReserved, PermitDispatchedOnce
<1>8. GrantedApart'
  BY <1>1, <1>3, <1>4 DEF GrantedApart, MarksAsked
<1>9. QED
  BY <1>2, <1>5, <1>6, <1>7, <1>8

(***************************************************************************)
(* The nonce that is added is in no other envelope of the ledger, and no   *)
(* other handler is between its read and its write.                        *)
(***************************************************************************)
LEMMA WriteTransportStep ==
    ASSUME ReplayInv, NEW t \in Threads, NEW w \in Writes, WriteTransport(t, w)
    PROVE  ReplayInv'
<1> USE DEF ReplayInv
<1>1. /\ pc[t] = "transport_read" /\ seen[t] = transport /\ job[t] \in Envelopes
      /\ ~KnownEnvelope(job[t], transport)
  BY DEF WriteTransport, TransportReadCurrent, Serving
<1>2. transport' = transport \/ transport' = transport \cup {job[t]}
  BY <1>1 DEF WriteTransport
<1>3. \/ /\ transport' = transport \cup {job[t]}
         /\ passed' = [passed EXCEPT ![job[t]] = @ + 1]
         /\ pc' = [pc EXCEPT ![t] = "reserved"]
         /\ UNCHANGED job
      \/ /\ pc' = [pc EXCEPT ![t] = "idle"] /\ UNCHANGED passed
         /\ job' = [job EXCEPT ![t] = NoEnvelope]
  BY <1>1 DEF WriteTransport, Answer, Goto
<1>4. /\ seen' = [seen EXCEPT ![t] = {}]
      /\ UNCHANGED <<semantic, running, dispatched>>
  BY DEF WriteTransport, Answer
<1>5. TypeOK'
  BY <1>1, <1>2, <1>3, <1>4 DEF TypeOK, Steps
<1>6. \A u \in Threads : u # t => pc'[u] = pc[u] /\ job'[u] = job[u] /\ seen'[u] = seen[u]
  BY <1>3, <1>4 DEF TypeOK
<1>7. pc'[t] \in {"reserved", "idle"} /\ (pc'[t] = "reserved" => job'[t] = job[t])
  BY <1>3 DEF TypeOK
<1>8. OneWriter' /\ Serving' /\ Sections'
  BY <1>1, <1>4, <1>6, <1>7 DEF OneWriter, Serving, Sections, DeviceSteps
<1>9. \A u \in Threads : pc'[u] # "transport_read"
  BY <1>1, <1>6, <1>7 DEF Sections
<1>10. TransportReadCurrent' /\ SemanticReadCurrent'
  BY <1>4, <1>6, <1>7, <1>9 DEF TransportReadCurrent, SemanticReadCurrent,
       Replayed, MarksAsked, SemanticLoads
<1>11. NoncesDistinct'
  BY <1>1, <1>2 DEF NoncesDistinct, KnownEnvelope
<1>12. PassedReserved'
  <2>1. passed[job[t]] = 0
    BY <1>1 DEF PassedReserved, KnownEnvelope, TypeOK
  <2>2. QED
    BY <1>1, <1>2, <1>3, <2>1 DEF PassedReserved, TypeOK
<1>13. TransportStaysReadable'
  BY <1>1 DEF WriteTransport, WithinCapacity, TransportStaysReadable
<1>14. DispatchedReserved' /\ PermitDispatchedOnce'
  BY <1>4 DEF DispatchedReserved, PermitDispatchedOnce
<1>15. GrantedApart'
  BY <1>4, <1>6, <1>7 DEF GrantedApart, MarksAsked
<1>16. QED
  BY <1>5, <1>8, <1>10, <1>11, <1>12, <1>13, <1>14, <1>15

LEMMA EnterDeviceStep ==
    ASSUME ReplayInv, NEW t \in Threads, EnterDevice(t)
    PROVE  ReplayInv'
<1>0. \A u \in Threads : pc[u] \notin DeviceSteps
  BY LockIsGlobal DEF EnterDevice, DeviceSteps
<1> USE DEF ReplayInv
<1>1. /\ pc[t] = "reserved" /\ pc' = [pc EXCEPT ![t] = "checked"]
      /\ UNCHANGED <<transport, semantic, running, job, seen, passed, dispatched>>
  BY DEF EnterDevice, Goto
<1>2. TypeOK'
  BY <1>1 DEF TypeOK, Steps
<1>3. \A u \in Threads : u # t => pc'[u] = pc[u]
  BY <1>1 DEF TypeOK
<1>4. pc'[t] = "checked"
  BY <1>1 DEF TypeOK
<1>5. OneWriter' /\ Serving' /\ Sections'
  BY <1>0, <1>1, <1>3, <1>4 DEF OneWriter, Serving, Sections, DeviceSteps
<1>6. TransportReadCurrent' /\ SemanticReadCurrent'
  BY <1>1, <1>3, <1>4 DEF TransportReadCurrent, SemanticReadCurrent, KnownEnvelope,
       Replayed, MarksAsked, SemanticLoads
<1>7. /\ NoncesDistinct' /\ PassedReserved' /\ TransportStaysReadable'
      /\ DispatchedReserved' /\ PermitDispatchedOnce'
  BY <1>1 DEF NoncesDistinct, PassedReserved, TransportStaysReadable,
       DispatchedReserved, PermitDispatchedOnce
<1>8. GrantedApart'
  BY <1>1, <1>3, <1>4 DEF GrantedApart, MarksAsked
<1>9. QED
  BY <1>2, <1>5, <1>6, <1>7, <1>8

LEMMA ReadSemanticStep ==
    ASSUME ReplayInv, NEW t \in Threads, ReadSemantic(t)
    PROVE  ReplayInv'
<1> USE DEF ReplayInv
<1>1. /\ pc[t] = "checked" /\ SemanticLoads /\ ~Replayed(t, semantic)
      /\ seen' = [seen EXCEPT ![t] = semantic]
      /\ pc' = [pc EXCEPT ![t] = "semantic_read"]
      /\ UNCHANGED <<transport, semantic, running, job, passed, dispatched>>
  BY DEF ReadSemantic, Goto
<1>2. TypeOK'
  BY <1>1 DEF TypeOK, Steps
<1>3. \A u \in Threads : u # t => pc'[u] = pc[u] /\ seen'[u] = seen[u]
  BY <1>1 DEF TypeOK
<1>4. pc'[t] = "semantic_read" /\ seen'[t] = semantic
  BY <1>1 DEF TypeOK
<1>5. OneWriter' /\ Serving' /\ Sections'
  BY <1>1, <1>3, <1>4 DEF OneWriter, Serving, Sections, DeviceSteps
<1>6. TransportReadCurrent' /\ SemanticReadCurrent'
  BY <1>1, <1>3, <1>4 DEF TransportReadCurrent, SemanticReadCurrent, KnownEnvelope,
       Replayed, MarksAsked, SemanticLoads
<1>7. /\ NoncesDistinct' /\ PassedReserved' /\ TransportStaysReadable'
      /\ DispatchedReserved' /\ PermitDispatchedOnce'
  BY <1>1 DEF NoncesDistinct, PassedReserved, TransportStaysReadable,
       DispatchedReserved, PermitDispatchedOnce
<1>8. GrantedApart'
  BY <1>1, <1>3, <1>4 DEF GrantedApart, MarksAsked
<1>9. QED
  BY <1>2, <1>5, <1>6, <1>7, <1>8

LEMMA WriteSemanticStep ==
    ASSUME ReplayInv, NEW t \in Threads, NEW w \in Writes, WriteSemantic(t, w)
    PROVE  ReplayInv'
<1> USE DEF ReplayInv
<1>1. /\ pc[t] = "semantic_read" /\ seen[t] = semantic /\ job[t] \in Envelopes
      /\ MarksAsked(t) \cap semantic = {}
  BY DEF WriteSemantic, SemanticReadCurrent, Serving, Replayed
<1>2. MarksAsked(t) \subseteq Marks
  BY <1>1, ReplayAssumption DEF MarksAsked
<1>3. semantic' = semantic \/ semantic' = semantic \cup MarksAsked(t)
  BY <1>1 DEF WriteSemantic
<1>4. \/ /\ semantic' = semantic \cup MarksAsked(t)
         /\ pc' = [pc EXCEPT ![t] = "granted"] /\ UNCHANGED job
      \/ /\ pc' = [pc EXCEPT ![t] = "idle"]
         /\ job' = [job EXCEPT ![t] = NoEnvelope]
  BY <1>1 DEF WriteSemantic, Answer, Goto
<1>5. /\ seen' = [seen EXCEPT ![t] = {}]
      /\ UNCHANGED <<transport, running, passed, dispatched>>
  BY DEF WriteSemantic, Answer
<1>6. TypeOK'
  BY <1>2, <1>3, <1>4, <1>5 DEF TypeOK, Steps
<1>7. \A u \in Threads : u # t => pc'[u] = pc[u] /\ job'[u] = job[u] /\ seen'[u] = seen[u]
  BY <1>4, <1>5 DEF TypeOK
<1>8. /\ pc'[t] \in {"granted", "idle"}
      /\ pc'[t] = "granted" => job'[t] = job[t] /\ semantic' = semantic \cup MarksAsked(t)
  BY <1>4 DEF TypeOK
<1>9. OneWriter' /\ Serving' /\ Sections'
  BY <1>1, <1>5, <1>7, <1>8 DEF OneWriter, Serving, Sections, DeviceSteps
<1>10. \A u \in Threads : u # t => pc[u] \notin DeviceSteps
  BY <1>1 DEF Sections, DeviceSteps
<1>11. TransportReadCurrent'
  BY <1>5, <1>7, <1>8 DEF TransportReadCurrent, KnownEnvelope
<1>12. SemanticReadCurrent'
  BY <1>7, <1>8, <1>10 DEF SemanticReadCurrent, DeviceSteps
<1>13. NoncesDistinct' /\ PassedReserved' /\ TransportStaysReadable' /\ PermitDispatchedOnce'
  BY <1>5 DEF NoncesDistinct, PassedReserved, TransportStaysReadable, PermitDispatchedOnce
<1>14. DispatchedReserved'
  BY <1>3, <1>5 DEF DispatchedReserved
<1>15. GrantedApart'
  <2> SUFFICES ASSUME NEW u \in Threads, pc'[u] = "granted"
      PROVE  /\ MarksAsked(u)' \subseteq semantic'
             /\ \A p \in Permits : dispatched'[p] > 0 => MarksOf[p] \cap MarksAsked(u)' = {}
    BY DEF GrantedApart
  <2>1. u = t
    BY <1>7, <1>10 DEF DeviceSteps
  <2>2. MarksAsked(u)' = MarksAsked(t)
    BY <1>8, <2>1 DEF MarksAsked
  <2>3. QED
    BY <1>1, <1>5, <1>8, <2>1, <2>2 DEF DispatchedReserved
<1>16. QED
  BY <1>6, <1>9, <1>11, <1>12, <1>13, <1>14, <1>15

(***************************************************************************)
(* A permit's identifiers are not empty, so one that was dispatched is not *)
(* granted again.                                                          *)
(***************************************************************************)
LEMMA DispatchStep ==
    ASSUME ReplayInv, NEW t \in Threads, Dispatch(t)
    PROVE  ReplayInv'
<1> USE DEF ReplayInv
<1> DEFINE q == PermitOf[job[t]]
<1>1. /\ pc[t] = "granted" /\ job[t] \in Envelopes
      /\ dispatched' = [dispatched EXCEPT ![q] = @ + 1]
      /\ pc' = [pc EXCEPT ![t] = "idle"]
      /\ job' = [job EXCEPT ![t] = NoEnvelope]
      /\ seen' = [seen EXCEPT ![t] = {}]
      /\ UNCHANGED <<transport, semantic, running, passed>>
  BY DEF Dispatch, Answer, Goto, Serving
<1>2. /\ q \in Permits /\ MarksOf[q] # {} /\ MarksAsked(t) = MarksOf[q]
      /\ MarksOf[q] \subseteq semantic
  BY <1>1, ReplayAssumption DEF MarksAsked, GrantedApart
<1>3. \A p \in Permits : dispatched[p] > 0 => MarksOf[p] \cap MarksOf[q] = {}
  BY <1>1, <1>2 DEF GrantedApart
<1>4. dispatched[q] = 0 /\ dispatched'[q] = 1
  <2>1. ~(dispatched[q] > 0)
    BY <1>2, <1>3
  <2>2. dispatched[q] \in Nat
    BY <1>2 DEF TypeOK
  <2>3. dispatched'[q] = dispatched[q] + 1
    BY <1>1, <1>2 DEF TypeOK
  <2>4. QED
    BY <2>1, <2>2, <2>3
<1>5. \A p \in Permits : p # q => dispatched'[p] = dispatched[p]
  BY <1>1 DEF TypeOK
<1>6. TypeOK'
  BY <1>1, <1>2 DEF TypeOK, Steps
<1>7. \A u \in Threads : u # t => pc'[u] = pc[u] /\ job'[u] = job[u] /\ seen'[u] = seen[u]
  BY <1>1 DEF TypeOK
<1>8. pc'[t] = "idle"
  BY <1>1 DEF TypeOK
<1>9. OneWriter' /\ Serving' /\ Sections'
  BY <1>1, <1>7, <1>8 DEF OneWriter, Serving, Sections, DeviceSteps
<1>10. TransportReadCurrent' /\ SemanticReadCurrent'
  BY <1>1, <1>7, <1>8 DEF TransportReadCurrent, SemanticReadCurrent, KnownEnvelope,
       Replayed, MarksAsked, SemanticLoads
<1>11. NoncesDistinct' /\ PassedReserved' /\ TransportStaysReadable'
  BY <1>1 DEF NoncesDistinct, PassedReserved, TransportStaysReadable
<1>12. DispatchedReserved'
  BY <1>1, <1>2, <1>5 DEF DispatchedReserved
<1>13. GrantedApart'
  <2>1. \A u \in Threads : u # t => pc[u] \notin DeviceSteps
    BY <1>1 DEF Sections, DeviceSteps
  <2>2. \A u \in Threads : pc'[u] # "granted"
    BY <1>7, <1>8, <2>1 DEF DeviceSteps
  <2>3. QED
    BY <2>2 DEF GrantedApart
<1>14. PermitDispatchedOnce'
  <2> SUFFICES ASSUME NEW p \in Permits, NEW r \in Permits,
                      dispatched'[p] > 0, dispatched'[r] > 0,
                      MarksOf[p] \cap MarksOf[r] # {}
      PROVE  p = r /\ dispatched'[p] = 1
    BY DEF PermitDispatchedOnce
  <2>1. CASE p = q /\ r = q
    BY <2>1, <1>4
  <2>2. CASE p = q /\ r # q
    BY <2>2, <1>3, <1>5
  <2>3. CASE p # q /\ r = q
    BY <2>3, <1>3, <1>5
  <2>4. CASE p # q /\ r # q
    BY <2>4, <1>5 DEF PermitDispatchedOnce
  <2>5. QED
    BY <2>1, <2>2, <2>3, <2>4
<1>15. QED
  BY <1>6, <1>9, <1>10, <1>11, <1>12, <1>13, <1>14

LEMMA StutterStep ==
    ASSUME ReplayInv, UNCHANGED vars
    PROVE  ReplayInv'
BY DEF vars, ReplayInv, TypeOK, OneWriter, Serving, Sections, TransportReadCurrent,
       SemanticReadCurrent, NoncesDistinct, PassedReserved, TransportStaysReadable,
       DispatchedReserved, GrantedApart, PermitDispatchedOnce, KnownEnvelope, Replayed,
       MarksAsked, SemanticLoads

LEMMA NextReplayInv == ReplayInv /\ [Next]_vars => ReplayInv'
<1> SUFFICES ASSUME ReplayInv, [Next]_vars PROVE ReplayInv'
  OBVIOUS
<1>1. CASE UNCHANGED vars
  BY <1>1, StutterStep
<1>2. ASSUME NEW i \in Instances, Start(i) \/ Crash(i) PROVE ReplayInv'
  BY <1>2, StartStep, CrashStep
<1>3. ASSUME NEW t \in Threads, NEW e \in Envelopes, Receive(t, e) PROVE ReplayInv'
  BY <1>3, ReceiveStep
<1>4. ASSUME NEW t \in Threads,
             \/ Unreadable(t) \/ RefuseTransport(t) \/ TransportFull(t)
             \/ RefuseReplay(t) \/ RefuseChecked(t) \/ ExpiredAfterReservation(t)
      PROVE  ReplayInv'
  <2>1. Answer(t) /\ UNCHANGED <<transport, semantic, running, passed, dispatched>>
    BY <1>4 DEF Unreadable, RefuseTransport, TransportFull, RefuseReplay, RefuseChecked,
         ExpiredAfterReservation
  <2>2. QED
    BY <2>1, AnswerStep
<1>5. ASSUME NEW t \in Threads, NEW w \in Writes, WriteTransport(t, w) \/ WriteSemantic(t, w)
      PROVE  ReplayInv'
  BY <1>5, WriteTransportStep, WriteSemanticStep
<1>6. ASSUME NEW t \in Threads,
             ReadTransport(t) \/ EnterDevice(t) \/ ReadSemantic(t) \/ Dispatch(t)
      PROVE  ReplayInv'
  BY <1>6, ReadTransportStep, EnterDeviceStep, ReadSemanticStep, DispatchStep
<1>7. QED
  BY <1>1, <1>2, <1>3, <1>4, <1>5, <1>6 DEF Next

(***************************************************************************)
(* The invariant holds in every reachable state: the writer lock and the   *)
(* in-process locks keep each ledger read current until it is written.     *)
(***************************************************************************)
THEOREM ReplayInvariant == Spec => []ReplayInv
<1>1. Init => ReplayInv
  BY InitReplayInv
<1>2. ReplayInv /\ [Next]_vars => ReplayInv'
  BY NextReplayInv
<1>3. QED
  BY <1>1, <1>2, PTL DEF Spec

(***************************************************************************)
(* A transport nonce passes DurableTransportReplayLedger.reserve at most   *)
(* once, over all handlers, processes, failed writes and restarts.         *)
(***************************************************************************)
THEOREM NonceOnce == Spec => []NoncePassesOnce
<1>1. ReplayInv => NoncePassesOnce
  BY DEF ReplayInv, NoncesDistinct, PassedReserved, NoncePassesOnce
<1>2. QED
  BY <1>1, ReplayInvariant, PTL

(***************************************************************************)
(* CapabilityVirtualPlc.execute calls the plant at most once for a permit  *)
(* and never for two permits that share an identifier.                     *)
(***************************************************************************)
THEOREM DispatchOnce == Spec => []PermitDispatchedOnce
<1>1. ReplayInv => PermitDispatchedOnce
  BY DEF ReplayInv
<1>2. QED
  BY <1>1, ReplayInvariant, PTL

(***************************************************************************)
(* _persist never writes a transport ledger that _load would refuse.       *)
(***************************************************************************)
THEOREM TransportReadable == Spec => []TransportStaysReadable
<1>1. ReplayInv => TransportStaysReadable
  BY DEF ReplayInv
<1>2. QED
  BY <1>1, ReplayInvariant, PTL

(***************************************************************************)
(* Once OrderlyRestartReplayReservations._persist has taken the semantic   *)
(* ledger over its limit, the file is final, no process starts on it, and  *)
(* no further permit is granted.                                           *)
(***************************************************************************)
THEOREM SemanticLedgerExhausted == Spec => SemanticExhaustion
<1>1. ReplayInv /\ [Next]_vars =>
        [Cardinality(semantic) > SemanticCap =>
            /\ semantic' = semantic
            /\ running' \subseteq running
            /\ \A t \in Threads : pc'[t] = "granted" => pc[t] = "granted"]_vars
  <2> SUFFICES ASSUME ReplayInv, Next, Cardinality(semantic) > SemanticCap
      PROVE  /\ semantic' = semantic
             /\ running' \subseteq running
             /\ \A t \in Threads : pc'[t] = "granted" => pc[t] = "granted"
    OBVIOUS
  <2>1. ~SemanticLoads
    <3>1. IsFiniteSet(semantic)
      BY ReplayAssumption, FS_Subset DEF ReplayInv, TypeOK
    <3>2. Cardinality(semantic) \in Nat /\ SemanticCap \in Nat
      BY <3>1, FS_CardinalityType, ReplayAssumption
    <3>3. QED
      BY <3>2 DEF SemanticLoads
  <2>2. \A t \in Threads : pc[t] # "semantic_read"
    BY <2>1 DEF ReplayInv, SemanticReadCurrent
  <2>3. pc \in [Threads -> Steps]
    BY DEF ReplayInv, TypeOK
  <2>4. ASSUME NEW i \in Instances, Start(i) \/ Crash(i)
        PROVE  /\ semantic' = semantic
               /\ running' \subseteq running
               /\ \A t \in Threads : pc'[t] = "granted" => pc[t] = "granted"
    BY <2>1, <2>4 DEF Start, Crash
  <2>5. ASSUME NEW t \in Threads,
               \/ \E e \in Envelopes : Receive(t, e)
               \/ Unreadable(t) \/ ReadTransport(t) \/ RefuseTransport(t)
               \/ \E w \in Writes : WriteTransport(t, w)
               \/ TransportFull(t) \/ EnterDevice(t) \/ RefuseReplay(t)
               \/ RefuseChecked(t) \/ Dispatch(t) \/ ExpiredAfterReservation(t)
        PROVE  /\ semantic' = semantic
               /\ running' = running
               /\ \A u \in Threads : pc'[u] = "granted" => pc[u] = "granted"
    <3>1. \E l \in {"idle", "received", "transport_read", "reserved", "checked"} :
            pc' = [pc EXCEPT ![t] = l]
      BY <2>5 DEF Receive, Unreadable, ReadTransport, RefuseTransport, WriteTransport,
           TransportFull, EnterDevice, RefuseReplay, RefuseChecked, Dispatch,
           ExpiredAfterReservation, Answer, Goto
    <3>2. semantic' = semantic /\ running' = running
      BY <2>5 DEF Receive, Unreadable, ReadTransport, RefuseTransport, WriteTransport,
           TransportFull, EnterDevice, RefuseReplay, RefuseChecked, Dispatch,
           ExpiredAfterReservation
    <3>3. QED
      BY <3>1, <3>2, <2>3
  <2>6. ASSUME NEW t \in Threads,
               ReadSemantic(t) \/ \E w \in Writes : WriteSemantic(t, w)
        PROVE  FALSE
    BY <2>1, <2>2, <2>6 DEF ReadSemantic, WriteSemantic
  <2>7. QED
    BY <2>4, <2>5, <2>6 DEF Next
<1>2. QED
  BY <1>1, ReplayInvariant, PTL DEF Spec, SemanticExhaustion

--------------------------------------------------------------------------------
(* The loop of services. *)

(***************************************************************************)
(* The inductive invariant of the segmented loop.  The number of an        *)
(* execution is its permit's, and at any time one party at most can still  *)
(* make something of it: the gateway before it has posted, the network     *)
(* with the dispatch, the adapter that checked it, or an apply call that   *)
(* the plant process it is addressed to has not reserved.                  *)
(***************************************************************************)
IsCall(x) == "op" \in DOMAIN x
IsDispatch(x) == "dispatch" \in DOMAIN x

PermitId(m) == m.dispatch.permit.id

Undispatched == {"resolve", "simulate", "dispatch"}

\* The plant process a call is for is gone or has reserved its nonce.
Spent(x) == x.target # plant.boot \/ ~plant.up \/ \E c \in calls : c.nonce = x.nonce

\* The gateway, the network or the adapter may still turn it into a call.
AtGateway(id) == flow # Nothing /\ flow.id = id /\ flow.stage \in Undispatched
OnTheWay(id) == \E x \in wire : IsDispatch(x) /\ PermitId(x) = id
AtAdapter(id) == ot.stage = "checked" /\ PermitId(ot.job) = id

\* Nothing can act for this execution any more.
Final(id) ==
  /\ id \in 1..executions
  /\ ~AtGateway(id) /\ ~OnTheWay(id) /\ ~AtAdapter(id)
  /\ \A x \in wire : IsCall(x) /\ x.payload.id = id => Spent(x)

Untouched(id) == Final(id) /\ ActsOf(id) = {}

Done(id, pre, action) ==
  /\ Final(id)
  /\ \E i \in DOMAIN acts : ActsOf(id) = {i} /\ acts[i].pre = pre /\ acts[i].action = action

\* A dispatch carries the permit of its execution, for the request as asked.
DispatchSane(d) ==
  /\ d.permit.id \in 1..executions
  /\ d.permit.action = d.action /\ d.permit.obs = d.obs
  /\ d.permit.expires \in Int
  /\ d.action \in Actions
  /\ d.obs # Nothing /\ asked[d.action] = d.obs

CallSane(x) ==
  /\ x.target \in Nat /\ x.target <= plant.boot
  /\ x.payload.id \in ledgers.permits
  /\ x.payload.deadline \in Int
  /\ x.payload.action \in Actions
  /\ asked[x.payload.action] # Nothing
  /\ <<x.payload.action, asked[x.payload.action]>> \in ledgers.actions

LoopTypes ==
  /\ clk \in Nat /\ executions \in Nat
  /\ DOMAIN plant = {"boot", "up", "snap"} /\ plant.boot \in Nat
  /\ DOMAIN ot = {"boot", "up", "plant", "observer", "stage", "job", "call"}
  /\ ot.plant \in Nat /\ ot.plant <= plant.boot
  /\ DOMAIN ledgers = {"nonces", "actions", "permits"}
  /\ DOMAIN replies = {"ot", "plant"}
  /\ ledgers.permits \subseteq 1..executions
  /\ DOMAIN asked = Actions
  /\ acts \in Seq(Range(acts))

WireDispatches == \A x \in wire : IsDispatch(x) => ~IsCall(x) /\ DispatchSane(x.dispatch)

WireCalls == \A x \in wire : IsCall(x) => CallSane(x)

\* One party at most holds a permit that is not reserved.
OnePlace ==
  /\ \A x, y \in wire : IsDispatch(x) /\ IsDispatch(y) /\ PermitId(x) = PermitId(y) => x = y
  /\ \A id \in 1..executions :
       /\ AtGateway(id) => ~OnTheWay(id) /\ ~AtAdapter(id) /\ id \notin ledgers.permits
       /\ OnTheWay(id) => ~AtAdapter(id) /\ id \notin ledgers.permits
       /\ AtAdapter(id) => id \notin ledgers.permits

\* One call at most per permit and per request.
OneCall ==
  \A x, y \in wire :
    IsCall(x) /\ IsCall(y) /\ (x.payload.id = y.payload.id \/ x.payload.action = y.payload.action)
      => x = y

AdapterSane ==
  /\ ot.stage \in {"idle", "checked", "applying"}
  /\ ot.stage # "idle" => DispatchSane(ot.job.dispatch)
  /\ ot.stage = "checked" => <<ot.job.dispatch.action, ot.job.dispatch.obs>> \notin ledgers.actions
  /\ ot.stage = "applying" => ot.call.payload = ApplyPayload(ot.job.dispatch.permit)

FlowSane ==
  flow # Nothing =>
    /\ DOMAIN flow = {"id", "action", "obs", "stage", "assessment", "permit", "sent", "ack"}
    /\ flow.id \in 1..executions /\ flow.action \in Actions
    /\ flow.obs # Nothing /\ asked[flow.action] = flow.obs
    /\ flow.stage \in Undispatched \cup {"waiting", "post"}
    /\ flow.stage = "dispatch" =>
         /\ flow.permit.id = flow.id /\ flow.permit.action = flow.action
         /\ flow.permit.obs = flow.obs /\ flow.permit.expires \in Int
    /\ flow.stage = "waiting" =>
         /\ PermitId(flow.sent) = flow.id
         /\ flow.sent.dispatch.action = flow.action /\ flow.sent.dispatch.obs = flow.obs
    /\ flow.stage = "post" => Done(flow.id, flow.obs.snap, flow.action)

ActsSane ==
  /\ \A i \in DOMAIN acts :
       /\ acts[i].id \in ledgers.permits
       /\ acts[i].action \in Actions /\ asked[acts[i].action] # Nothing
       /\ <<acts[i].action, asked[acts[i].action]>> \in ledgers.actions
       /\ acts[i].at < acts[i].deadline
       /\ \A x \in wire :
            /\ IsCall(x)
            /\ x.payload.id = acts[i].id \/ x.payload.action = acts[i].action
            => Spent(x)
  /\ \A i, j \in DOMAIN acts : acts[i].action = acts[j].action => i = j

\* What the plant answered is true of the call it answered.
AnswerTrue(r) ==
  LET p == r.call.payload
  IN  \/ r.status = "ok" /\ Done(p.id, p.pre, p.action)
      \/ r.status = "rejected" /\ Untouched(p.id)

AnswersTrue ==
  /\ \A c \in calls : c.terminal # Nothing => AnswerTrue(c.terminal)
  /\ replies.plant # Nothing => AnswerTrue(replies.plant)

\* What the adapter acknowledged is true of the dispatch.
AckTrue(s) ==
  LET d == s.request.dispatch
  IN  \/ s.ack.status = "applied" /\ Done(d.permit.id, d.obs.snap, d.action)
      \/ s.ack.status = "rejected" /\ Untouched(d.permit.id)
      \/ s.ack.status = "unknown"

AcksTrue == replies.ot # Nothing /\ replies.ot.http = "ok" => AckTrue(replies.ot.signed)

OutcomeTrue(o) ==
  \/ o.status = "completed" /\ Done(o.id, o.obs.snap, o.action)
  \/ o.status \in {"not_dispatched", "candidate_rejected", "plc_rejected"} /\ Untouched(o.id)
  \/ o.status \in {"unknown_effect", "observation_diverged"}

OutcomesTrue == \A o \in outcomes : OutcomeTrue(o)

LoopInv ==
  /\ LoopTypes
  /\ WireDispatches /\ WireCalls
  /\ OnePlace /\ OneCall
  /\ AdapterSane /\ FlowSane /\ ActsSane
  /\ AnswersTrue /\ AcksTrue /\ OutcomesTrue

----------------------------------------------------------------------------
\* What a step leaves of the executions that are settled.
KeepsFinal ==
  /\ \A id : Final(id) => Final(id)' /\ ActsOf(id)' = ActsOf(id)
  /\ \A i \in DOMAIN acts : i \in DOMAIN acts' /\ acts'[i] = acts[i]

\* What a step newly claims is true; what it claimed before may stay.
ClaimsEarned ==
  /\ \A c \in calls' : c.terminal # Nothing => c \in calls \/ AnswerTrue(c.terminal)'
  /\ replies'.plant # Nothing => replies'.plant = replies.plant \/ AnswerTrue(replies.plant)'
  /\ replies'.ot # Nothing /\ replies'.ot.http = "ok" =>
       replies'.ot = replies.ot \/ AckTrue(replies.ot.signed)'
  /\ \A o \in outcomes' : o \in outcomes \/ OutcomeTrue(o)'

(***************************************************************************)
(* A claim about a settled execution stays true.                           *)
(***************************************************************************)
LEMMA ClaimStays ==
  ASSUME KeepsFinal
  PROVE  /\ \A id, pre, a : Done(id, pre, a) => Done(id, pre, a)'
         /\ \A id : Untouched(id) => Untouched(id)'
         /\ \A r : AnswerTrue(r) => AnswerTrue(r)'
         /\ \A s : AckTrue(s) => AckTrue(s)'
         /\ \A o : OutcomeTrue(o) => OutcomeTrue(o)'
<1>1. \A id, pre, a : Done(id, pre, a) => Done(id, pre, a)'
  <2>1. TAKE id, pre, a
  <2>2. HAVE Done(id, pre, a)
  <2>3. PICK i \in DOMAIN acts :
          ActsOf(id) = {i} /\ acts[i].pre = pre /\ acts[i].action = a
    BY <2>2 DEF Done
  <2>4. i \in DOMAIN acts' /\ acts'[i] = acts[i]
    BY <2>3 DEF KeepsFinal
  <2>5. Final(id)' /\ ActsOf(id)' = {i}
    BY <2>2, <2>3 DEF KeepsFinal, Done
  <2> QED
    BY <2>3, <2>4, <2>5 DEF Done
<1>2. \A id : Untouched(id) => Untouched(id)'
  BY DEF KeepsFinal, Untouched
<1>3. \A r : AnswerTrue(r) => AnswerTrue(r)'
  BY <1>1, <1>2 DEF AnswerTrue
<1>4. \A s : AckTrue(s) => AckTrue(s)'
  BY <1>1, <1>2 DEF AckTrue
<1>5. \A o : OutcomeTrue(o) => OutcomeTrue(o)'
  BY <1>1, <1>2 DEF OutcomeTrue
<1> QED
  BY <1>1, <1>2, <1>3, <1>4, <1>5

(***************************************************************************)
(* So all claims are true after a step whose new ones are.                 *)
(***************************************************************************)
LEMMA ClaimsStay ==
  ASSUME AnswersTrue, AcksTrue, OutcomesTrue, KeepsFinal, ClaimsEarned
  PROVE  AnswersTrue' /\ AcksTrue' /\ OutcomesTrue'
<1>0. (\A r : AnswerTrue(r) => AnswerTrue(r)') /\ (\A s : AckTrue(s) => AckTrue(s)')
      /\ (\A o : OutcomeTrue(o) => OutcomeTrue(o)')
  BY ClaimStays
<1>1. \A c \in calls' : c.terminal # Nothing => AnswerTrue(c.terminal)'
  BY <1>0 DEF ClaimsEarned, AnswersTrue
<1>2. replies'.plant # Nothing => AnswerTrue(replies.plant)'
  <2>1. CASE replies'.plant = replies.plant
    <3>1. PICK r : r = replies.plant
      OBVIOUS
    <3>2. r # Nothing => AnswerTrue(r)'
      BY <1>0, <3>1 DEF AnswersTrue
    <3> QED
      BY <2>1, <3>1, <3>2 DEF AnswerTrue
  <2> QED
    BY <2>1 DEF ClaimsEarned
<1>3. replies'.ot # Nothing /\ replies'.ot.http = "ok" => AckTrue(replies.ot.signed)'
  <2>1. CASE replies'.ot = replies.ot
    <3>1. PICK s : s = replies.ot.signed
      OBVIOUS
    <3>2. replies.ot # Nothing /\ replies.ot.http = "ok" => AckTrue(s)'
      BY <1>0, <3>1 DEF AcksTrue
    <3> QED
      BY <2>1, <3>1, <3>2 DEF AckTrue
  <2> QED
    BY <2>1 DEF ClaimsEarned
<1>4. \A o \in outcomes' : OutcomeTrue(o)'
  BY <1>0 DEF ClaimsEarned, OutcomesTrue
<1>5. Nothing' = Nothing
  BY DEF Nothing
<1> QED
  BY <1>1, <1>2, <1>3, <1>4, <1>5 DEF AnswersTrue, AcksTrue, OutcomesTrue

(***************************************************************************)
(* An execution that a step leaves alone stays as it was.                  *)
(***************************************************************************)
LEMMA FlowStays ==
  ASSUME FlowSane, KeepsFinal, UNCHANGED <<flow, asked, executions>>
  PROVE  FlowSane'
<1>1. CASE flow # Nothing
  <2>1. PICK id, pre, a : id = flow.id /\ pre = flow.obs.snap /\ a = flow.action
    OBVIOUS
  <2>2. flow.stage = "post" => Done(id, pre, a)'
    BY <1>1, <2>1, ClaimStays DEF FlowSane
  <2>3. flow'.stage = "post" => Done(flow.id, flow.obs.snap, flow.action)'
    BY <2>1, <2>2 DEF Done, Final, AtGateway, OnTheWay, AtAdapter, ActsOf
  <2> QED
    BY <1>1, <2>3 DEF FlowSane, Nothing, PermitId
<1> QED
  BY <1>1 DEF FlowSane, Nothing

\* The invariant holds initially.
LEMMA InitLoopInv == LoopInit => LoopInv
<1> SUFFICES ASSUME LoopInit PROVE LoopInv
  OBVIOUS
<1>1. LoopTypes
  <2>1. acts \in Seq(Range(acts))
    BY DEF LoopInit
  <2> QED
    BY <2>1 DEF LoopInit, NewPlant, NewOt, LoopTypes
<1>2. AnswersTrue /\ AcksTrue /\ OutcomesTrue
  BY DEF LoopInit, NewPlant, NewOt, AnswersTrue, AcksTrue, OutcomesTrue
<1>3. WireDispatches /\ WireCalls /\ OneCall /\ AdapterSane /\ FlowSane /\ ActsSane
  BY DEF LoopInit, NewPlant, NewOt, WireDispatches, WireCalls, OneCall, AdapterSane, FlowSane, ActsSane
<1>4. OnePlace
  BY DEF LoopInit, NewOt, OnePlace, AtGateway, OnTheWay, AtAdapter
<1> QED
  BY <1>1, <1>2, <1>3, <1>4 DEF LoopInv

----------------------------------------------------------------------------
(***************************************************************************)
(* The steps that bring no permit and no call any further: a party works,  *)
(* goes, comes back, gives up or records an outcome.                       *)
(***************************************************************************)
Settles ==
  /\ clk' \in Nat
  /\ DOMAIN plant' = {"boot", "up", "snap"} /\ plant'.boot \in Nat /\ plant.boot <= plant'.boot
  /\ DOMAIN ot' = {"boot", "up", "plant", "observer", "stage", "job", "call"}
  /\ ot'.plant \in Nat /\ ot'.plant <= plant'.boot
  /\ \/ ot'.stage = "idle"
     \/ ot'.stage = ot.stage /\ ot'.job = ot.job /\ ot'.call = ot.call
  /\ DOMAIN ledgers' = {"nonces", "actions", "permits"}
  /\ ledgers'.permits = ledgers.permits /\ ledgers'.actions = ledgers.actions
  /\ DOMAIN replies' = {"ot", "plant"}
  /\ wire' \subseteq wire
  /\ \A x \in wire : IsCall(x) /\ Spent(x) => Spent(x)'
  /\ \A id : AtGateway(id)' => AtGateway(id)
  /\ UNCHANGED <<asked, executions, acts>>

(***************************************************************************)
(* Such a step leaves the settled executions settled.                      *)
(***************************************************************************)
LEMMA SettlesKeeps ==
  ASSUME LoopInv, Settles
  PROVE  KeepsFinal
<1>1. ASSUME NEW id, Final(id) PROVE Final(id)'
  <2>1. id \in 1..executions'
    BY <1>1 DEF Final, Settles
  <2>2. ~AtGateway(id)'
    BY <1>1 DEF Final, Settles
  <2>3. ~OnTheWay(id)'
    BY <1>1 DEF Final, Settles, OnTheWay, PermitId, IsDispatch
  <2>4. ~AtAdapter(id)'
    BY <1>1 DEF Final, Settles, AtAdapter, PermitId
  <2>5. \A x \in wire' : IsCall(x) /\ x.payload.id = id => Spent(x)'
    BY <1>1 DEF Final, Settles
  <2> QED
    BY <2>1, <2>2, <2>3, <2>4, <2>5 DEF Final
<1> QED
  BY <1>1 DEF KeepsFinal, Settles, ActsOf

(***************************************************************************)
(* And it preserves the invariant if what it claims is earned.             *)
(***************************************************************************)
LEMMA SettlesInv ==
  ASSUME LoopInv, Settles, ClaimsEarned, flow' = flow \/ FlowSane'
  PROVE  LoopInv'
<1>0. KeepsFinal
  BY SettlesKeeps
<1>1. LoopTypes'
  BY DEF LoopInv, LoopTypes, Settles
<1>2. WireDispatches'
  BY DEF LoopInv, WireDispatches, Settles, DispatchSane, IsDispatch, IsCall
<1>3. WireCalls'
  <2> SUFFICES ASSUME NEW x \in wire', IsCall(x) PROVE CallSane(x)'
    BY DEF WireCalls, IsCall
  <2>1. x \in wire /\ CallSane(x)
    BY DEF LoopInv, WireCalls, Settles
  <2>2. plant.boot \in Nat
    BY DEF LoopInv, LoopTypes
  <2> QED
    BY <2>1, <2>2 DEF CallSane, Settles
<1>4. OnePlace'
  <2>1. \A x, y \in wire' : IsDispatch(x) /\ IsDispatch(y) /\ PermitId(x) = PermitId(y) => x = y
    BY DEF LoopInv, OnePlace, Settles
  <2>2. ASSUME NEW id, OnTheWay(id)' PROVE OnTheWay(id)
    BY <2>2 DEF OnTheWay, Settles, PermitId, IsDispatch
  <2>3. ASSUME NEW id, AtAdapter(id)' PROVE AtAdapter(id)
    BY <2>3 DEF AtAdapter, Settles, PermitId
  <2>4. ASSUME NEW id, AtGateway(id)' PROVE AtGateway(id)
    BY <2>4 DEF Settles
  <2>5. executions' = executions /\ ledgers'.permits = ledgers.permits
    BY DEF Settles
  <2> QED
    BY <2>1, <2>2, <2>3, <2>4, <2>5 DEF LoopInv, OnePlace, PermitId, IsDispatch
<1>5. OneCall'
  BY DEF LoopInv, OneCall, Settles, IsCall
<1>6. AdapterSane'
  BY DEF LoopInv, AdapterSane, Settles, DispatchSane, ApplyPayload
<1>7. FlowSane'
  <2>1. CASE flow' = flow
    BY <1>0, <2>1, FlowStays DEF LoopInv, Settles
  <2> QED
    BY <2>1
<1>8. ActsSane'
  <2>1. acts' = acts /\ asked' = asked
    BY DEF Settles
  <2>2. \A i \in DOMAIN acts' :
          /\ acts'[i].id \in ledgers'.permits
          /\ acts'[i].action \in Actions /\ asked'[acts'[i].action] # Nothing
          /\ <<acts'[i].action, asked'[acts'[i].action]>> \in ledgers'.actions
          /\ acts'[i].at < acts'[i].deadline
    BY <2>1 DEF LoopInv, ActsSane, Settles
  <2>3. \A i \in DOMAIN acts' : \A x \in wire' :
            /\ IsCall(x)
            /\ x.payload.id = acts'[i].id \/ x.payload.action = acts'[i].action
            => Spent(x)'
    BY <2>1 DEF LoopInv, ActsSane, Settles
  <2>4. \A i, j \in DOMAIN acts' : acts'[i].action = acts'[j].action => i = j
    BY <2>1 DEF LoopInv, ActsSane
  <2> QED
    BY <2>2, <2>3, <2>4 DEF ActsSane, Nothing, IsCall
<1>9. AnswersTrue' /\ AcksTrue' /\ OutcomesTrue'
  BY <1>0, ClaimsStay DEF LoopInv
<1> QED
  BY <1>1, <1>2, <1>3, <1>4, <1>5, <1>6, <1>7, <1>8, <1>9 DEF LoopInv

----------------------------------------------------------------------------
\* A step that no execution and no call notices.
Quiet ==
  /\ clk' \in Nat
  /\ DOMAIN plant' = DOMAIN plant /\ plant'.boot = plant.boot /\ plant'.up = plant.up
  /\ DOMAIN replies' = DOMAIN replies
  /\ replies'.ot = replies.ot /\ replies'.plant = replies.plant
  /\ UNCHANGED <<calls, ot, ledgers, asked, flow, executions, outcomes, wire, acts>>

\* Such a step preserves the invariant.
LEMMA QuietInv ==
  ASSUME LoopInv, Quiet
  PROVE  LoopInv'
<1>1. Settles
  <2>1. \A x \in wire : IsCall(x) /\ Spent(x) => Spent(x)'
    BY DEF Quiet, Spent
  <2>2. \A id : AtGateway(id)' => AtGateway(id)
    BY DEF Quiet, AtGateway, Nothing
  <2> QED
    BY <2>1, <2>2 DEF Quiet, Settles, LoopInv, LoopTypes
<1>2. ClaimsEarned
  BY DEF Quiet, ClaimsEarned
<1> QED
  BY <1>1, <1>2, SettlesInv DEF Quiet

(***************************************************************************)
(* Time, the services that keep nothing of an execution, and captures.     *)
(***************************************************************************)
LEMMA QuietSteps ==
  ASSUME LoopInv,
         \/ LoopTick \/ AgentCaptures \/ LateCapture \/ GiveUpCapture
         \/ Build /\ (BuildObserver \/ BuildCandidate \/ BuildGateway)
         \/ UNCHANGED loopVars
  PROVE  LoopInv'
<1>0. LoopTypes
  BY DEF LoopInv
<1>1. CASE LoopTick
  <2>1. Quiet
    BY <1>0, <1>1 DEF Quiet, LoopTick, LoopTypes, serviceVars, gatewayVars, netVars
  <2> QED
    BY <2>1, QuietInv
<1>2. ASSUME NEW env, ObserverCaptures(env)
      PROVE  /\ DOMAIN plant' = DOMAIN plant /\ plant'.boot = plant.boot /\ plant'.up = plant.up
             /\ UNCHANGED <<calls, candidate, ot, ledgers>>
  BY <1>0, <1>2 DEF ObserverCaptures, LoopTypes
<1>3. CASE AgentCaptures
  <2>1. PICK env : ObserverCaptures(env)
    BY <1>3 DEF AgentCaptures
  <2>2. Quiet
    BY <1>0, <1>2, <1>3, <2>1 DEF Quiet, AgentCaptures, LoopTypes, gatewayVars, netVars
  <2> QED
    BY <2>2, QuietInv
<1>4. CASE LateCapture
  <2>1. PICK env : ObserverCaptures(env)
    BY <1>4 DEF LateCapture
  <2>2. Quiet
    BY <1>0, <1>2, <1>4, <2>1 DEF Quiet, LateCapture, LoopTypes, gatewayVars
  <2> QED
    BY <2>2, QuietInv
<1>5. CASE GiveUpCapture
  <2>1. Quiet
    BY <1>0, <1>5 DEF Quiet, GiveUpCapture, LoopTypes, serviceVars, gatewayVars
  <2> QED
    BY <2>1, QuietInv
<1>6. CASE Build /\ (BuildObserver \/ BuildCandidate \/ BuildGateway)
  <2>1. Quiet
    BY <1>0, <1>6 DEF Quiet, Build, BuildObserver, BuildCandidate, BuildGateway, LoopTypes,
                      serviceVars, netVars
  <2> QED
    BY <2>1, QuietInv
<1>7. CASE UNCHANGED loopVars
  <2>1. Quiet
    BY <1>0, <1>7 DEF Quiet, loopVars, LoopTypes, serviceVars, gatewayVars, netVars
  <2> QED
    BY <2>1, QuietInv
<1> QED
  BY <1>1, <1>3, <1>4, <1>5, <1>6, <1>7

(***************************************************************************)
(* Any process goes.  The calls for a plant process that is gone are spent *)
(* and so is what an adapter had checked.                                  *)
(***************************************************************************)
LEMMA StopStep ==
  ASSUME LoopInv, Stop
  PROVE  LoopInv'
<1>0. LoopTypes
  BY DEF LoopInv
<1>1. /\ UNCHANGED <<clk, wire, acts, asked, executions, outcomes, ledgers>>
      /\ flow' = flow \/ flow' = Nothing
  BY DEF Stop, StopPlant, StopObserver, StopCandidate, StopOt, StopGateway
<1>2. /\ DOMAIN replies' = {"ot", "plant"}
      /\ replies'.ot \in {replies.ot, Nothing} /\ replies'.plant \in {replies.plant, Nothing}
  BY DEF Stop
<1>3. /\ calls' \subseteq calls
      /\ DOMAIN plant' = {"boot", "up", "snap"} /\ plant'.boot = plant.boot
      /\ (plant' = plant /\ calls' = calls) \/ plant'.up = FALSE
  BY <1>0 DEF LoopTypes, Stop, StopPlant, StopObserver, StopCandidate, StopOt, StopGateway
<1>4. /\ DOMAIN ot' = DOMAIN ot /\ ot'.plant = ot.plant
      /\ ot' = ot \/ ot'.stage = "idle"
  BY <1>0 DEF LoopTypes, Stop, StopPlant, StopObserver, StopCandidate, StopOt, StopGateway
<1>5. Settles
  <2>1. \A x \in wire : IsCall(x) /\ Spent(x) => Spent(x)'
    BY <1>3 DEF Spent
  <2>2. \A id : AtGateway(id)' => AtGateway(id)
    BY <1>1 DEF AtGateway, Nothing
  <2> QED
    BY <1>0, <1>1, <1>2, <1>3, <1>4, <2>1, <2>2 DEF Settles, LoopTypes
<1>6. ClaimsEarned
  BY <1>1, <1>2, <1>3 DEF ClaimsEarned
<1>7. flow' = flow \/ FlowSane'
  BY <1>1 DEF FlowSane, Nothing
<1> QED
  BY <1>5, <1>6, <1>7, SettlesInv

(***************************************************************************)
(* A new plant process is another one than any call in the network is for. *)
(***************************************************************************)
LEMMA BuildPlantStep ==
  ASSUME LoopInv, Build, BuildPlant
  PROVE  LoopInv'
<1>0. LoopTypes
  BY DEF LoopInv
<1>1. UNCHANGED <<clk, asked, flow, executions, outcomes, wire, replies, acts, calls, ot, ledgers>>
  <2>1. UNCHANGED <<calls, ot, ledgers>>
    BY DEF BuildPlant, NewPlant
  <2> QED
    BY <2>1 DEF Build, netVars
<1>2. /\ DOMAIN plant' = {"boot", "up", "snap"} /\ plant'.boot = plant.boot + 1
  BY DEF BuildPlant, NewPlant
<1>3. Settles
  <2>1. \A x \in wire : IsCall(x) /\ Spent(x) => Spent(x)'
    <3> SUFFICES ASSUME NEW x \in wire, IsCall(x) PROVE Spent(x)'
      OBVIOUS
    <3>1. x.target \in Nat /\ x.target <= plant.boot
      BY DEF LoopInv, WireCalls, CallSane
    <3> QED
      BY <1>0, <1>2, <3>1 DEF Spent, LoopTypes
  <2>2. \A id : AtGateway(id)' => AtGateway(id)
    BY <1>1 DEF AtGateway, Nothing
  <2> QED
    BY <1>0, <1>1, <1>2, <2>1, <2>2 DEF Settles, LoopTypes
<1>4. ClaimsEarned
  BY <1>1 DEF ClaimsEarned
<1> QED
  BY <1>1, <1>3, <1>4, SettlesInv

(***************************************************************************)
(* A new adapter knows the durable ledgers and nothing else.               *)
(***************************************************************************)
LEMMA BuildOtStep ==
  ASSUME LoopInv, Build, BuildOt
  PROVE  LoopInv'
<1>0. LoopTypes
  BY DEF LoopInv
<1>1. UNCHANGED <<clk, asked, flow, executions, outcomes, wire, replies, acts, calls, plant, ledgers>>
  <2>1. UNCHANGED <<calls, plant, ledgers>>
    BY DEF BuildOt, NewOt
  <2> QED
    BY <2>1 DEF Build, netVars
<1>2. /\ DOMAIN ot' = {"boot", "up", "plant", "observer", "stage", "job", "call"}
      /\ ot'.plant = plant.boot /\ ot'.stage = "idle"
  BY DEF BuildOt, NewOt
<1>3. Settles
  <2>1. \A x \in wire : IsCall(x) /\ Spent(x) => Spent(x)'
    BY <1>1 DEF Spent
  <2>2. \A id : AtGateway(id)' => AtGateway(id)
    BY <1>1 DEF AtGateway, Nothing
  <2> QED
    BY <1>0, <1>1, <1>2, <2>1, <2>2 DEF Settles, LoopTypes
<1>4. ClaimsEarned
  BY <1>1 DEF ClaimsEarned
<1> QED
  BY <1>1, <1>3, <1>4, SettlesInv

----------------------------------------------------------------------------
\* The gateway goes on with its execution; an observation may be made for it.
GatewayActs ==
  /\ UNCHANGED <<clk, calls, ot, ledgers, asked, executions, wire, acts>>
  /\ DOMAIN plant' = DOMAIN plant /\ plant'.boot = plant.boot /\ plant'.up = plant.up
  /\ DOMAIN replies' = DOMAIN replies
  /\ replies'.ot \in {replies.ot, Nothing} /\ replies'.plant = replies.plant

\* It brings no permit further if it does not go back before the dispatch.
LEMMA GatewaySettles ==
  ASSUME LoopInv, GatewayActs, \A id : AtGateway(id)' => AtGateway(id)
  PROVE  Settles
<1>1. \A x \in wire : IsCall(x) /\ Spent(x) => Spent(x)'
  BY DEF GatewayActs, Spent
<1> QED
  BY <1>1 DEF GatewayActs, Settles, LoopInv, LoopTypes

(***************************************************************************)
(* A permit that is not reserved has left no trace.                        *)
(***************************************************************************)
LEMMA NoTrace ==
  ASSUME LoopInv, NEW id, id \notin ledgers.permits
  PROVE  /\ ActsOf(id) = {}
         /\ \A x \in wire : IsCall(x) => x.payload.id # id
<1>1. \A x \in wire : IsCall(x) => x.payload.id # id
  BY DEF LoopInv, WireCalls, CallSane
<1>2. \A i \in DOMAIN acts : acts[i].id # id
  BY DEF LoopInv, ActsSane
<1> QED
  BY <1>1, <1>2 DEF ActsOf

(***************************************************************************)
(* An execution ends with a disposition that is true of it.                *)
(***************************************************************************)
LEMMA RecordInv ==
  ASSUME LoopInv, GatewayActs, flow # Nothing,
         NEW status, NEW ack, NEW post, RecordOutcome(status, ack, post),
         \/ status = "completed" /\ Done(flow.id, flow.obs.snap, flow.action)
         \/ /\ status \in {"not_dispatched", "candidate_rejected", "plc_rejected"}
            /\ Untouched(flow.id) \/ flow.stage \in Undispatched
         \/ status \in {"unknown_effect", "observation_diverged"}
  PROVE  LoopInv'
<1>1. flow' = Nothing
  BY DEF RecordOutcome
<1>2. \A id : ~AtGateway(id)'
  BY <1>1 DEF AtGateway, Nothing
<1>3. Settles
  BY <1>2, GatewaySettles
<1>4. KeepsFinal
  BY <1>3, SettlesKeeps
<1>5. PICK id, pre, a : id = flow.id /\ pre = flow.obs.snap /\ a = flow.action
  OBVIOUS
<1>6. flow.stage \in Undispatched => Untouched(id)'
  <2> SUFFICES ASSUME flow.stage \in Undispatched PROVE Untouched(id)'
    OBVIOUS
  <2>1. id \in 1..executions /\ AtGateway(id)
    BY <1>5 DEF LoopInv, FlowSane, AtGateway
  <2>2. ~OnTheWay(id) /\ ~AtAdapter(id) /\ id \notin ledgers.permits
    BY <2>1 DEF LoopInv, OnePlace
  <2>3. ActsOf(id) = {} /\ \A x \in wire : IsCall(x) => x.payload.id # id
    BY <2>2, NoTrace
  <2>4. ActsOf(id)' = {} /\ \A x \in wire' : IsCall(x) => x.payload.id # id
    BY <2>3 DEF GatewayActs, ActsOf
  <2>5. ~OnTheWay(id)' /\ ~AtAdapter(id)' /\ id \in 1..executions'
    BY <2>1, <2>2 DEF GatewayActs, OnTheWay, AtAdapter
  <2> QED
    BY <1>2, <2>4, <2>5 DEF Untouched, Final, IsCall
<1>7. /\ Done(id, pre, a) => Done(id, pre, a)'
      /\ Untouched(id) => Untouched(id)'
  BY <1>4, ClaimStays
<1>8. ASSUME NEW o \in outcomes', o \notin outcomes PROVE OutcomeTrue(o)'
  <2>1. o.id = id /\ o.obs.snap = pre /\ o.action = a /\ o.status = status
    BY <1>5, <1>8 DEF RecordOutcome
  <2>2. \/ status = "completed" /\ Done(id, pre, a)'
        \/ status \in {"not_dispatched", "candidate_rejected", "plc_rejected"} /\ Untouched(id)'
        \/ status \in {"unknown_effect", "observation_diverged"}
    BY <1>5, <1>6, <1>7
  <2> QED
    BY <2>1, <2>2 DEF OutcomeTrue
<1>9. ClaimsEarned
  BY <1>8 DEF ClaimsEarned, GatewayActs
<1>10. FlowSane'
  BY <1>1 DEF FlowSane, Nothing
<1> QED
  BY <1>3, <1>9, <1>10, SettlesInv

(***************************************************************************)
(* The steps up to the dispatch.                                           *)
(***************************************************************************)
LEMMA EarlySteps ==
  ASSUME LoopInv,
         EndsBeforeSimulation \/ EndsBeforeDispatch \/ AuthorizeAction \/ AssessCandidate
  PROVE  LoopInv'
<1>0. GatewayActs
  BY DEF GatewayActs, EndsBeforeSimulation, EndsBeforeDispatch, AuthorizeAction, AssessCandidate,
         serviceVars, netVars
<1>1. CASE EndsBeforeSimulation
  BY <1>0, <1>1, RecordInv DEF EndsBeforeSimulation, Undispatched
<1>2. CASE EndsBeforeDispatch
  BY <1>0, <1>2, RecordInv DEF EndsBeforeDispatch, Undispatched
<1>3. CASE /\ flow # Nothing /\ flow.stage \in {"resolve", "simulate"}
           /\ DOMAIN flow' = DOMAIN flow /\ flow' # Nothing
           /\ flow'.id = flow.id /\ flow'.action = flow.action /\ flow'.obs = flow.obs
           /\ \/ flow'.stage = "simulate"
              \/ /\ flow'.stage = "dispatch"
                 /\ flow'.permit.id = flow.id /\ flow'.permit.action = flow.action
                 /\ flow'.permit.obs = flow.obs /\ flow'.permit.expires \in Int
           /\ UNCHANGED outcomes
  <2>1. \A id : AtGateway(id)' => AtGateway(id)
    BY <1>3 DEF AtGateway, Undispatched
  <2>2. Settles
    BY <1>0, <2>1, GatewaySettles
  <2>3. FlowSane'
    BY <1>0, <1>3 DEF LoopInv, FlowSane, GatewayActs, Undispatched, Nothing
  <2>4. ClaimsEarned
    BY <1>0, <1>3 DEF ClaimsEarned, GatewayActs
  <2> QED
    BY <2>2, <2>3, <2>4, SettlesInv
<1>4. CASE AuthorizeAction
  <2>1. /\ flow # Nothing
        /\ DOMAIN flow = {"id", "action", "obs", "stage", "assessment", "permit", "sent", "ack"}
    BY <1>4 DEF AuthorizeAction, LoopInv, FlowSane
  <2>2. flow' = [flow EXCEPT !.stage = "simulate"]
    BY <1>4 DEF AuthorizeAction
  <2>3. flow' # Nothing
    BY <2>1, <2>2 DEF Nothing
  <2> QED
    BY <1>3, <1>4, <2>1, <2>2, <2>3 DEF AuthorizeAction
<1>5. CASE AssessCandidate
  <2>1. flow # Nothing /\ flow.stage = "simulate"
        /\ DOMAIN flow = {"id", "action", "obs", "stage", "assessment", "permit", "sent", "ack"}
    BY <1>5 DEF AssessCandidate, LoopInv, FlowSane
  <2>2. CASE RecordOutcome("candidate_rejected", Nothing, Nothing)
    BY <1>0, <2>1, <2>2, RecordInv DEF Undispatched
  <2>3. CASE ~RecordOutcome("candidate_rejected", Nothing, Nothing)
    <3>1. PICK assessment, permit :
            /\ flow' = [flow EXCEPT !.stage = "dispatch", !.assessment = assessment, !.permit = permit]
            /\ permit = Permit(flow.id, flow.action, flow.obs, assessment.post, gateway.pins.ot, clk)
            /\ UNCHANGED outcomes
      BY <1>5, <2>3 DEF AssessCandidate
    <3>2. /\ permit.id = flow.id /\ permit.action = flow.action
          /\ permit.obs = flow.obs /\ permit.expires \in Int
      BY <3>1, LoopAssumption DEF Permit, LoopInv, LoopTypes
    <3>3. /\ DOMAIN flow' = DOMAIN flow /\ flow'.stage = "dispatch" /\ flow'.permit = permit
          /\ flow'.id = flow.id /\ flow'.action = flow.action /\ flow'.obs = flow.obs
      BY <2>1, <3>1
    <3>4. flow' # Nothing
      BY <2>1, <3>3 DEF Nothing
    <3> QED
      BY <1>3, <2>1, <3>1, <3>2, <3>3, <3>4
  <2> QED
    BY <2>2, <2>3
<1> QED
  BY <1>1, <1>2, <1>4, <1>5

(***************************************************************************)
(* The answer to the dispatch, or none: only an acknowledgment of this     *)
(* very dispatch is believed.                                              *)
(***************************************************************************)
LEMMA OutcomeArrivesStep ==
  ASSUME LoopInv, OutcomeArrives
  PROVE  LoopInv'
<1>0. /\ flow # Nothing /\ flow.stage = "waiting"
      /\ DOMAIN flow = {"id", "action", "obs", "stage", "assessment", "permit", "sent", "ack"}
      /\ PermitId(flow.sent) = flow.id
      /\ flow.sent.dispatch.action = flow.action /\ flow.sent.dispatch.obs = flow.obs
  BY DEF OutcomeArrives, LoopInv, FlowSane
<1>1. replies' = [replies EXCEPT !.ot = Nothing]
  BY DEF OutcomeArrives
<1>2. GatewayActs
  BY <1>1 DEF OutcomeArrives, GatewayActs, serviceVars, LoopInv, LoopTypes
<1>3. CASE PortVerdict(replies.ot) # "acknowledged"
  <2>1. PortVerdict(replies.ot) = "unknown_effect"
    BY <1>3 DEF PortVerdict
  <2>2. RecordOutcome("unknown_effect", Nothing, Nothing)
    BY <1>3, <2>1 DEF OutcomeArrives
  <2> QED
    BY <1>0, <1>2, <2>2, RecordInv
<1>4. CASE PortVerdict(replies.ot) = "acknowledged"
  <2>1. /\ replies.ot # Nothing /\ replies.ot.http = "ok"
        /\ replies.ot.signed.request = flow.sent
    BY <1>4 DEF PortVerdict, ResponseComplete
  <2> DEFINE ack == replies.ot.signed.ack
  <2>2. \/ ack.status = "applied" /\ Done(flow.id, flow.obs.snap, flow.action)
        \/ ack.status = "rejected" /\ Untouched(flow.id)
        \/ ack.status = "unknown"
    BY <1>0, <2>1 DEF LoopInv, AcksTrue, AckTrue, PermitId
  <2>3. CASE ack.status = "rejected"
    <3>1. PICK status \in {"candidate_rejected", "plc_rejected"} : RecordOutcome(status, ack, Nothing)
      BY <1>4, <2>3 DEF OutcomeArrives
    <3> QED
      BY <1>0, <1>2, <2>2, <2>3, <3>1, RecordInv
  <2>4. CASE ack.status = "unknown"
    <3>1. RecordOutcome("unknown_effect", ack, Nothing)
      BY <1>4, <2>4 DEF OutcomeArrives
    <3> QED
      BY <1>0, <1>2, <3>1, RecordInv
  <2>5. CASE ack.status = "applied"
    <3>1. flow' = [flow EXCEPT !.stage = "post", !.ack = ack] /\ UNCHANGED outcomes
      BY <1>4, <2>5 DEF OutcomeArrives
    <3>2. /\ DOMAIN flow' = DOMAIN flow /\ flow'.stage = "post"
          /\ flow'.id = flow.id /\ flow'.action = flow.action /\ flow'.obs = flow.obs
      BY <1>0, <3>1
    <3>3. \A id : ~AtGateway(id)'
      BY <3>2 DEF AtGateway, Undispatched
    <3>4. Settles
      BY <1>2, <3>3, GatewaySettles
    <3>5. KeepsFinal
      BY <3>4, SettlesKeeps
    <3>6. PICK id, pre, a : id = flow.id /\ pre = flow.obs.snap /\ a = flow.action
      OBVIOUS
    <3>7. Done(id, pre, a)'
      BY <2>2, <2>5, <3>5, <3>6, ClaimStays
    <3>8. Done(flow.id, flow.obs.snap, flow.action)'
      BY <3>2, <3>6, <3>7 DEF Done, Final, AtGateway, OnTheWay, AtAdapter, ActsOf
    <3>9. FlowSane'
      BY <1>0, <1>2, <3>2, <3>8 DEF LoopInv, FlowSane, GatewayActs
    <3>10. ClaimsEarned
      BY <1>2, <3>1 DEF ClaimsEarned, GatewayActs
    <3> QED
      BY <3>4, <3>9, <3>10, SettlesInv
  <2> QED
    BY <2>2, <2>3, <2>4, <2>5
<1> QED
  BY <1>3, <1>4

(***************************************************************************)
(* The observation after the effect, or none.                              *)
(***************************************************************************)
LEMMA CompletionSteps ==
  ASSUME LoopInv, CompleteAction \/ CompletionFails
  PROVE  LoopInv'
<1>0. flow # Nothing /\ flow.stage = "post" /\ Done(flow.id, flow.obs.snap, flow.action)
  BY DEF CompleteAction, CompletionFails, LoopInv, FlowSane
<1>1. CASE CompleteAction
  <2>1. PICK env : ObserverCaptures(env)
    BY <1>1 DEF CompleteAction
  <2>2. GatewayActs
    BY <1>1, <2>1 DEF CompleteAction, ObserverCaptures, GatewayActs, netVars, LoopInv, LoopTypes
  <2>3. PICK status, post :
          /\ status \in {"completed", "observation_diverged", "unknown_effect"}
          /\ RecordOutcome(status, flow.ack, post)
    BY <1>1 DEF CompleteAction
  <2> QED
    BY <1>0, <2>2, <2>3, RecordInv
<1>2. CASE CompletionFails
  <2>1. GatewayActs
    BY <1>2 DEF CompletionFails, GatewayActs, serviceVars
  <2>2. RecordOutcome("unknown_effect", flow.ack, Nothing)
    BY <1>2 DEF CompletionFails
  <2> QED
    BY <1>0, <2>1, <2>2, RecordInv
<1> QED
  BY <1>1, <1>2

----------------------------------------------------------------------------
(***************************************************************************)
(* A new execution has a new number, and names the observation that its    *)
(* request named before, if it did.                                        *)
(***************************************************************************)
LEMMA SubmitStep ==
  ASSUME LoopInv, NEW a \in Actions, SubmitAction(a)
  PROVE  LoopInv'
<1>0. LoopTypes
  BY DEF LoopInv
<1>1. PICK env :
        /\ env # Nothing
        /\ asked[a] # Nothing => env = asked[a]
        /\ asked' = [asked EXCEPT ![a] = env]
        /\ flow' = [id |-> executions + 1, action |-> a, obs |-> env, stage |-> "resolve",
                    assessment |-> Nothing, permit |-> Nothing, sent |-> Nothing, ack |-> Nothing]
  BY DEF SubmitAction
<1>2. /\ UNCHANGED <<clk, plant, calls, ot, ledgers, outcomes, wire, replies, acts>>
      /\ executions' = executions + 1 /\ flow = Nothing
  BY DEF SubmitAction, serviceVars, netVars
<1>3. DOMAIN asked' = Actions /\ asked'[a] = env
  BY <1>0, <1>1 DEF LoopTypes
<1>4. \A b \in Actions : asked[b] # Nothing => asked'[b] = asked[b]
  BY <1>0, <1>1 DEF LoopTypes
<1>5. /\ flow' # Nothing
      /\ DOMAIN flow' = {"id", "action", "obs", "stage", "assessment", "permit", "sent", "ack"}
      /\ flow'.id = executions + 1 /\ flow'.action = a /\ flow'.obs = env /\ flow'.stage = "resolve"
  BY <1>1 DEF Nothing
<1>6. \A id : OnTheWay(id)' = OnTheWay(id) /\ AtAdapter(id)' = AtAdapter(id)
  BY <1>2 DEF OnTheWay, AtAdapter
<1>7. \A id : AtGateway(id)' => id = executions + 1
  BY <1>5 DEF AtGateway
<1>8. \A x : Spent(x)' = Spent(x)
  BY <1>2 DEF Spent
<1>9. executions \in Nat /\ executions' \in Nat /\ 1..executions' = 1..executions \cup {executions + 1}
  BY <1>0, <1>2 DEF LoopTypes
<1>10. KeepsFinal
  <2>1. ASSUME NEW id, Final(id) PROVE Final(id)'
    <3>1. id \in 1..executions' /\ id # executions + 1
      BY <1>9, <2>1 DEF Final
    <3>2. \A x \in wire' : IsCall(x) /\ x.payload.id = id => Spent(x)'
      BY <1>2, <1>8, <2>1 DEF Final
    <3> QED
      BY <1>6, <1>7, <2>1, <3>1, <3>2 DEF Final
  <2> QED
    BY <1>2, <2>1 DEF KeepsFinal, ActsOf
<1>11. LoopTypes'
  BY <1>0, <1>2, <1>3, <1>9 DEF LoopTypes
<1>12. ASSUME NEW d, DispatchSane(d) PROVE DispatchSane(d)'
  BY <1>4, <1>9, <1>12 DEF DispatchSane
<1>13. WireDispatches'
  BY <1>2, <1>12 DEF LoopInv, WireDispatches
<1>14. WireCalls'
  BY <1>2, <1>4 DEF LoopInv, WireCalls, CallSane, IsCall
<1>15. OnePlace'
  <2>1. \A x, y \in wire' : IsDispatch(x) /\ IsDispatch(y) /\ PermitId(x) = PermitId(y) => x = y
    BY <1>2 DEF LoopInv, OnePlace
  <2>2. ~OnTheWay(executions + 1)
    BY <1>9 DEF LoopInv, OnTheWay, WireDispatches, DispatchSane, PermitId
  <2>3. ~AtAdapter(executions + 1)
    BY <1>9 DEF LoopInv, AtAdapter, AdapterSane, DispatchSane, PermitId
  <2>4. executions + 1 \notin ledgers.permits
    BY <1>0, <1>9 DEF LoopTypes
  <2>5. ASSUME NEW id \in 1..executions'
        PROVE  /\ AtGateway(id)' => ~OnTheWay(id)' /\ ~AtAdapter(id)' /\ id \notin ledgers'.permits
               /\ OnTheWay(id)' => ~AtAdapter(id)' /\ id \notin ledgers'.permits
               /\ AtAdapter(id)' => id \notin ledgers'.permits
    <3>1. CASE id = executions + 1
      BY <1>2, <1>6, <2>2, <2>3, <2>4, <3>1
    <3>2. CASE id \in 1..executions
      BY <1>2, <1>6, <1>7, <1>9, <3>2 DEF LoopInv, OnePlace
    <3> QED
      BY <1>9, <3>1, <3>2
  <2> QED
    BY <2>1, <2>5 DEF OnePlace, IsDispatch, PermitId
<1>16. OneCall'
  BY <1>2 DEF LoopInv, OneCall, IsCall
<1>17. AdapterSane'
  <2>1. PICK d : d = ot.job.dispatch
    OBVIOUS
  <2>2. ot.stage # "idle" => DispatchSane(d)'
    BY <1>12, <2>1 DEF LoopInv, AdapterSane
  <2>3. ot'.stage # "idle" => DispatchSane(ot.job.dispatch)'
    BY <1>2, <2>1, <2>2 DEF DispatchSane
  <2> QED
    BY <1>2, <2>3 DEF LoopInv, AdapterSane, ApplyPayload
<1>18. FlowSane'
  BY <1>3, <1>5, <1>9, <1>1 DEF FlowSane, Undispatched, Nothing
<1>19. ActsSane'
  <2>1. \A i \in DOMAIN acts' :
          /\ acts'[i].id \in ledgers'.permits
          /\ acts'[i].action \in Actions /\ asked'[acts'[i].action] # Nothing
          /\ <<acts'[i].action, asked'[acts'[i].action]>> \in ledgers'.actions
          /\ acts'[i].at < acts'[i].deadline
    BY <1>2, <1>4 DEF LoopInv, ActsSane
  <2>2. \A i \in DOMAIN acts' : \A x \in wire' :
            /\ IsCall(x)
            /\ x.payload.id = acts'[i].id \/ x.payload.action = acts'[i].action
            => Spent(x)'
    BY <1>2, <1>8 DEF LoopInv, ActsSane
  <2>3. \A i, j \in DOMAIN acts' : acts'[i].action = acts'[j].action => i = j
    BY <1>2 DEF LoopInv, ActsSane
  <2> QED
    BY <2>1, <2>2, <2>3 DEF ActsSane, Nothing, IsCall
<1>20. ClaimsEarned
  BY <1>2 DEF ClaimsEarned
<1>21. AnswersTrue' /\ AcksTrue' /\ OutcomesTrue'
  BY <1>10, <1>20, ClaimsStay DEF LoopInv
<1> QED
  BY <1>11, <1>13, <1>14, <1>15, <1>16, <1>17, <1>18, <1>19, <1>21 DEF LoopInv

(***************************************************************************)
(* The dispatch is posted: the permit passes from the gateway to the       *)
(* network.                                                                *)
(***************************************************************************)
LEMMA DispatchActionStep ==
  ASSUME LoopInv, DispatchAction
  PROVE  LoopInv'
<1>0. LoopTypes
  BY DEF LoopInv
<1>1. /\ flow # Nothing /\ flow.stage = "dispatch"
      /\ DOMAIN flow = {"id", "action", "obs", "stage", "assessment", "permit", "sent", "ack"}
      /\ flow.id \in 1..executions /\ flow.action \in Actions
      /\ flow.obs # Nothing /\ asked[flow.action] = flow.obs
      /\ flow.permit.id = flow.id /\ flow.permit.action = flow.action
      /\ flow.permit.obs = flow.obs /\ flow.permit.expires \in Int
  BY DEF DispatchAction, LoopInv, FlowSane
<1>2. CASE RecordOutcome("not_dispatched", Nothing, Nothing) /\ UNCHANGED wire
  <2>1. GatewayActs
    BY <1>2 DEF DispatchAction, GatewayActs, serviceVars
  <2> QED
    BY <1>1, <1>2, <2>1, RecordInv DEF Undispatched
<1>3. CASE ~(RecordOutcome("not_dispatched", Nothing, Nothing) /\ UNCHANGED wire)
  <2>1. PICK m :
          /\ m = SignedDispatch([action |-> flow.action, obs |-> flow.obs,
                                 assessment |-> flow.assessment, permit |-> flow.permit],
                                flow.id, clk)
          /\ wire' = wire \cup {m}
          /\ flow' = [flow EXCEPT !.stage = "waiting", !.sent = m]
          /\ UNCHANGED outcomes
    BY <1>3 DEF DispatchAction
  <2>2. /\ IsDispatch(m) /\ ~IsCall(m)
        /\ m.dispatch.action = flow.action /\ m.dispatch.obs = flow.obs
        /\ m.dispatch.permit = flow.permit
    BY <2>1 DEF SignedDispatch, IsDispatch, IsCall
  <2>3. UNCHANGED <<clk, plant, calls, ot, ledgers, asked, executions, replies, acts>>
    BY DEF DispatchAction, serviceVars
  <2>4. /\ DOMAIN flow' = DOMAIN flow /\ flow'.stage = "waiting" /\ flow'.sent = m
        /\ flow'.id = flow.id /\ flow'.action = flow.action /\ flow'.obs = flow.obs
    BY <1>1, <2>1
  <2>5. AtGateway(flow.id)
    BY <1>1 DEF AtGateway, Undispatched
  <2>6. ~OnTheWay(flow.id) /\ ~AtAdapter(flow.id) /\ flow.id \notin ledgers.permits
    BY <1>1, <2>5 DEF LoopInv, OnePlace
  <2>7. PermitId(m) = flow.id
    BY <1>1, <2>2 DEF PermitId
  <2>8. \A id : ~AtGateway(id)'
    BY <2>4 DEF AtGateway, Undispatched
  <2>9. \A id : AtAdapter(id)' = AtAdapter(id)
    BY <2>3 DEF AtAdapter
  <2>10. \A id : OnTheWay(id)' => OnTheWay(id) \/ id = flow.id
    BY <2>1, <2>7 DEF OnTheWay
  <2>11. \A x : Spent(x)' = Spent(x)
    BY <2>3 DEF Spent
  <2>12. KeepsFinal
    <3>1. ASSUME NEW id, Final(id) PROVE Final(id)'
      <4>1. id \in 1..executions' /\ id # flow.id
        BY <2>3, <2>5, <3>1 DEF Final
      <4>2. \A x \in wire' : IsCall(x) /\ x.payload.id = id => Spent(x)'
        BY <2>1, <2>2, <2>11, <3>1 DEF Final
      <4> QED
        BY <2>8, <2>9, <2>10, <3>1, <4>1, <4>2 DEF Final
    <3> QED
      BY <2>3, <3>1 DEF KeepsFinal, ActsOf
  <2>13. LoopTypes'
    BY <1>0, <2>3 DEF LoopTypes
  <2>14. WireDispatches'
    <3>1. DispatchSane(m.dispatch)'
      BY <1>1, <2>2, <2>3 DEF DispatchSane
    <3>2. \A x \in wire : IsDispatch(x) => ~IsCall(x) /\ DispatchSane(x.dispatch)'
      BY <2>3 DEF LoopInv, WireDispatches, DispatchSane
    <3> QED
      BY <2>1, <2>2, <3>1, <3>2 DEF WireDispatches, IsCall, IsDispatch
  <2>15. WireCalls'
    <3> SUFFICES ASSUME NEW x \in wire', IsCall(x) PROVE CallSane(x)'
      BY DEF WireCalls, IsCall
    <3> QED
      BY <2>1, <2>2, <2>3 DEF LoopInv, WireCalls, CallSane
  <2>16. OnePlace'
    <3>1. \A x, y \in wire' : IsDispatch(x) /\ IsDispatch(y) /\ PermitId(x) = PermitId(y) => x = y
      BY <2>1, <2>6, <2>7 DEF LoopInv, OnePlace, OnTheWay
    <3>2. ASSUME NEW id \in 1..executions'
          PROVE  /\ OnTheWay(id)' => ~AtAdapter(id)' /\ id \notin ledgers'.permits
                 /\ AtAdapter(id)' => id \notin ledgers'.permits
      BY <2>3, <2>6, <2>9, <2>10 DEF LoopInv, OnePlace
    <3> QED
      BY <2>8, <3>1, <3>2 DEF OnePlace, IsDispatch, PermitId
  <2>17. OneCall'
    BY <2>1, <2>2 DEF LoopInv, OneCall, IsCall
  <2>18. AdapterSane'
    BY <2>3 DEF LoopInv, AdapterSane, DispatchSane, ApplyPayload
  <2>19. FlowSane'
    BY <1>1, <2>2, <2>3, <2>4, <2>7 DEF FlowSane, PermitId, Nothing, Undispatched
  <2>20. ActsSane'
    <3>1. \A i \in DOMAIN acts : \A x \in wire' :
            /\ IsCall(x)
            /\ x.payload.id = acts[i].id \/ x.payload.action = acts[i].action
            => Spent(x)'
      BY <2>1, <2>2, <2>11 DEF LoopInv, ActsSane
    <3> QED
      BY <2>3, <3>1 DEF LoopInv, ActsSane, IsCall, Nothing
  <2>21. ClaimsEarned
    BY <2>1, <2>3 DEF ClaimsEarned
  <2>22. AnswersTrue' /\ AcksTrue' /\ OutcomesTrue'
    BY <2>12, <2>21, ClaimsStay DEF LoopInv
  <2> QED
    BY <2>13, <2>14, <2>15, <2>16, <2>17, <2>18, <2>19, <2>20, <2>22 DEF LoopInv
<1> QED
  BY <1>2, <1>3

----------------------------------------------------------------------------
\* The adapter is done with a dispatch, or refuses it.
AdapterFinishes ==
  /\ UNCHANGED <<clk, plant, calls, asked, flow, executions, outcomes, acts>>
  /\ wire' \subseteq wire
  /\ DOMAIN ledgers' = DOMAIN ledgers
  /\ ledgers'.permits = ledgers.permits /\ ledgers'.actions = ledgers.actions
  /\ DOMAIN ot' = DOMAIN ot /\ ot'.plant = ot.plant /\ ot'.stage = "idle"
  /\ DOMAIN replies' = DOMAIN replies /\ replies'.plant \in {replies.plant, Nothing}

\* That brings no permit further.
LEMMA AdapterSettles ==
  ASSUME LoopInv, AdapterFinishes
  PROVE  Settles /\ KeepsFinal
<1>1. \A x \in wire : IsCall(x) /\ Spent(x) => Spent(x)'
  BY DEF AdapterFinishes, Spent
<1>2. \A id : AtGateway(id)' => AtGateway(id)
  BY DEF AdapterFinishes, AtGateway, Nothing
<1>3. Settles
  BY <1>1, <1>2 DEF AdapterFinishes, Settles, LoopInv, LoopTypes
<1> QED
  BY <1>3, SettlesKeeps

\* It preserves the invariant if its acknowledgment is true.
LEMMA AdapterFinishesInv ==
  ASSUME LoopInv, AdapterFinishes,
         NEW message, replies'.ot \in {replies.ot, message},
         message # Nothing /\ message.http = "ok" => AckTrue(message.signed)'
  PROVE  LoopInv'
<1>1. Settles
  BY AdapterSettles
<1>2. replies'.ot # Nothing /\ replies'.ot.http = "ok" =>
        replies'.ot = replies.ot \/ AckTrue(replies.ot.signed)'
  <2>1. CASE replies'.ot = message
    <3>1. PICK s : s = message.signed
      OBVIOUS
    <3>2. message # Nothing /\ message.http = "ok" => AckTrue(s)'
      BY <3>1
    <3> QED
      BY <2>1, <3>1, <3>2 DEF AckTrue
  <2> QED
    BY <2>1
<1>3. ClaimsEarned
  BY <1>2 DEF ClaimsEarned, AdapterFinishes
<1> QED
  BY <1>1, <1>3, SettlesInv DEF AdapterFinishes

(***************************************************************************)
(* A rejection ends the permit: nobody else has it.                        *)
(***************************************************************************)
LEMMA RejectionTrue ==
  ASSUME LoopInv, AdapterFinishes, NEW id \in 1..executions,
         ~AtGateway(id), id \notin ledgers.permits, ~OnTheWay(id)'
  PROVE  Untouched(id)'
<1>1. ActsOf(id) = {} /\ \A x \in wire : IsCall(x) => x.payload.id # id
  BY NoTrace
<1>2. ActsOf(id)' = {} /\ \A x \in wire' : IsCall(x) => x.payload.id # id
  BY <1>1 DEF ActsOf, AdapterFinishes
<1>3. ~AtGateway(id)' /\ ~AtAdapter(id)' /\ id \in 1..executions'
  BY DEF AdapterFinishes, AtGateway, AtAdapter, Nothing
<1> QED
  BY <1>2, <1>3 DEF Untouched, Final, IsCall

\* What Finish does to the adapter and the answer.
LEMMA FinishShape ==
  ASSUME LoopInv, NEW m, NEW message, Finish(m, message)
  PROVE  /\ DOMAIN ot' = DOMAIN ot /\ ot'.plant = ot.plant /\ ot'.stage = "idle"
         /\ DOMAIN replies' = DOMAIN replies /\ replies'.plant = replies.plant
         /\ replies'.ot \in {replies.ot, message}
BY DEF Finish, TellGateway, LoopInv, LoopTypes

\* An acknowledgment that is signed is of this dispatch and says what it was to.
LEMMA AcknowledgeShape ==
  ASSUME NEW m, NEW status, NEW reason, NEW pre, NEW post,
         Acknowledge(m, status, reason, pre, post)
  PROVE  \E message :
           /\ Finish(m, message)
           /\ \/ message.http = "error"
              \/ /\ message.http = "ok"
                 /\ message.signed.request = m /\ message.signed.ack.status = status
<1> DEFINE ack == Acknowledgment(m.dispatch.permit, ot.boot, status, reason, pre, post, clk)
           message == IF ResponseIssuable(m, ack, clk)
                      THEN [http |-> "ok", signed |-> SignedResponse(m, ack, clk)] ELSE ServerError
<1>1. Finish(m, message)
  BY DEF Acknowledge
<1>2. ack.status = status
  BY DEF Acknowledgment
<1> HIDE DEF ack
<1>3. \/ message.http = "error"
      \/ message.http = "ok" /\ message.signed.request = m /\ message.signed.ack.status = status
  BY <1>2 DEF SignedResponse, ServerError
<1> QED
  BY <1>1, <1>3

(***************************************************************************)
(* The adapter takes a dispatch, and refuses it or checks it.              *)
(***************************************************************************)
LEMMA OtAdmitsStep ==
  ASSUME LoopInv, NEW m \in wire, OtAdmits(m)
  PROVE  LoopInv'
<1>0. LoopTypes
  BY DEF LoopInv
<1>1. /\ ot.stage = "idle" /\ IsDispatch(m) /\ wire' = wire \ {m}
      /\ UNCHANGED <<clk, plant, calls, asked, flow, executions, outcomes, acts>>
  BY DEF OtAdmits, gatewayVars, IsDispatch
<1>2. /\ DOMAIN ledgers' = DOMAIN ledgers
      /\ ledgers'.permits = ledgers.permits /\ ledgers'.actions = ledgers.actions
  BY <1>0 DEF OtAdmits, LoopTypes
<1> DEFINE id == PermitId(m)
<1>3. DispatchSane(m.dispatch) /\ id \in 1..executions /\ OnTheWay(id)
  BY <1>1 DEF LoopInv, WireDispatches, DispatchSane, PermitId, OnTheWay
<1>4. ~AtGateway(id) /\ ~AtAdapter(id) /\ id \notin ledgers.permits
  BY <1>3 DEF LoopInv, OnePlace
<1>5. ~OnTheWay(id)'
  BY <1>1 DEF LoopInv, OnePlace, OnTheWay
<1>6. ASSUME NEW message, Finish(m, message), message.http # "ok"
      PROVE  LoopInv'
  <2>1. AdapterFinishes /\ replies'.ot \in {replies.ot, message}
    BY <1>1, <1>2, <1>6, FinishShape DEF AdapterFinishes
  <2> QED
    BY <1>6, <2>1, AdapterFinishesInv
<1>7. ASSUME NEW reason, NEW pre, NEW post, Acknowledge(m, "rejected", reason, pre, post)
      PROVE  LoopInv'
  <2>1. PICK message :
          /\ Finish(m, message)
          /\ \/ message.http = "error"
             \/ /\ message.http = "ok"
                /\ message.signed.request = m /\ message.signed.ack.status = "rejected"
    BY <1>7, AcknowledgeShape
  <2>2. AdapterFinishes /\ replies'.ot \in {replies.ot, message}
    BY <1>1, <1>2, <2>1, FinishShape DEF AdapterFinishes
  <2>3. PICK n : n = id
    OBVIOUS
  <2>4. Untouched(n)'
    BY <1>3, <1>4, <1>5, <2>2, <2>3, RejectionTrue
  <2>5. message # Nothing /\ message.http = "ok" => AckTrue(message.signed)'
    BY <2>1, <2>3, <2>4 DEF AckTrue, PermitId
  <2> QED
    BY <2>2, <2>5, AdapterFinishesInv
<1>8. CASE /\ ot' = [ot EXCEPT !.stage = "checked", !.job = m]
           /\ UNCHANGED replies
           /\ DeviceRefusal(m) = "none"
  <2>1. /\ DOMAIN ot' = DOMAIN ot /\ ot'.plant = ot.plant
        /\ ot'.stage = "checked" /\ ot'.job = m
    BY <1>0, <1>8 DEF LoopTypes
  <2>2. <<m.dispatch.action, m.dispatch.obs>> \notin ledgers.actions
    BY <1>8 DEF DeviceRefusal, ActionReplayed
  <2>3. \A n : AtAdapter(n)' => n = id
    BY <2>1 DEF AtAdapter, PermitId
  <2>4. \A n : AtGateway(n)' = AtGateway(n)
    BY <1>1 DEF AtGateway, Nothing
  <2>5. \A n : OnTheWay(n)' => OnTheWay(n) /\ n # id
    BY <1>1, <1>5 DEF OnTheWay
  <2>6. \A x : Spent(x)' = Spent(x)
    BY <1>1 DEF Spent
  <2>7. KeepsFinal
    <3>1. ASSUME NEW n, Final(n) PROVE Final(n)'
      <4>1. n \in 1..executions' /\ n # id
        BY <1>1, <1>3, <3>1 DEF Final
      <4>2. \A x \in wire' : IsCall(x) /\ x.payload.id = n => Spent(x)'
        BY <1>1, <2>6, <3>1 DEF Final
      <4> QED
        BY <2>3, <2>4, <2>5, <3>1, <4>1, <4>2 DEF Final
    <3> QED
      BY <1>1, <3>1 DEF KeepsFinal, ActsOf
  <2>8. LoopTypes'
    BY <1>0, <1>1, <1>2, <1>8, <2>1 DEF LoopTypes
  <2>9. WireDispatches' /\ WireCalls' /\ OneCall'
    BY <1>1, <1>2 DEF LoopInv, WireDispatches, DispatchSane, WireCalls, CallSane, OneCall,
                      IsDispatch, IsCall
  <2>10. OnePlace'
    <3>1. \A x, y \in wire' : IsDispatch(x) /\ IsDispatch(y) /\ PermitId(x) = PermitId(y) => x = y
      BY <1>1 DEF LoopInv, OnePlace
    <3>2. ASSUME NEW n \in 1..executions'
          PROVE  /\ AtGateway(n)' => ~OnTheWay(n)' /\ ~AtAdapter(n)' /\ n \notin ledgers'.permits
                 /\ OnTheWay(n)' => ~AtAdapter(n)' /\ n \notin ledgers'.permits
                 /\ AtAdapter(n)' => n \notin ledgers'.permits
      BY <1>1, <1>2, <1>4, <2>3, <2>4, <2>5 DEF LoopInv, OnePlace
    <3> QED
      BY <3>1, <3>2 DEF OnePlace, IsDispatch, PermitId
  <2>11. AdapterSane'
    <3>1. DispatchSane(ot.job.dispatch)'
      BY <1>1, <1>3, <2>1 DEF DispatchSane
    <3> QED
      BY <1>2, <2>1, <2>2, <3>1 DEF AdapterSane
  <2>12. FlowSane'
    BY <1>1, <2>7, FlowStays DEF LoopInv
  <2>13. ActsSane'
    <3>1. \A i \in DOMAIN acts : \A x \in wire' :
            /\ IsCall(x)
            /\ x.payload.id = acts[i].id \/ x.payload.action = acts[i].action
            => Spent(x)'
      BY <1>1, <2>6 DEF LoopInv, ActsSane
    <3> QED
      BY <1>1, <1>2, <3>1 DEF LoopInv, ActsSane, IsCall, Nothing
  <2>14. ClaimsEarned
    BY <1>1, <1>8 DEF ClaimsEarned
  <2>15. AnswersTrue' /\ AcksTrue' /\ OutcomesTrue'
    BY <2>7, <2>14, ClaimsStay DEF LoopInv
  <2> QED
    BY <2>8, <2>9, <2>10, <2>11, <2>12, <2>13, <2>15 DEF LoopInv
<1>9. \/ \E message : Finish(m, message) /\ message.http # "ok"
      \/ \E reason, pre, post : Acknowledge(m, "rejected", reason, pre, post)
      \/ /\ ot' = [ot EXCEPT !.stage = "checked", !.job = m]
         /\ UNCHANGED replies
         /\ DeviceRefusal(m) = "none"
  <2>1. ServerError.http # "ok" /\ Rejection.http # "ok"
    BY DEF ServerError, Rejection
  <2>2. \/ Finish(m, ServerError) \/ Finish(m, Rejection)
        \/ Acknowledge(m, "rejected", DeviceRefusal(m), plant.snap, Nothing)
        \/ /\ ot' = [ot EXCEPT !.stage = "checked", !.job = m]
           /\ UNCHANGED replies
           /\ DeviceRefusal(m) = "none"
    BY DEF OtAdmits
  <2> QED
    BY <2>1, <2>2
<1> QED
  BY <1>6, <1>7, <1>8, <1>9

(***************************************************************************)
(* The apply goes out: the permit is reserved before, and nothing else has *)
(* been asked of the plant for this permit or for this request.            *)
(***************************************************************************)
LEMMA OtDispatchesStep ==
  ASSUME LoopInv, OtDispatches
  PROVE  LoopInv'
<1>0. LoopTypes
  BY DEF LoopInv
<1> DEFINE m == ot.job
           permit == m.dispatch.permit
           id == PermitId(m)
<1>1. /\ ot.stage = "checked"
      /\ UNCHANGED <<clk, plant, calls, asked, flow, executions, outcomes, acts>>
  BY DEF OtDispatches, gatewayVars
<1>2. DispatchSane(m.dispatch) /\ id \in 1..executions /\ AtAdapter(id)
  BY <1>1 DEF LoopInv, AdapterSane, DispatchSane, PermitId, AtAdapter
<1>3. ~AtGateway(id) /\ ~OnTheWay(id) /\ id \notin ledgers.permits
  BY <1>2 DEF LoopInv, OnePlace
<1>4. <<m.dispatch.action, m.dispatch.obs>> \notin ledgers.actions
  BY <1>1 DEF LoopInv, AdapterSane
<1>5. CASE Finish(m, ServerError) /\ UNCHANGED <<ledgers, wire>>
  <2>1. AdapterFinishes /\ replies'.ot \in {replies.ot, ServerError}
    BY <1>1, <1>5, FinishShape DEF AdapterFinishes
  <2>2. ServerError.http # "ok"
    BY DEF ServerError
  <2> QED
    BY <2>1, <2>2, AdapterFinishesInv
<1>6. ASSUME NEW reason, Acknowledge(m, "rejected", reason, permit.obs.snap, Nothing),
             UNCHANGED <<ledgers, wire>>
      PROVE  LoopInv'
  <2>1. PICK message :
          /\ Finish(m, message)
          /\ \/ message.http = "error"
             \/ /\ message.http = "ok"
                /\ message.signed.request = m /\ message.signed.ack.status = "rejected"
    BY <1>6, AcknowledgeShape
  <2>2. AdapterFinishes /\ replies'.ot \in {replies.ot, message}
    BY <1>1, <1>6, <2>1, FinishShape DEF AdapterFinishes
  <2>3. PICK n : n = id
    OBVIOUS
  <2>4. ~OnTheWay(n)'
    BY <1>3, <1>6, <2>3 DEF OnTheWay
  <2>5. Untouched(n)'
    BY <1>2, <1>3, <2>2, <2>3, <2>4, RejectionTrue
  <2>6. message # Nothing /\ message.http = "ok" => AckTrue(message.signed)'
    BY <2>1, <2>3, <2>5 DEF AckTrue, PermitId
  <2> QED
    BY <2>2, <2>6, AdapterFinishesInv
<1>7. ASSUME NEW call,
             call = PlantCall("plc", "apply", ApplyPayload(permit), ot.plant, <<ot.boot, permit.id>>, clk),
             ledgers' = [ledgers EXCEPT !.permits = @ \cup {permit.id},
                           !.actions = @ \cup {<<m.dispatch.action, m.dispatch.obs>>}],
             wire' = wire \cup {call},
             ot' = [ot EXCEPT !.stage = "applying", !.call = call],
             UNCHANGED replies
      PROVE  LoopInv'
  <2>1. /\ IsCall(call) /\ ~IsDispatch(call)
        /\ call.target = ot.plant /\ call.payload = ApplyPayload(permit)
    BY <1>7 DEF PlantCall, IsCall, IsDispatch
  <2>2. /\ call.payload.id = id /\ call.payload.action = m.dispatch.action
        /\ call.payload.deadline = permit.expires
    BY <1>2, <2>1 DEF ApplyPayload, PermitId, DispatchSane
  <2>3. /\ DOMAIN ledgers' = DOMAIN ledgers
        /\ ledgers'.permits = ledgers.permits \cup {id}
        /\ ledgers'.actions = ledgers.actions \cup {<<m.dispatch.action, m.dispatch.obs>>}
    BY <1>0, <1>7 DEF LoopTypes, PermitId
  <2>4. /\ DOMAIN ot' = DOMAIN ot /\ ot'.plant = ot.plant
        /\ ot'.stage = "applying" /\ ot'.job = m /\ ot'.call = call
    BY <1>0, <1>7 DEF LoopTypes
  <2>5. \A n : ~AtAdapter(n)'
    BY <2>4 DEF AtAdapter
  <2>6. \A n : AtGateway(n)' = AtGateway(n)
    BY <1>1 DEF AtGateway, Nothing
  <2>7. \A n : OnTheWay(n)' = OnTheWay(n)
    BY <1>7, <2>1 DEF OnTheWay
  <2>8. \A x : Spent(x)' = Spent(x)
    BY <1>1 DEF Spent
  <2>9. \A x \in wire : IsCall(x) => x.payload.id # id /\ x.payload.action # m.dispatch.action
    BY <1>2, <1>3, <1>4 DEF LoopInv, WireCalls, CallSane, DispatchSane
  <2>10. \A i \in DOMAIN acts : acts[i].id # id /\ acts[i].action # m.dispatch.action
    BY <1>2, <1>3, <1>4 DEF LoopInv, ActsSane, DispatchSane
  <2>11. KeepsFinal
    <3>1. ASSUME NEW n, Final(n) PROVE Final(n)'
      <4>1. n \in 1..executions' /\ n # id
        BY <1>1, <1>2, <3>1 DEF Final
      <4>2. \A x \in wire' : IsCall(x) /\ x.payload.id = n => Spent(x)'
        BY <1>7, <2>2, <2>8, <3>1, <4>1 DEF Final
      <4> QED
        BY <2>5, <2>6, <2>7, <3>1, <4>1, <4>2 DEF Final
    <3> QED
      BY <1>1, <3>1 DEF KeepsFinal, ActsOf
  <2>12. LoopTypes'
    BY <1>0, <1>1, <1>2, <1>7, <2>3, <2>4 DEF LoopTypes
  <2>13. WireDispatches'
    BY <1>1, <1>7, <2>1 DEF LoopInv, WireDispatches, DispatchSane, IsDispatch, IsCall
  <2>14. WireCalls'
    <3>1. CallSane(call)'
      BY <1>0, <1>1, <1>2, <2>1, <2>2, <2>3 DEF CallSane, DispatchSane, LoopTypes, Nothing
    <3>2. \A x \in wire : IsCall(x) => CallSane(x)'
      BY <1>1, <2>3 DEF LoopInv, WireCalls, CallSane
    <3> QED
      BY <1>7, <3>1, <3>2 DEF WireCalls, IsCall
  <2>15. OnePlace'
    <3>1. \A x, y \in wire' : IsDispatch(x) /\ IsDispatch(y) /\ PermitId(x) = PermitId(y) => x = y
      BY <1>7, <2>1 DEF LoopInv, OnePlace
    <3>2. ASSUME NEW n \in 1..executions'
          PROVE  /\ AtGateway(n)' => ~OnTheWay(n)' /\ ~AtAdapter(n)' /\ n \notin ledgers'.permits
                 /\ OnTheWay(n)' => ~AtAdapter(n)' /\ n \notin ledgers'.permits
                 /\ AtAdapter(n)' => n \notin ledgers'.permits
      BY <1>1, <1>3, <2>3, <2>5, <2>6, <2>7 DEF LoopInv, OnePlace
    <3> QED
      BY <3>1, <3>2 DEF OnePlace, IsDispatch, PermitId
  <2>16. OneCall'
    <3> SUFFICES ASSUME NEW x \in wire', NEW y \in wire', IsCall(x), IsCall(y),
                        x.payload.id = y.payload.id \/ x.payload.action = y.payload.action
                 PROVE  x = y
      BY DEF OneCall, IsCall
    <3>1. CASE x = call /\ y \in wire
      BY <2>2, <2>9, <3>1
    <3>2. CASE y = call /\ x \in wire
      BY <2>2, <2>9, <3>2
    <3>3. CASE x \in wire /\ y \in wire
      BY <3>3 DEF LoopInv, OneCall
    <3> QED
      BY <1>7, <3>1, <3>2, <3>3
  <2>17. AdapterSane'
    <3>1. DispatchSane(ot.job.dispatch)'
      BY <1>1, <1>2, <2>4 DEF DispatchSane
    <3> QED
      BY <2>1, <2>4, <3>1 DEF AdapterSane, ApplyPayload
  <2>18. FlowSane'
    BY <1>1, <2>11, FlowStays DEF LoopInv
  <2>19. ActsSane'
    <3>1. \A i \in DOMAIN acts : \A x \in wire' :
            /\ IsCall(x)
            /\ x.payload.id = acts[i].id \/ x.payload.action = acts[i].action
            => Spent(x)'
      BY <1>7, <2>2, <2>8, <2>10 DEF LoopInv, ActsSane
    <3> QED
      BY <1>1, <2>3, <3>1 DEF LoopInv, ActsSane, IsCall, Nothing
  <2>20. ClaimsEarned
    BY <1>1, <1>7 DEF ClaimsEarned
  <2>21. AnswersTrue' /\ AcksTrue' /\ OutcomesTrue'
    BY <2>11, <2>20, ClaimsStay DEF LoopInv
  <2> QED
    BY <2>12, <2>13, <2>14, <2>15, <2>16, <2>17, <2>18, <2>19, <2>21 DEF LoopInv
<1>8. \/ Finish(m, ServerError) /\ UNCHANGED <<ledgers, wire>>
      \/ \E reason : /\ Acknowledge(m, "rejected", reason, permit.obs.snap, Nothing)
                     /\ UNCHANGED <<ledgers, wire>>
      \/ \E call :
           /\ call = PlantCall("plc", "apply", ApplyPayload(permit), ot.plant, <<ot.boot, permit.id>>, clk)
           /\ ledgers' = [ledgers EXCEPT !.permits = @ \cup {permit.id},
                           !.actions = @ \cup {<<m.dispatch.action, m.dispatch.obs>>}]
           /\ wire' = wire \cup {call}
           /\ ot' = [ot EXCEPT !.stage = "applying", !.call = call]
           /\ UNCHANGED replies
  BY DEF OtDispatches
<1> QED
  BY <1>5, <1>6, <1>7, <1>8

(***************************************************************************)
(* The adapter acknowledges what the plant answered to this very call, or  *)
(* that it does not know.                                                  *)
(***************************************************************************)
LEMMA OtConcludesStep ==
  ASSUME LoopInv, OtConcludes
  PROVE  LoopInv'
<1>0. LoopTypes
  BY DEF LoopInv
<1> DEFINE m == ot.job
           p == m.dispatch.permit
<1>1. /\ ot.stage = "applying" /\ wire' = wire /\ ledgers' = ledgers
      /\ UNCHANGED <<clk, plant, calls, asked, flow, executions, outcomes, acts>>
      /\ ot' = [ot EXCEPT !.stage = "idle", !.job = Nothing, !.call = Nothing]
  BY DEF OtConcludes, gatewayVars
<1>2. DispatchSane(m.dispatch) /\ ot.call.payload = ApplyPayload(p)
  BY <1>1 DEF LoopInv, AdapterSane
<1>3. PICK message :
        /\ replies' = [plant |-> Nothing,
                       ot |-> IF flow # Nothing /\ flow.stage = "waiting" /\ flow.sent = m
                              THEN message ELSE replies.ot]
        /\ \/ message.http = "error"
           \/ /\ message.http = "ok" /\ message.signed.request = m
              /\ \/ message.signed.ack.status = "unknown"
                 \/ message.signed.ack.status = "rejected" /\ ApplyVerdict(replies.plant) = "rejected"
                 \/ /\ message.signed.ack.status = "applied"
                    /\ ApplyVerdict(replies.plant) \notin {"unknown", "rejected"}
  <2> DEFINE ack(status, reason, pre, post) ==
               LET a == Acknowledgment(m.dispatch.permit, ot.boot, status, reason, pre, post, clk)
               IN  IF ResponseIssuable(m, a, clk)
                   THEN [http |-> "ok", signed |-> SignedResponse(m, a, clk)] ELSE ServerError
             verdict == ApplyVerdict(replies.plant)
             snap == m.dispatch.obs.snap
  <2>1. ASSUME NEW status, NEW reason, NEW pre, NEW post
        PROVE  \/ ack(status, reason, pre, post).http = "error"
               \/ /\ ack(status, reason, pre, post).http = "ok"
                  /\ ack(status, reason, pre, post).signed.request = m
                  /\ ack(status, reason, pre, post).signed.ack.status = status
    BY DEF Acknowledgment, SignedResponse, ServerError
  <2>2. ServerError.http = "error"
    BY DEF ServerError
  <2>3. PICK message :
          /\ replies' = [plant |-> Nothing,
                         ot |-> IF flow # Nothing /\ flow.stage = "waiting" /\ flow.sent = m
                                THEN message ELSE replies.ot]
          /\ message =
               CASE verdict = "unknown" ->
                      ack("unknown", "plant_dispatch_outcome_unavailable", snap, Nothing)
                 [] verdict = "rejected" ->
                      LET reason == replies.plant.payload
                      IN  IF reason \notin Changed THEN ack("rejected", reason, snap, Nothing)
                          ELSE IF PlantServes("plc", "read", ot.plant)
                          THEN ack("rejected", reason, plant.snap, Nothing)
                          ELSE ServerError
                 [] OTHER -> ack("applied", "applied", snap, StateDigest(replies.plant.payload))
    BY DEF OtConcludes
  <2> HIDE DEF ack, verdict, snap
  <2>4. \/ verdict = "unknown" /\ \E r, s, t : message = ack("unknown", r, s, t)
        \/ verdict = "rejected" /\ \E r, s, t : message = ack("rejected", r, s, t)
        \/ verdict \notin {"unknown", "rejected"} /\ \E r, s, t : message = ack("applied", r, s, t)
        \/ message = ServerError
    BY <2>3
  <2> QED
    BY <2>1, <2>2, <2>3, <2>4 DEF verdict
<1>4. AdapterFinishes /\ replies'.ot \in {replies.ot, message}
  BY <1>0, <1>1, <1>3 DEF AdapterFinishes, LoopTypes
<1>5. KeepsFinal
  BY <1>4, AdapterSettles
<1>6. ApplyVerdict(replies.plant) # "unknown" =>
        \/ ApplyVerdict(replies.plant) = "ok" /\ Done(p.id, p.obs.snap, p.action)
        \/ ApplyVerdict(replies.plant) = "rejected" /\ Untouched(p.id)
  <2> SUFFICES ASSUME ApplyVerdict(replies.plant) # "unknown"
               PROVE  \/ ApplyVerdict(replies.plant) = "ok" /\ Done(p.id, p.obs.snap, p.action)
                      \/ ApplyVerdict(replies.plant) = "rejected" /\ Untouched(p.id)
    OBVIOUS
  <2>1. /\ replies.plant # Nothing /\ replies.plant.call = ot.call
        /\ ApplyVerdict(replies.plant) = replies.plant.status
    BY DEF ApplyVerdict, ResponseTrusted
  <2>2. AnswerTrue(replies.plant)
    BY <2>1 DEF LoopInv, AnswersTrue
  <2> QED
    BY <1>2, <2>1, <2>2 DEF AnswerTrue, ApplyPayload
<1>7. PICK id, pre, a : id = p.id /\ pre = m.dispatch.obs.snap /\ a = m.dispatch.action
  OBVIOUS
<1>8. p.obs.snap = pre /\ p.action = a
  BY <1>2, <1>7 DEF DispatchSane
<1>9. /\ ApplyVerdict(replies.plant) = "rejected" => Untouched(id)'
      /\ ApplyVerdict(replies.plant) \notin {"unknown", "rejected"} => Done(id, pre, a)'
  BY <1>5, <1>6, <1>7, <1>8, ClaimStays
<1>10. message # Nothing /\ message.http = "ok" => AckTrue(message.signed)'
  BY <1>3, <1>7, <1>9 DEF AckTrue
<1> QED
  BY <1>4, <1>10, AdapterFinishesInv

----------------------------------------------------------------------------
\* Appending an effect keeps the earlier ones and adds one at the end.
LEMMA ActsGrow ==
  ASSUME acts \in Seq(Range(acts)), NEW e, acts' = Append(acts, e)
  PROVE  /\ acts' \in Seq(Range(acts'))
         /\ DOMAIN acts' = DOMAIN acts \cup {Len(acts) + 1}
         /\ Len(acts) + 1 \notin DOMAIN acts
         /\ acts'[Len(acts) + 1] = e
         /\ \A i \in DOMAIN acts : acts'[i] = acts[i]
<1> DEFINE S == Range(acts)
           T == S \cup {e}
<1>1. acts \in Seq(S) /\ acts \in Seq(T)
  <2>1. acts \in Seq(S)
    OBVIOUS
  <2> HIDE DEF S
  <2> QED
    BY <2>1
<1> HIDE DEF S, T
<1>2. e \in T
  BY DEF T
<1>3. /\ acts' \in Seq(T)
      /\ DOMAIN acts = 1..Len(acts) /\ Len(acts) \in Nat
      /\ DOMAIN acts' = 1..(Len(acts) + 1)
      /\ acts'[Len(acts) + 1] = e
      /\ \A i \in DOMAIN acts : acts'[i] = acts[i]
  BY <1>1, <1>2
<1>4. \A i \in DOMAIN acts' : acts'[i] \in Range(acts')
  BY DEF Range
<1>5. acts' \in Seq(Range(acts'))
  <2> DEFINE R == Range(acts')
  <2>1. \A i \in DOMAIN acts' : acts'[i] \in R
    BY <1>4
  <2> HIDE DEF R
  <2>2. acts' \in Seq(R)
    BY <1>3, <2>1
  <2> QED
    BY <2>2 DEF R
<1> QED
  BY <1>3, <1>5

(***************************************************************************)
(* A call that is admitted and not yet reserved: nothing has been done for *)
(* its permit or its request, and once it is reserved nothing will be.     *)
(***************************************************************************)
LEMMA AdmittedCall ==
  ASSUME LoopInv, NEW call \in wire, IsCall(call), ~Spent(call)
  PROVE  /\ call.payload.id \in 1..executions
         /\ \A i \in DOMAIN acts : acts[i].id # call.payload.id
                                   /\ acts[i].action # call.payload.action
         /\ ~Final(call.payload.id)
         /\ ~AtGateway(call.payload.id) /\ ~OnTheWay(call.payload.id) /\ ~AtAdapter(call.payload.id)
         /\ \A x \in wire : IsCall(x) /\ x.payload.id = call.payload.id => x = call
<1>1. call.payload.id \in ledgers.permits /\ call.payload.id \in 1..executions
  BY DEF LoopInv, LoopTypes, WireCalls, CallSane
<1>2. ~AtGateway(call.payload.id) /\ ~OnTheWay(call.payload.id) /\ ~AtAdapter(call.payload.id)
  BY <1>1 DEF LoopInv, OnePlace
<1>3. \A i \in DOMAIN acts : acts[i].id # call.payload.id /\ acts[i].action # call.payload.action
  BY DEF LoopInv, ActsSane
<1>4. \A x \in wire : IsCall(x) /\ x.payload.id = call.payload.id => x = call
  BY DEF LoopInv, OneCall
<1> QED
  BY <1>1, <1>2, <1>3, <1>4 DEF Final

(***************************************************************************)
(* The plant serves a call.                                                *)
(***************************************************************************)
LEMMA PlantExecuteStep ==
  ASSUME LoopInv, NEW call \in wire, PlantExecute(call)
  PROVE  LoopInv'
<1>0. LoopTypes
  BY DEF LoopInv
<1>1. /\ plant.up /\ IsCall(call) /\ wire' \subseteq wire
      /\ UNCHANGED <<clk, ot, ledgers, asked, flow, executions, outcomes>>
  BY DEF PlantExecute, gatewayVars, IsCall
<1>2. ASSUME NEW message, TellOt(message, call)
      PROVE  /\ DOMAIN replies' = {"ot", "plant"} /\ replies'.ot = replies.ot
             /\ replies'.plant \in {replies.plant, message}
  BY <1>0, <1>2 DEF TellOt, LoopTypes
<1>3. \A n : /\ AtGateway(n)' = AtGateway(n) /\ AtAdapter(n)' = AtAdapter(n)
             /\ OnTheWay(n)' => OnTheWay(n)
  BY <1>1 DEF AtGateway, AtAdapter, OnTheWay, Nothing
<1>4. ASSUME NEW message, TellOt(message, call), UNCHANGED <<plant, calls, acts>>,
             message = Nothing \/ AnswerTrue(message)
      PROVE  LoopInv'
  <2>1. \A x \in wire : IsCall(x) /\ Spent(x) => Spent(x)'
    BY <1>4 DEF Spent
  <2>2. Settles
    BY <1>0, <1>1, <1>2, <1>3, <1>4, <2>1 DEF Settles, LoopTypes
  <2>3. KeepsFinal
    BY <2>2, SettlesKeeps
  <2>4. message = Nothing \/ AnswerTrue(message)'
    BY <1>4, <2>3, ClaimStays
  <2>5. replies'.plant # Nothing => replies'.plant = replies.plant \/ AnswerTrue(replies.plant)'
    BY <1>2, <1>4, <2>4 DEF AnswerTrue
  <2>6. ClaimsEarned
    BY <1>1, <1>2, <1>4, <2>5 DEF ClaimsEarned
  <2> QED
    BY <1>1, <2>2, <2>6, SettlesInv
<1>5. CASE ~CallAdmissible(call, plant.boot, clk)
  <2>1. TellOt(Nothing, call) /\ UNCHANGED <<plant, calls, acts>>
    BY <1>5 DEF PlantExecute
  <2> QED
    BY <1>4, <2>1
<1>6. CASE CallAdmissible(call, plant.boot, clk) /\ Prior(call) # {}
  <2>1. PICK c \in calls : TellOt(c.terminal, call) /\ UNCHANGED <<plant, calls, acts>>
    <3>1. (CHOOSE c \in Prior(call) : TRUE) \in calls
      BY <1>6 DEF Prior
    <3> QED
      BY <1>6, <3>1 DEF PlantExecute
  <2>2. c.terminal = Nothing \/ AnswerTrue(c.terminal)
    BY DEF LoopInv, AnswersTrue
  <2> QED
    BY <1>4, <2>1, <2>2
<1>7. CASE CallAdmissible(call, plant.boot, clk) /\ Prior(call) = {}
  <2> DEFINE id == call.payload.id
  <2>1. ~Spent(call)
    BY <1>1, <1>7 DEF Spent, CallAdmissible, Prior
  <2>2. /\ id \in 1..executions
        /\ \A i \in DOMAIN acts : acts[i].id # id /\ acts[i].action # call.payload.action
        /\ ~Final(id) /\ ~AtGateway(id) /\ ~OnTheWay(id) /\ ~AtAdapter(id)
        /\ \A x \in wire : IsCall(x) /\ x.payload.id = id => x = call
    BY <1>1, <2>1, AdmittedCall
  <2>3. PICK refusal, after, terminal :
          /\ refusal \in {ApplyRefusal(call)} \cup ExpiredMeanwhile(call)
          /\ terminal = CASE refusal = "none" -> PlantResponse(call, "ok", after, plant.boot, clk)
                          [] refusal = "plant_call_expired_before_effect" -> Nothing
                          [] OTHER -> PlantResponse(call, "rejected", refusal, plant.boot, clk)
          /\ calls' = calls \cup {[nonce |-> call.nonce, terminal |-> terminal]}
          /\ plant' = IF refusal = "none" THEN [plant EXCEPT !.snap = after] ELSE plant
          /\ acts' = IF refusal = "none"
                     THEN Append(acts, [id |-> call.payload.id, action |-> call.payload.action,
                                        pre |-> plant.snap, at |-> clk,
                                        deadline |-> call.payload.deadline])
                     ELSE acts
          /\ TellOt(terminal, call)
    BY <1>7 DEF PlantExecute
  <2>4. /\ DOMAIN plant' = {"boot", "up", "snap"} /\ plant'.boot = plant.boot /\ plant'.up = plant.up
    BY <1>0, <2>3 DEF LoopTypes
  <2>5. \A x : Spent(x) => Spent(x)'
    BY <2>3, <2>4 DEF Spent
  <2>6. Spent(call)'
    <3>1. PICK c \in calls' : c = [nonce |-> call.nonce, terminal |-> terminal]
      BY <2>3
    <3>2. c.nonce = call.nonce
      BY <3>1
    <3> QED
      BY <3>2 DEF Spent
  <2>7. Final(id)'
    <3>1. id \in 1..executions' /\ ~AtGateway(id)' /\ ~OnTheWay(id)' /\ ~AtAdapter(id)'
      BY <1>1, <1>3, <2>2
    <3>2. \A x \in wire' : IsCall(x) /\ x.payload.id = id => Spent(x)'
      BY <1>1, <2>2, <2>6
    <3> QED
      BY <3>1, <3>2 DEF Final
  <2>8. ASSUME AnswerTrue(terminal)' \/ terminal = Nothing, KeepsFinal
        PROVE  ClaimsEarned
    <3>1. \A c \in calls' : c.terminal # Nothing => c \in calls \/ AnswerTrue(c.terminal)'
      BY <2>3, <2>8 DEF AnswerTrue
    <3>2. replies'.plant # Nothing => replies'.plant = replies.plant \/ AnswerTrue(replies.plant)'
      BY <1>2, <2>3, <2>8 DEF AnswerTrue
    <3> QED
      BY <1>1, <1>2, <2>3, <3>1, <3>2 DEF ClaimsEarned
  <2>9. CASE refusal # "none"
    <3>1. plant' = plant /\ acts' = acts
      BY <2>3, <2>9
    <3>2. Settles
      BY <1>0, <1>1, <1>2, <1>3, <2>3, <2>5, <3>1 DEF Settles, LoopTypes
    <3>3. KeepsFinal
      BY <3>2, SettlesKeeps
    <3>4. Untouched(id)'
      BY <2>2, <2>7, <3>1 DEF Untouched, ActsOf
    <3>5. AnswerTrue(terminal)' \/ terminal = Nothing
      <4>1. terminal = Nothing \/ (terminal.status = "rejected" /\ terminal.call = call)
        BY <2>3, <2>9 DEF PlantResponse
      <4> QED
        BY <3>4, <4>1 DEF AnswerTrue
    <3> QED
      BY <1>1, <2>8, <3>2, <3>3, <3>5, SettlesInv
  <2>10. CASE refusal = "none"
    <3>1. /\ acts' = Append(acts, [id |-> call.payload.id, action |-> call.payload.action,
                                   pre |-> plant.snap, at |-> clk,
                                   deadline |-> call.payload.deadline])
          /\ terminal = PlantResponse(call, "ok", after, plant.boot, clk)
      BY <2>3, <2>10
    <3>2. ApplyRefusal(call) = "none"
      BY <2>3, <2>10 DEF ExpiredMeanwhile
    <3>3. ~(clk >= call.payload.deadline) /\ plant.snap = call.payload.pre
      BY <3>2 DEF ApplyRefusal
    <3>4. CallSane(call)
      BY <1>1 DEF LoopInv, WireCalls
    <3> DEFINE k == Len(acts) + 1
    <3>5. PICK e : /\ acts' = Append(acts, e)
                   /\ e.id = id /\ e.action = call.payload.action /\ e.pre = call.payload.pre
                   /\ e.at < e.deadline
      <4>1. clk < call.payload.deadline
        BY <1>0, <3>3, <3>4 DEF LoopTypes, CallSane
      <4> QED
        BY <3>1, <3>3, <4>1
    <3>6. /\ acts' \in Seq(Range(acts'))
          /\ DOMAIN acts' = DOMAIN acts \cup {k} /\ k \notin DOMAIN acts
          /\ acts'[k] = e
          /\ \A i \in DOMAIN acts : acts'[i] = acts[i]
      BY <1>0, <3>5, ActsGrow DEF LoopTypes
    <3> HIDE DEF k
    <3>7. ActsOf(id)' = {k} /\ \A n : n # id => ActsOf(n)' = ActsOf(n)
      BY <2>2, <3>5, <3>6 DEF ActsOf
    <3>8. KeepsFinal
      <4>1. ASSUME NEW n, Final(n) PROVE Final(n)' /\ ActsOf(n)' = ActsOf(n)
        <5>1. n # id
          BY <2>2, <4>1
        <5>2. \A x \in wire' : IsCall(x) /\ x.payload.id = n => Spent(x)'
          BY <1>1, <2>5, <4>1 DEF Final
        <5> QED
          BY <1>1, <1>3, <3>7, <4>1, <5>1, <5>2 DEF Final
      <4> QED
        BY <3>6, <4>1 DEF KeepsFinal
    <3>9. AnswerTrue(terminal)'
      <4>1. terminal.status = "ok" /\ terminal.call = call
        BY <3>1 DEF PlantResponse
      <4>2. Done(id, call.payload.pre, call.payload.action)'
        BY <2>7, <3>5, <3>6, <3>7 DEF Done
      <4> QED
        BY <4>1, <4>2 DEF AnswerTrue
    <3>10. ClaimsEarned
      BY <2>8, <3>8, <3>9
    <3>11. LoopTypes'
      BY <1>0, <1>1, <1>2, <2>3, <2>4, <3>6 DEF LoopTypes
    <3>12. WireDispatches' /\ OneCall' /\ AdapterSane'
      BY <1>1 DEF LoopInv, WireDispatches, DispatchSane, OneCall, IsDispatch, IsCall, AdapterSane,
                  ApplyPayload
    <3>13. WireCalls'
      BY <1>1, <2>4 DEF LoopInv, WireCalls, CallSane, IsCall
    <3>14. OnePlace'
      <4>1. \A x, y \in wire' : IsDispatch(x) /\ IsDispatch(y) /\ PermitId(x) = PermitId(y) => x = y
        BY <1>1 DEF LoopInv, OnePlace
      <4> QED
        BY <1>1, <1>3, <4>1 DEF LoopInv, OnePlace, IsDispatch, PermitId
    <3>15. FlowSane'
      BY <1>1, <3>8, FlowStays DEF LoopInv
    <3>16. ActsSane'
      <4>1. \A i \in DOMAIN acts' :
              /\ acts'[i].id \in ledgers'.permits
              /\ acts'[i].action \in Actions /\ asked'[acts'[i].action] # Nothing
              /\ <<acts'[i].action, asked'[acts'[i].action]>> \in ledgers'.actions
              /\ acts'[i].at < acts'[i].deadline
        <5> SUFFICES ASSUME NEW i \in DOMAIN acts'
                     PROVE  /\ acts'[i].id \in ledgers'.permits
                            /\ acts'[i].action \in Actions /\ asked'[acts'[i].action] # Nothing
                            /\ <<acts'[i].action, asked'[acts'[i].action]>> \in ledgers'.actions
                            /\ acts'[i].at < acts'[i].deadline
          OBVIOUS
        <5>1. CASE i \in DOMAIN acts
          BY <1>1, <3>6, <5>1 DEF LoopInv, ActsSane
        <5>2. CASE i = k
          BY <1>1, <3>4, <3>5, <3>6, <5>2 DEF CallSane
        <5> QED
          BY <3>6, <5>1, <5>2
      <4>2. \A i \in DOMAIN acts' : \A x \in wire' :
              /\ IsCall(x)
              /\ x.payload.id = acts'[i].id \/ x.payload.action = acts'[i].action
              => Spent(x)'
        <5> SUFFICES ASSUME NEW i \in DOMAIN acts', NEW x \in wire', IsCall(x),
                            x.payload.id = acts'[i].id \/ x.payload.action = acts'[i].action
                     PROVE  Spent(x)'
          OBVIOUS
        <5>1. CASE i \in DOMAIN acts
          BY <1>1, <2>5, <3>6, <5>1 DEF LoopInv, ActsSane
        <5>2. CASE i = k
          <6>1. x = call
            BY <1>1, <3>5, <3>6, <5>2 DEF LoopInv, OneCall
          <6> QED
            BY <2>6, <6>1
        <5> QED
          BY <3>6, <5>1, <5>2
      <4>3. \A i, j \in DOMAIN acts' : acts'[i].action = acts'[j].action => i = j
        BY <2>2, <3>5, <3>6 DEF LoopInv, ActsSane
      <4> QED
        BY <4>1, <4>2, <4>3 DEF ActsSane, Nothing, IsCall
    <3>17. AnswersTrue' /\ AcksTrue' /\ OutcomesTrue'
      BY <3>8, <3>10, ClaimsStay DEF LoopInv
    <3> QED
      BY <3>11, <3>12, <3>13, <3>14, <3>15, <3>16, <3>17 DEF LoopInv
  <2> QED
    BY <2>9, <2>10
<1> QED
  BY <1>5, <1>6, <1>7

\* Every step preserves the invariant.
LEMMA NextLoopInv == LoopInv /\ [LoopNext]_loopVars => LoopInv'
<1> SUFFICES ASSUME LoopInv, [LoopNext]_loopVars PROVE LoopInv'
  OBVIOUS
<1>1. CASE LoopTick \/ AgentCaptures \/ LateCapture \/ GiveUpCapture \/ UNCHANGED loopVars
  BY <1>1, QuietSteps
<1>2. CASE Stop
  BY <1>2, StopStep
<1>3. CASE Build
  <2>1. BuildPlant \/ BuildObserver \/ BuildCandidate \/ BuildOt \/ BuildGateway
    BY <1>3 DEF Build
  <2> QED
    BY <1>3, <2>1, BuildPlantStep, BuildOtStep, QuietSteps
<1>4. CASE \E call \in wire : PlantExecute(call) \/ OtAdmits(call)
  BY <1>4, PlantExecuteStep, OtAdmitsStep
<1>5. CASE \E a \in Actions : SubmitAction(a)
  BY <1>5, SubmitStep
<1>6. CASE EndsBeforeSimulation \/ AuthorizeAction \/ AssessCandidate \/ EndsBeforeDispatch
  BY <1>6, EarlySteps
<1>7. CASE DispatchAction \/ OtDispatches \/ OtConcludes
  BY <1>7, DispatchActionStep, OtDispatchesStep, OtConcludesStep
<1>8. CASE OutcomeArrives \/ CompleteAction \/ CompletionFails
  BY <1>8, OutcomeArrivesStep, CompletionSteps
<1> QED
  BY <1>1, <1>2, <1>3, <1>4, <1>5, <1>6, <1>7, <1>8 DEF LoopNext

(***************************************************************************)
(* The inductive invariant holds throughout: of every execution one party  *)
(* at most can still act, and nobody has been told anything about its      *)
(* effect that can become false.  About the whole loop of                  *)
(* segmented_capability_runtime.py.                                        *)
(***************************************************************************)
THEOREM LoopInvariant == LoopSpec => []LoopInv
<1>1. LoopInit => LoopInv
  BY InitLoopInv
<1>2. LoopInv /\ [LoopNext]_loopVars => LoopInv'
  BY NextLoopInv
<1> QED
  BY <1>1, <1>2, PTL DEF LoopSpec

(***************************************************************************)
(* What the gateway recorded stays true of the plant: completed means one  *)
(* effect from the observed state, not dispatched or rejected means none   *)
(* ever, every effect is within its permit's lifetime, and a request has   *)
(* one effect at most.  About RemoteVirtualPlcPort.execute,                *)
(* _RemotePlantClient._exchange_call, CapabilityOtRuntime.execute and      *)
(* CapabilityPlantRuntime.execute.                                         *)
(***************************************************************************)
THEOREM SegmentedClaims == LoopSpec => []SegmentedClaimsAreTrue
<1>1. LoopInv => SegmentedClaimsAreTrue
  <2> SUFFICES ASSUME LoopInv PROVE SegmentedClaimsAreTrue
    OBVIOUS
  <2>1. \A o \in outcomes :
          CASE o.status = "completed" ->
                 \E i \in ActsOf(o.id) :
                   ActsOf(o.id) = {i} /\ acts[i].pre = o.obs.snap /\ acts[i].action = o.action
            [] o.status \in {"not_dispatched", "candidate_rejected", "plc_rejected"} ->
                 ActsOf(o.id) = {}
            [] OTHER -> o.status \in {"unknown_effect", "observation_diverged"}
    <3> SUFFICES ASSUME NEW o \in outcomes
                 PROVE  CASE o.status = "completed" ->
                               \E i \in ActsOf(o.id) :
                                 ActsOf(o.id) = {i} /\ acts[i].pre = o.obs.snap
                                                    /\ acts[i].action = o.action
                          [] o.status \in {"not_dispatched", "candidate_rejected", "plc_rejected"} ->
                               ActsOf(o.id) = {}
                          [] OTHER -> o.status \in {"unknown_effect", "observation_diverged"}
      OBVIOUS
    <3>1. OutcomeTrue(o)
      BY DEF LoopInv, OutcomesTrue
    <3>2. CASE o.status = "completed"
      <4>1. Done(o.id, o.obs.snap, o.action)
        BY <3>1, <3>2 DEF OutcomeTrue
      <4> QED
        BY <3>2, <4>1 DEF Done
    <3>3. CASE o.status \in {"not_dispatched", "candidate_rejected", "plc_rejected"}
      BY <3>1, <3>3 DEF OutcomeTrue, Untouched
    <3>4. CASE o.status \in {"unknown_effect", "observation_diverged"}
      BY <3>4
    <3> QED
      BY <3>1, <3>2, <3>3, <3>4 DEF OutcomeTrue
  <2>2. /\ \A i \in DOMAIN acts : acts[i].at < acts[i].deadline
        /\ \A i, j \in DOMAIN acts : acts[i].action = acts[j].action => i = j
    BY DEF LoopInv, ActsSane
  <2> QED
    BY <2>1, <2>2 DEF SegmentedClaimsAreTrue
<1> QED
  BY <1>1, LoopInvariant, PTL

================================================================================
