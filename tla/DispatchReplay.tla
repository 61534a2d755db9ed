---------------------------- MODULE DispatchReplay -----------------------------
(***************************************************************************)
(* Replay protection of CapabilityOtRuntime.execute, the uncoordinated     *)
(* path of a signed dispatch to the device.  Two durable ledgers stand in  *)
(* line: the transport (or workload) ledger takes the nonce and the digest *)
(* of the signed envelope, the PLC's semantic ledger the four identifiers  *)
(* of the permit in it.  Each is read from its file and rewritten whole on *)
(* every reservation, by the one process that has its writer lock.         *)
(***************************************************************************)
EXTENDS Naturals, FiniteSets

CONSTANTS
    Permits,       \* authorised commands
    Marks,         \* request digests, permit ids, permit nonces, command ids
    MarksOf,       \* the identifiers each permit carries
    Envelopes,     \* signed dispatches; one stands for its own digest
    NonceOf,       \* transport nonce of an envelope
    PermitOf,      \* permit an envelope carries
    Threads,       \* request handlers
    Instances,     \* OT runtime processes configured with these ledger files
    InstanceOf,    \* the process a handler runs in
    NoEnvelope,
    TransportCap,  \* MAX_RESERVATIONS
    SemanticCap    \* MAX_LEDGER_BYTES of the semantic ledger, in identifiers

ASSUME ReplayAssumption ==
    /\ MarksOf \in [Permits -> (SUBSET Marks) \ {{}}]
    /\ IsFiniteSet(Marks) /\ IsFiniteSet(Envelopes)
    /\ PermitOf \in [Envelopes -> Permits]
    /\ DOMAIN NonceOf = Envelopes
    /\ InstanceOf \in [Threads -> Instances]
    /\ NoEnvelope \notin Envelopes
    /\ TransportCap \in Nat /\ SemanticCap \in Nat

VARIABLES
    transport,   \* transport ledger file: the envelopes whose nonce is reserved
    semantic,    \* semantic ledger file: the identifiers reserved
    running,     \* processes that serve; each holds both writer locks
    pc, job,     \* where a handler is, and its envelope
    seen,        \* the ledger it read for the reservation it is making
    passed,      \* history: how often an envelope passed the transport ledger
    dispatched   \* history: how often a permit reached the plant

vars == <<transport, semantic, running, pc, job, seen, passed, dispatched>>

Steps == {"idle", "received", "transport_read", "reserved", "checked",
          "semantic_read", "granted"}

TypeOK ==
    /\ transport \subseteq Envelopes
    /\ semantic \subseteq Marks
    /\ running \subseteq Instances
    /\ pc \in [Threads -> Steps]
    /\ job \in [Threads -> Envelopes \cup {NoEnvelope}]
    /\ seen \in [Threads -> SUBSET (Envelopes \cup Marks)]
    /\ passed \in [Envelopes -> Nat]
    /\ dispatched \in [Permits -> Nat]

Init ==
    /\ transport = {}
    /\ semantic = {}
    /\ running = {}
    /\ pc = [t \in Threads |-> "idle"]
    /\ job = [t \in Threads |-> NoEnvelope]
    /\ seen = [t \in Threads |-> {}]
    /\ passed = [e \in Envelopes |-> 0]
    /\ dispatched = [p \in Permits |-> 0]

--------------------------------------------------------------------------------
Goto(t, l) == pc' = [pc EXCEPT ![t] = l]

\* The handler answers; what it read goes out of scope.
Answer(t) ==
    /\ Goto(t, "idle")
    /\ job' = [job EXCEPT ![t] = NoEnvelope]
    /\ seen' = [seen EXCEPT ![t] = {}]

\* No handler of the same process is in one of these steps: a ledger's RLock,
\* or the device's lock.
Unlocked(t, steps) ==
    \A u \in Threads : InstanceOf[u] = InstanceOf[t] => pc[u] \notin steps

\* _persist replaces the file, does not, or replaces it and raises because the
\* directory could not be synced.
Writes == {"ok", "failed", "kept"}

\* _load refuses a file above the limit.
TransportLoads == Cardinality(transport) <= TransportCap

\* Faulty variant: the semantic ledger is read whatever its size.
SemanticAlwaysLoads == TRUE

SemanticLoads == Cardinality(semantic) <= SemanticCap

\* Faulty variant: a process starts although another holds the writer lock.
WriterLockIgnored == TRUE

\* _LifetimeReplayWriterLock: taken before the file is read, kept until the
\* process ends.
WriterLockFree == running = {}

Start(i) ==
    /\ i \notin running
    /\ WriterLockFree
    /\ TransportLoads /\ SemanticLoads
    /\ running' = running \cup {i}
    /\ UNCHANGED <<transport, semantic, pc, job, seen, passed, dispatched>>

Crash(i) ==
    /\ i \in running
    /\ running' = running \ {i}
    /\ pc' = [t \in Threads |-> IF InstanceOf[t] = i THEN "idle" ELSE pc[t]]
    /\ job' = [t \in Threads |-> IF InstanceOf[t] = i THEN NoEnvelope ELSE job[t]]
    /\ seen' = [t \in Threads |-> IF InstanceOf[t] = i THEN {} ELSE seen[t]]
    /\ UNCHANGED <<transport, semantic, passed, dispatched>>

--------------------------------------------------------------------------------
\* An authentic envelope within its lifetime arrives, perhaps not for the first
\* time.
Receive(t, e) ==
    /\ pc[t] = "idle"
    /\ InstanceOf[t] \in running
    /\ job' = [job EXCEPT ![t] = e]
    /\ Goto(t, "received")
    /\ UNCHANGED <<transport, semantic, running, seen, passed, dispatched>>

\* The ledger file cannot be read just now.
Unreadable(t) ==
    /\ pc[t] \in {"received", "reserved"}
    /\ Answer(t)
    /\ UNCHANGED <<transport, semantic, running, passed, dispatched>>

\* Faulty variant: the digest is compared, the nonce is not.
KnownDigest(e, ledger) == e \in ledger

\* The nonce is reserved, or the digest is one of the reserved values.
KnownEnvelope(e, ledger) == e \in ledger \/ \E d \in ledger : NonceOf[d] = NonceOf[e]

\* DurableTransportReplayLedger.reserve, up to the rewrite.
ReadTransport(t) ==
    /\ pc[t] = "received"
    /\ Unlocked(t, {"transport_read"})
    /\ TransportLoads /\ ~KnownEnvelope(job[t], transport)
    /\ seen' = [seen EXCEPT ![t] = transport]
    /\ Goto(t, "transport_read")
    /\ UNCHANGED <<transport, semantic, running, job, passed, dispatched>>

RefuseTransport(t) ==
    /\ pc[t] = "received"
    /\ Unlocked(t, {"transport_read"})
    /\ ~TransportLoads \/ KnownEnvelope(job[t], transport)
    /\ Answer(t)
    /\ UNCHANGED <<transport, semantic, running, passed, dispatched>>

\* Faulty variant: nothing bounds the ledger when it is written.
AnySize(ledger) == TRUE

\* _persist refuses a ledger that _load would not take back.
WithinCapacity(ledger) == Cardinality(ledger) <= TransportCap

WriteTransport(t, w) ==
    LET new == seen[t] \cup {job[t]} IN
    /\ pc[t] = "transport_read"
    /\ WithinCapacity(new)
    /\ transport' = IF w = "failed" THEN transport ELSE new
    /\ \/ /\ w = "ok"
          /\ passed' = [passed EXCEPT ![job[t]] = @ + 1]
          /\ seen' = [seen EXCEPT ![t] = {}]
          /\ Goto(t, "reserved")
          /\ UNCHANGED job
       \/ /\ w # "ok"
          /\ Answer(t)
          /\ UNCHANGED passed
    /\ UNCHANGED <<semantic, running, dispatched>>

TransportFull(t) ==
    /\ pc[t] = "transport_read"
    /\ ~WithinCapacity(seen[t] \cup {job[t]})
    /\ Answer(t)
    /\ UNCHANGED <<transport, semantic, running, passed, dispatched>>

--------------------------------------------------------------------------------
\* Faulty variant: the permit itself is stored in place of its identifiers.
PermitAsked(t) == {PermitOf[job[t]]}

MarksAsked(t) == MarksOf[PermitOf[job[t]]]

\* Faulty variant: only a permit seen with all its identifiers is a replay.
ReplayedWhole(t, ledger) == MarksAsked(t) \subseteq ledger

\* _replay_reason: any one of the four identifiers is enough.
Replayed(t, ledger) == MarksAsked(t) \cap ledger # {}

DeviceSteps == {"checked", "semantic_read", "granted"}

\* CapabilityVirtualPlc.execute under its lock: replay_reason comes first.
EnterDevice(t) ==
    /\ pc[t] = "reserved"
    /\ Unlocked(t, DeviceSteps)
    /\ SemanticLoads /\ ~Replayed(t, semantic)
    /\ Goto(t, "checked")
    /\ UNCHANGED <<transport, semantic, running, job, seen, passed, dispatched>>

RefuseReplay(t) ==
    /\ pc[t] = "reserved"
    /\ Unlocked(t, DeviceSteps)
    /\ ~SemanticLoads \/ Replayed(t, semantic)
    /\ Answer(t)
    /\ UNCHANGED <<transport, semantic, running, passed, dispatched>>

\* One of the checks of the permit fails, the candidate is no longer the one
\* assessed, the permit has expired, or reserve refuses.
RefuseChecked(t) ==
    /\ pc[t] = "checked"
    /\ Answer(t)
    /\ UNCHANGED <<transport, semantic, running, passed, dispatched>>

\* OrderlyRestartReplayReservations.reserve reads the file and looks again.
ReadSemantic(t) ==
    /\ pc[t] = "checked"
    /\ SemanticLoads /\ ~Replayed(t, semantic)
    /\ seen' = [seen EXCEPT ![t] = semantic]
    /\ Goto(t, "semantic_read")
    /\ UNCHANGED <<transport, semantic, running, job, passed, dispatched>>

\* The rewrite, whatever the size of the new ledger.
WriteSemantic(t, w) ==
    /\ pc[t] = "semantic_read"
    /\ semantic' = IF w = "failed" THEN semantic ELSE seen[t] \cup MarksAsked(t)
    /\ \/ /\ w = "ok"
          /\ seen' = [seen EXCEPT ![t] = {}]
          /\ Goto(t, "granted")
          /\ UNCHANGED job
       \/ w # "ok" /\ Answer(t)
    /\ UNCHANGED <<transport, running, passed, dispatched>>

\* The permit is still valid: the plant is called, once, whatever comes back.
Dispatch(t) ==
    /\ pc[t] = "granted"
    /\ dispatched' = [dispatched EXCEPT ![PermitOf[job[t]]] = @ + 1]
    /\ Answer(t)
    /\ UNCHANGED <<transport, semantic, running, passed>>

\* It expired while it was being reserved.
ExpiredAfterReservation(t) ==
    /\ pc[t] = "granted"
    /\ Answer(t)
    /\ UNCHANGED <<transport, semantic, running, passed, dispatched>>

Next ==
    \/ \E i \in Instances : Start(i) \/ Crash(i)
    \/ \E t \in Threads :
          \/ \E e \in Envelopes : Receive(t, e)
          \/ Unreadable(t)
          \/ ReadTransport(t)
          \/ RefuseTransport(t)
          \/ \E w \in Writes : WriteTransport(t, w)
          \/ TransportFull(t)
          \/ EnterDevice(t)
          \/ RefuseReplay(t)
          \/ RefuseChecked(t)
          \/ ReadSemantic(t)
          \/ \E w \in Writes : WriteSemantic(t, w)
          \/ Dispatch(t)
          \/ ExpiredAfterReservation(t)

Spec == Init /\ [][Next]_vars

--------------------------------------------------------------------------------
(***************************************************************************)
(* A transport nonce passes at most once, over all deliveries, handlers,   *)
(* crashes and restarts, failed writes and processes that want the ledger. *)
(***************************************************************************)
NoncePassesOnce ==
    \A d, e \in Envelopes :
        NonceOf[d] = NonceOf[e] /\ passed[d] > 0 /\ passed[e] > 0 =>
            d = e /\ passed[e] = 1

(***************************************************************************)
(* The plant is called at most once for a permit, and never for two        *)
(* permits that share an identifier, however many envelopes carry them.    *)
(***************************************************************************)
PermitDispatchedOnce ==
    \A p, q \in Permits :
        dispatched[p] > 0 /\ dispatched[q] > 0 /\ MarksOf[p] \cap MarksOf[q] # {} =>
            p = q /\ dispatched[p] = 1

(***************************************************************************)
(* A full transport ledger refuses without becoming unreadable: the        *)
(* process can always be restarted on it.                                  *)
(***************************************************************************)
TransportStaysReadable == Cardinality(transport) <= TransportCap

(***************************************************************************)
(* The semantic ledger has no such guard: the reservation that takes it    *)
(* over its limit is granted, and from then on the file never changes, no  *)
(* process starts and no other permit is granted.                          *)
(***************************************************************************)
SemanticExhaustion ==
    [][Cardinality(semantic) > SemanticCap =>
          /\ semantic' = semantic
          /\ running' \subseteq running
          /\ \A t \in Threads : pc'[t] = "granted" => pc[t] = "granted"]_vars

================================================================================
