--------------------------- MODULE PhysicalControl ---------------------------
(***************************************************************************)
(* The M3 closed loop over the Modbus device (physical_control.py,         *)
(* modbus_device.py): controllers that capture, authorize, simulate,       *)
(* dispatch and read back, each through a client of its own whose every    *)
(* operation is a sequence of exchanges with one shared mailbox.  An       *)
(* exchange may be lost before the device or answered in vain; pymodbus    *)
(* then raises, and the client does not repeat it.                         *)
(***************************************************************************)
EXTENDS Integers, Sequences, SequencesExt, FiniteSets

----------------------------------------------------------------------------
(***************************************************************************)
(* The virtual Modbus device (modbus_device.py, modbus_wire.py and the     *)
(* control device of physical_control.py): one mailbox of holding          *)
(* registers in which a client stages a request, commits it and reads a    *)
(* signed response, in front of a control device that enforces permits.    *)
(* A header is told apart by operation, transaction number and payload     *)
(* digest, never by the client that wrote it.                              *)
(***************************************************************************)

CONSTANTS
  Proposals,      \* proposed actions; each stands for its command
  Unsafe          \* the commands whose candidate state violates a limit

VARIABLES
  plant,          \* [state, seq]: the plant in the device process
  effects,        \* history: the permits applied, in order
  consumed,       \* permits the control device has reserved
  mailbox,        \* the registers and the service's own transaction state
  counter         \* device_transaction_counter

deviceVars == <<plant, effects, consumed, mailbox, counter>>

None == [none |-> TRUE]
Candidate(state, p) == [version |-> state.version + 1, setting |-> p]

DeviceInit ==
  /\ plant = [state |-> [version |-> 0, setting |-> "baseline"], seq |-> 0]
  /\ effects = <<>>
  /\ consumed = {}
  /\ mailbox = [active |-> None, terminal |-> FALSE, staged |-> None, response |-> None]
  /\ counter = 0

\* Request payloads: what the operation is about.
Empty == [about |-> "nothing"]
CommandPayload(p) == [command |-> p]
PermitPayload(permit) == [permit |-> permit]

Header(op, tid, payload) == [op |-> op, tid |-> tid, payload |-> payload]

--------------------------------------------------------------------------------
(* The register writes, each one exchange: what the service accepts. *)

BeginAccepted(h) ==
  mailbox.active = None \/ (h = mailbox.active /\ ~mailbox.terminal)

ServeBegin(h) ==
  /\ mailbox' = IF mailbox.active # None THEN mailbox
                ELSE [mailbox EXCEPT !.active = h, !.response = None]
  /\ UNCHANGED <<plant, effects, consumed, counter>>

\* Payload registers belong to nobody: any client may write them while some
\* transaction is being staged.
StageAccepted == mailbox.active # None /\ ~mailbox.terminal

ServeStage(payload) ==
  /\ mailbox' = IF StageAccepted THEN [mailbox EXCEPT !.staged = payload] ELSE mailbox
  /\ UNCHANGED <<plant, effects, consumed, counter>>

ReleaseAccepted(h) ==
  mailbox.active # None /\ mailbox.terminal /\ h = mailbox.active

ServeRelease(h) ==
  /\ mailbox' = IF ReleaseAccepted(h)
                THEN [mailbox EXCEPT !.active = None, !.terminal = FALSE] ELSE mailbox
  /\ UNCHANGED <<plant, effects, consumed, counter>>

--------------------------------------------------------------------------------
(* The control device behind a committed EXECUTE request. *)

\* The ordered checks whose outcome depends on the device's own state.
ExecuteReason(permit, expired) ==
  IF expired THEN "permit_expired"
  ELSE IF permit.id \in consumed THEN "permit_replayed"
  ELSE IF permit.pre.state # plant.state THEN "state_changed"
  ELSE IF permit.pre # plant THEN "observation_envelope_changed"
  ELSE IF permit.cmd \in Unsafe THEN "candidate_attestation_mismatch"
  ELSE "none"

\* late: the acknowledgment is signed after the permit has expired.
Acknowledgment(permit, status, post, late) ==
  [permit |-> permit.id, status |-> status, pre |-> plant.state, post |-> post, late |-> late]

Respond(status, payload) ==
  [header |-> mailbox.active, status |-> status, payload |-> payload, counter |-> counter + 1]

Concluded(status, payload) ==
  /\ mailbox' = [mailbox EXCEPT !.terminal = TRUE, !.response = Respond(status, payload)]
  /\ counter' = counter + 1

Execute(permit) ==
  \E expired, late \in BOOLEAN :
    LET reason == ExecuteReason(permit, expired)
        post == Candidate(plant.state, permit.cmd)
    IN  IF reason = "none"
        THEN /\ plant' = [state |-> post, seq |-> plant.seq + 1]
             /\ effects' = Append(effects, permit)
             /\ consumed' = consumed \cup {permit.id}
             /\ Concluded("complete", [ack |-> Acknowledgment(permit, "applied", post, late),
                                       state |-> post])
        ELSE /\ ~late
             /\ Concluded("rejected", [ack |-> Acknowledgment(permit, "rejected", None, FALSE),
                                       state |-> plant.state])
             /\ UNCHANGED <<plant, effects, consumed>>

\* _process_commit: the staged payload has to have the digest the header named.
Process ==
  LET h == mailbox.active
  IN  CASE mailbox.staged # h.payload ->
             /\ Concluded("rejected", None)
             /\ UNCHANGED <<plant, effects, consumed>>
        [] mailbox.staged = h.payload /\ h.op = "read" ->
             /\ plant' = [plant EXCEPT !.seq = @ + 1]
             /\ Concluded("complete", plant')
             /\ UNCHANGED <<effects, consumed>>
        [] mailbox.staged = h.payload /\ h.op = "simulate" ->
             /\ Concluded("complete", [pre |-> plant, post |-> Candidate(plant.state, h.payload.command),
                                       safe |-> h.payload.command \notin Unsafe])
             /\ UNCHANGED <<plant, effects, consumed>>
        [] OTHER -> Execute(h.payload.permit)

\* A commit of a terminal transaction changes nothing: it is not done again.
ServeCommit ==
  IF mailbox.active # None /\ ~mailbox.terminal THEN Process ELSE UNCHANGED deviceVars

----------------------------------------------------------------------------
(* The closed loop over the device. *)

CONSTANTS
  Clients,         \* clients of the device, one controller each
  MaxFaults        \* bound: exchanges that fail

VARIABLES
  client,          \* per client: the controller's place and the client's
  used,            \* proposals submitted so far
  faults,          \* exchanges that failed so far
  raised,          \* history: EXECUTE requests that ended in an exception
  results          \* recorded dispositions

vars == <<deviceVars, client, used, faults, raised, results>>

\* tid and seen are the client's transaction number and the last device
\* counter it accepted; the rest belongs to the proposal under way.
Resting(tid, seen) ==
  [stage |-> "idle", step |-> "none", tid |-> tid, seen |-> seen, cmd |-> None,
   payload |-> None, sent |-> FALSE, outcome |-> "none", answer |-> None, pre |-> None,
   permit |-> None, ack |-> None]

Init ==
  /\ DeviceInit
  /\ client = [c \in Clients |-> Resting(0, 0)]
  /\ used = {}
  /\ faults = 0
  /\ raised = {}
  /\ results = {}

Operation(stage) == IF stage \in {"capture", "readback"} THEN "read" ELSE stage

HeaderOf(c) == Header(Operation(client[c].stage), client[c].tid, client[c].payload)

--------------------------------------------------------------------------------
(* One operation of a client: _request. *)

\* The operation takes the next transaction number and starts with BEGIN.
Calling(k, stage, payload) ==
  [k EXCEPT !.stage = stage, !.step = "begin", !.tid = @ + 1, !.payload = payload,
            !.sent = FALSE, !.outcome = "none", !.answer = None]

\* How an exception ends the operation, and whether the mailbox is released.
Failed(k) ==
  IF k.sent /\ k.stage = "execute"
  THEN [k EXCEPT !.step = "deliver", !.outcome = "unknown"]
  ELSE [k EXCEPT !.step = "release", !.outcome = "transport"]

\* An exchange is lost on the way, or served without the answer arriving, or
\* answered.  Serve is what the device does, ok whether it accepts, and next
\* the client's state after an accepted exchange.
Exchange(c, Serve, ok, next, refused) ==
  \/ /\ faults < MaxFaults
     /\ faults' = faults + 1
     /\ \/ UNCHANGED deviceVars
        \/ Serve
     /\ client' = [client EXCEPT ![c] = Failed(client[c])]
     /\ UNCHANGED <<used, raised, results>>
  \/ /\ Serve
     /\ client' = [client EXCEPT ![c] = IF ok THEN next ELSE refused]
     /\ UNCHANGED <<used, faults, raised, results>>

At(c, step) == client[c].step = step

WriteHeader(c) ==
  /\ At(c, "begin")
  /\ Exchange(c, ServeBegin(HeaderOf(c)), BeginAccepted(HeaderOf(c)),
              [client[c] EXCEPT !.step = "stage"], Failed(client[c]))

WritePayload(c) ==
  /\ At(c, "stage")
  /\ Exchange(c, ServeStage(client[c].payload), StageAccepted,
              [client[c] EXCEPT !.step = "commit"], Failed(client[c]))

\* commit_sent is set when write_register has returned, with an error or not.
Committed(k) == [k EXCEPT !.sent = TRUE]

WriteCommit(c) ==
  /\ At(c, "commit")
  /\ Exchange(c, ServeCommit, mailbox.active # None,
              [Committed(client[c]) EXCEPT !.step = "read"], Failed(Committed(client[c])))

\* The response has to be the device's next one, answer this very request and
\* carry the state version its header hints at: a refused request carries none.
Correlated(c) ==
  /\ mailbox.response # None
  /\ mailbox.response.header = HeaderOf(c)
  /\ mailbox.response.payload # None
  /\ mailbox.response.counter > client[c].seen

ReadResponse(c) ==
  /\ At(c, "read")
  /\ Exchange(c, UNCHANGED deviceVars, Correlated(c),
              [client[c] EXCEPT !.step = "release", !.outcome = "ok",
                                !.answer = mailbox.response,
                                !.seen = mailbox.response.counter],
              Failed(client[c]))

\* The release is attempted once and its outcome is ignored.
Release(c) ==
  /\ At(c, "release")
  /\ \/ /\ faults < MaxFaults
        /\ faults' = faults + 1
        /\ UNCHANGED deviceVars
     \/ /\ ServeRelease(HeaderOf(c))
        /\ UNCHANGED faults
  /\ client' = [client EXCEPT ![c].step = "deliver"]
  /\ UNCHANGED <<used, raised, results>>

--------------------------------------------------------------------------------
(* The controller: PhysicalClosedLoopController.execute. *)

Finish(c) == client' = [client EXCEPT ![c] = Resting(client[c].tid, client[c].seen)]

Record(c, status, post) ==
  /\ results' = results \cup {[cmd |-> client[c].cmd, status |-> status,
                               permit |-> client[c].permit, post |-> post]}
  /\ Finish(c)

Go(c, k) == client' = [client EXCEPT ![c] = k]

Delivering(c, stage) == client[c].stage = stage /\ At(c, "deliver")

\* A proposal is decided once: the gateway keeps its nonce.
Start(c, p) ==
  /\ client[c].stage = "idle"
  /\ p \notin used
  /\ used' = used \cup {p}
  /\ Go(c, Calling([client[c] EXCEPT !.cmd = p], "capture", Empty))
  /\ UNCHANGED <<deviceVars, faults, raised, results>>

\* A read or a simulation that fails raises out of the controller.
Answered(c) == client[c].outcome = "ok"

\* The decision on the captured state, then translation.
Decide(c) ==
  /\ Delivering(c, "capture")
  /\ IF Answered(c)
     THEN \/ /\ Go(c, Calling([client[c] EXCEPT !.pre = client[c].answer.payload],
                              "simulate", CommandPayload(client[c].cmd)))
             /\ UNCHANGED results
          \/ Record(c, "not_dispatched", None)
     ELSE Finish(c) /\ UNCHANGED results
  /\ UNCHANGED <<deviceVars, used, faults, raised>>

\* An unsafe candidate is recorded.  The issuer raises for a candidate of
\* another state than the decision's evidence holds; a mere new observation of
\* the same state shows in its time, unless the clock stood still.
IssuePermit(c) ==
  /\ Delivering(c, "simulate")
  /\ LET assessment == client[c].answer.payload
         permit == [id |-> client[c].cmd, cmd |-> client[c].cmd, pre |-> assessment.pre,
                    post |-> assessment.post]
     IN  CASE ~Answered(c) -> Finish(c) /\ UNCHANGED results
           [] Answered(c) /\ ~assessment.safe -> Record(c, "candidate_rejected", None)
           [] Answered(c) /\ assessment.safe /\ assessment.pre.state # client[c].pre.state ->
                Finish(c) /\ UNCHANGED results
           [] OTHER ->
                \/ assessment.pre # client[c].pre /\ Finish(c) /\ UNCHANGED results
                \/ /\ Go(c, Calling([client[c] EXCEPT !.permit = permit], "execute", PermitPayload(permit)))
                   /\ UNCHANGED results
  /\ UNCHANGED <<deviceVars, used, faults, raised>>

\* A plausible fault: a failure the client calls a transport failure is taken
\* for a dispatch that never happened.
TrustsTransportFailure(outcome) ==
  IF outcome = "transport" THEN "not_dispatched" ELSE "unknown_effect"

\* Any exception out of the device's execute leaves the effect unknown.
DispatchFailureStatus(outcome) == "unknown_effect"

\* The acknowledgment of a committed request, or the exception instead of it.
Dispatched(c) ==
  /\ Delivering(c, "execute")
  /\ LET k == client[c]
     IN  IF k.outcome = "ok"
         THEN /\ Go(c, Calling([k EXCEPT !.ack = k.answer.payload.ack], "readback", Empty))
              /\ UNCHANGED <<raised, results>>
         ELSE /\ raised' = raised \cup {[permit |-> k.permit.id, kind |-> k.outcome]}
              /\ Record(c, DispatchFailureStatus(k.outcome), None)
  /\ UNCHANGED <<deviceVars, used, faults>>

\* verify_for_transaction: the pre-state the controller captured, the state it
\* read back and the acknowledgment have to tell one story.
AcknowledgmentValid(ack, permit, pre, readback) ==
  /\ ack.permit = permit.id
  /\ CASE ack.status = "applied" ->
            /\ ~ack.late
            /\ ack.pre = pre.state /\ pre = permit.pre
            /\ ack.post = permit.post
            /\ readback.state = ack.post
       [] OTHER -> ack.pre = pre.state /\ pre.state = readback.state

Conclude(c) ==
  /\ Delivering(c, "readback")
  /\ LET k == client[c]
         readback == k.answer.payload
         valid == AcknowledgmentValid(k.ack, k.permit, k.pre, readback)
     IN  CASE ~Answered(c) -> Record(c, "unknown_effect", None)
           [] Answered(c) /\ ~valid -> Record(c, "unknown_effect", None)
           [] Answered(c) /\ valid /\ k.ack.status = "applied" -> Record(c, "completed", readback)
           [] OTHER -> Record(c, "device_rejected", readback)
  /\ UNCHANGED <<deviceVars, used, faults, raised>>

Next ==
  \E c \in Clients :
    \/ \E p \in Proposals : Start(c, p)
    \/ WriteHeader(c)
    \/ WritePayload(c)
    \/ WriteCommit(c)
    \/ ReadResponse(c)
    \/ Release(c)
    \/ Decide(c)
    \/ IssuePermit(c)
    \/ Dispatched(c)
    \/ Conclude(c)

Spec == Init /\ [][Next]_vars

\* The clients are interchangeable in model checking.
Symmetry == Permutations(Clients)

--------------------------------------------------------------------------------
(* Properties *)

EffectsOf(id) == {i \in DOMAIN effects : effects[i].id = id}

\* What a controller recorded is true of the device, whatever exchange was lost
\* and whichever client shared the mailbox: a completed command took effect
\* exactly once and its own readback shows it; a command recorded as not
\* dispatched or rejected has no effect, then or later; and no permit acts
\* twice.  About PhysicalClosedLoopController.execute and _MailboxService.
RecordedOutcomeIsReal ==
  /\ \A r \in results :
       CASE r.status = "completed" ->
              /\ Cardinality(EffectsOf(r.permit.id)) = 1
              /\ r.post.state = r.permit.post
         [] r.status = "unknown_effect" -> TRUE
         [] OTHER -> r.permit # None => EffectsOf(r.permit.id) = {}
  /\ \A p \in Proposals : Cardinality(EffectsOf(p)) <= 1

\* What the wire client's exceptions promise: an EXECUTE that ended as a
\* transport failure failed before its commit and has had no effect, and only
\* a failure after the commit is an unknown effect.  About
\* ModbusPhysicalDeviceClient._request.
TransportFailureMeansNoEffect ==
  \A x \in raised : x.kind = "transport" => EffectsOf(x.permit) = {}
==============================================================================
