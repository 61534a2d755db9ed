----------------------------- MODULE SegmentedLoop -----------------------------
(***************************************************************************)
(* The closed loop over segmented services without effect coordination     *)
(* (segmented_capability_runtime.py, segmented_capability_transport.py):   *)
(* plant, observer, candidate bridge, OT adapter and gateway, each its own *)
(* process that builds its runtime when it is first asked and pins the     *)
(* boot epochs it found.  Exchanges are HTTP, one at a time and never      *)
(* repeated; one that is given up may still be served later, and any       *)
(* process may be replaced at any time.  Without coordination the plant    *)
(* keeps no checkpoint: a new plant process starts from the baseline.      *)
(***************************************************************************)
EXTENDS Integers, Sequences, SequencesExt, FiniteSets

----------------------------------------------------------------------------
(***************************************************************************)
(* The signed artifacts the segmented services exchange                    *)
(* (segmented_capability_models.py), as records, and what a receiver       *)
(* checks about them.  A service's keys outlive its process, so what tells *)
(* two processes of one service apart is the boot epoch in every artifact; *)
(* an artifact stands for its own digest.                                  *)
(***************************************************************************)

CONSTANTS
  Actions,      \* action requests of the agent
  Harmful,      \* those whose candidate state violates a limit
  CallTtl,      \* call_ttl of a signed plant call or dispatch
  ActionLife    \* time_to_live of a permit

ASSUME LoopAssumption == CallTtl \in Nat /\ ActionLife \in Nat

Nothing == [nothing |-> TRUE]

ValidAt(artifact, t) == artifact.issued <= t /\ t < artifact.expires

\* What state_digest covers; observation_digest covers the whole snapshot, the
\* boot epoch in its source included.
StateDigest(snap) == <<snap.version, snap.setting>>

Candidate(snap, a) == <<snap.version + 1, a>>

--------------------------------------------------------------------------------
(* Calls of the plant. *)

RoleOperations ==
  [observer |-> {"capture"}, candidate |-> {"simulate"}, plc |-> {"read", "simulate", "apply"}]

PlantCall(role, op, payload, target, nonce, t) ==
  [role |-> role, op |-> op, payload |-> payload, target |-> target, nonce |-> nonce,
   issued |-> t, expires |-> t + CallTtl]

\* An apply carries the compare-and-swap bindings and the permit's deadline.
ApplyPayload(permit) ==
  [action |-> permit.action, id |-> permit.id, pre |-> permit.obs.snap, post |-> permit.post,
   deadline |-> permit.expires]

\* verify_for_plant.
CallAdmissible(call, boot, t) ==
  /\ call.op \in RoleOperations[call.role]
  /\ call.target = boot
  /\ ValidAt(call, t)

PlantResponse(call, status, payload, boot, t) ==
  [call |-> call, status |-> status, payload |-> payload, boot |-> boot, at |-> t]

\* payload_matches_call: a successful apply reports the state it was to reach.
PayloadMatchesCall(r) ==
  r.status = "ok" /\ r.call.op = "apply" => StateDigest(r.payload) = r.call.payload.post

\* verify_for_call.
ResponseTrusted(r, call, boot) ==
  /\ r.call = call
  /\ PayloadMatchesCall(r)
  /\ r.boot = boot
  /\ ValidAt(call, r.at)

\* PlantExchange.verify: the candidate service hands on both signatures.
ExchangeTrusted(r, boot, t) ==
  /\ CallAdmissible(r.call, boot, t)
  /\ ResponseTrusted(r, r.call, boot)

--------------------------------------------------------------------------------
(* Dispatches to the OT adapter. *)

Permit(id, a, obs, post, target, t) ==
  [id |-> id, action |-> a, obs |-> obs, post |-> post, target |-> target,
   issued |-> t, expires |-> t + ActionLife]

\* bindings_match, of the artifacts in which an execution can differ.
DispatchBound(d) ==
  /\ d.obs.phase = "pre"
  /\ d.assessment.safe
  /\ d.assessment.pre = d.obs.snap
  /\ d.assessment.post = d.permit.post
  /\ d.permit.obs = d.obs
  /\ d.permit.action = d.action

SignedDispatch(d, nonce, t) ==
  [dispatch |-> d, nonce |-> nonce, issued |-> t, expires |-> t + CallTtl]

\* verify_complete_for_ot, at an adapter with its boot and its observer pin.
DispatchAdmissible(m, ot, t) ==
  /\ ValidAt(m, t)
  /\ DispatchBound(m.dispatch)
  /\ m.dispatch.obs.observer = ot.observer
  /\ m.dispatch.permit.target = ot.boot
  /\ ValidAt(m.dispatch.permit, t)

Acknowledgment(permit, boot, status, reason, pre, post, t) ==
  [permit |-> permit.id, boot |-> boot, status |-> status, reason |-> reason,
   pre |-> pre, post |-> post, at |-> t]

\* The chronology issue insists on before it signs.
ResponseIssuable(m, ack, t) ==
  /\ ack.permit = m.dispatch.permit.id
  /\ m.issued <= ack.at /\ ack.at <= t

SignedResponse(m, ack, t) == [request |-> m, ack |-> ack, at |-> t]

Changed == {"state_version_changed", "state_digest_changed", "observation_changed"}

\* verify_for_transaction, of the acknowledgment for a dispatch.
AcknowledgmentTrusted(ack, d, boot) ==
  LET replayed == ack.status = "rejected" /\ ack.reason = "replayed"
      within == ValidAt(d.permit, ack.at)
  IN  /\ ack.permit = d.permit.id
      /\ ack.boot = boot
      /\ d.permit.target = boot \/ replayed
      /\ CASE ack.status = "applied" ->
                within /\ ack.pre = d.obs.snap /\ ack.post = d.permit.post
           [] ack.status = "rejected" ->
                /\ CASE ack.reason \in {"permit_expired", "permit_expired_before_dispatch",
                                        "permit_expired_after_replay_reservation"} ->
                          ack.at >= d.permit.expires
                     [] replayed -> ack.at >= d.permit.issued
                     [] OTHER -> within
                /\ replayed \/ (ack.pre = d.obs.snap) # (ack.reason \in Changed)
           [] OTHER -> ack.at >= d.permit.issued /\ ack.pre = d.obs.snap

\* verify_complete_for_request.
ResponseComplete(r, m, boot, t) ==
  /\ r.request = m
  /\ AcknowledgmentTrusted(r.ack, m.dispatch, boot)
  /\ m.issued <= r.ack.at /\ r.ack.at <= r.at /\ r.at <= t

\* The credentials around dispatch and response resolve at this moment, do not,
\* or resolve to another key than the one a port or an adapter was built with.
TrustVerdicts == {"current", "rejected", "unavailable", "changed"}

----------------------------------------------------------------------------
(* The services. *)

CONSTANTS
  ObservationCache,   \* cache_capacity of the observer
  ObservationAge,     \* maximum_age of the verifier
  MaxClock, MaxObservations, MaxRestarts, MaxExecutions   \* bounds

VARIABLES
  clk,          \* the clock all services read
  plant,        \* [boot, up, snap], snap being the live snapshot
  calls,        \* _call_reservations: the apply calls of this plant process
  observer,     \* [boot, up, plant, seq, cache]
  candidate,    \* [boot, up, plant]
  ot,           \* [boot, up, plant, observer, stage, job, call]
  ledgers,      \* [nonces, actions, permits]: the durable replay ledgers
  gateway,      \* [up, pins, lastSeq, accepted]
  asked,        \* per action: the envelope its request names
  flow,         \* the execution that holds the transaction lock
  executions,   \* bound and identifier of executions
  wire,         \* dispatches and plant calls that were sent and not yet served
  replies,      \* answers somebody still waits for: [ot, plant]
  late,         \* captures given up by the gateway and not yet made
  restarts,
  acts,         \* history: what changed the plant
  outcomes      \* the dispositions in the evidence chain

serviceVars == <<plant, calls, observer, candidate, ot, ledgers>>
gatewayVars == <<gateway, asked, flow, executions, outcomes>>
netVars == <<wire, replies, late>>
loopVars == <<clk, serviceVars, gatewayVars, netVars, restarts, acts>>

NoPins == [plant |-> 0, observer |-> 0, candidate |-> 0, ot |-> 0]

\* What a process starts with: the constructors of the runtimes.
NewPlant(boot, t) ==
  [boot |-> boot, up |-> TRUE,
   snap |-> [boot |-> boot, version |-> 0, setting |-> "baseline", seq |-> 0, at |-> t]]

NewObserver(boot, pin) == [boot |-> boot, up |-> TRUE, plant |-> pin, seq |-> 0, cache |-> <<>>]

NewCandidate(boot, pin) == [boot |-> boot, up |-> TRUE, plant |-> pin]

NewOt(boot, pin, observerPin) ==
  [boot |-> boot, up |-> TRUE, plant |-> pin, observer |-> observerPin, stage |-> "idle",
   job |-> Nothing, call |-> Nothing]

LoopInit ==
  /\ clk = 0
  /\ plant = NewPlant(1, 0)
  /\ calls = {}
  /\ observer = NewObserver(1, 1)
  /\ candidate = NewCandidate(1, 1)
  /\ ot = NewOt(1, 1, 1)
  /\ ledgers = [nonces |-> {}, actions |-> {}, permits |-> {}]
  /\ gateway = [up |-> FALSE, pins |-> NoPins, lastSeq |-> 0, accepted |-> {}]
  /\ asked = [a \in Actions |-> Nothing]
  /\ flow = Nothing
  /\ executions = 0
  /\ wire = {}
  /\ replies = [ot |-> Nothing, plant |-> Nothing]
  /\ late = 0
  /\ restarts = 0
  /\ acts = <<>>
  /\ outcomes = {}

LoopTick ==
  /\ clk < MaxClock
  /\ clk' = clk + 1
  /\ UNCHANGED <<serviceVars, gatewayVars, netVars, restarts, acts>>

--------------------------------------------------------------------------------
(* Building the runtimes, and losing them. *)

\* A process goes; what it was doing and what only it remembered is gone.
StopPlant ==
  /\ plant.up
  /\ plant' = [plant EXCEPT !.up = FALSE]
  /\ calls' = {}
  /\ UNCHANGED <<observer, candidate, ot, ledgers, gateway, asked, flow, executions, outcomes>>

StopObserver ==
  /\ observer.up
  /\ observer' = [observer EXCEPT !.up = FALSE, !.cache = <<>>, !.seq = 0]
  /\ UNCHANGED <<plant, calls, candidate, ot, ledgers, gateway, asked, flow, executions, outcomes>>

StopCandidate ==
  /\ candidate.up
  /\ candidate' = [candidate EXCEPT !.up = FALSE]
  /\ UNCHANGED <<plant, calls, observer, ot, ledgers, gateway, asked, flow, executions, outcomes>>

StopOt ==
  /\ ot.up
  /\ ot' = [ot EXCEPT !.up = FALSE, !.stage = "idle", !.job = Nothing, !.call = Nothing]
  /\ UNCHANGED <<plant, calls, observer, candidate, ledgers, gateway, asked, flow, executions,
                 outcomes>>

\* The gateway's evidence, its verifier and its authorization state are in
\* memory; the caller of an execution that was under way hears nothing.
StopGateway ==
  /\ gateway.up
  /\ gateway' = [up |-> FALSE, pins |-> NoPins, lastSeq |-> 0, accepted |-> {}]
  /\ flow' = Nothing
  /\ UNCHANGED <<plant, calls, observer, candidate, ot, ledgers, asked, executions, outcomes>>

Stop ==
  /\ restarts < MaxRestarts
  /\ restarts' = restarts + 1
  /\ StopPlant \/ StopObserver \/ StopCandidate \/ StopOt \/ StopGateway
  /\ replies' = [ot |-> IF flow' = flow THEN replies.ot ELSE Nothing,
                 plant |-> IF ot'.up THEN replies.plant ELSE Nothing]
  /\ UNCHANGED <<clk, wire, late, acts>>

\* _build_plant_runtime with coordination disabled.
BuildPlant ==
  /\ ~plant.up
  /\ plant' = NewPlant(plant.boot + 1, clk)
  /\ UNCHANGED <<calls, observer, candidate, ot, ledgers, gateway>>

\* The services that call the plant pin the process they find.
BuildObserver ==
  /\ ~observer.up /\ plant.up
  /\ observer' = NewObserver(observer.boot + 1, plant.boot)
  /\ UNCHANGED <<plant, calls, candidate, ot, ledgers, gateway>>

BuildCandidate ==
  /\ ~candidate.up /\ plant.up
  /\ candidate' = NewCandidate(candidate.boot + 1, plant.boot)
  /\ UNCHANGED <<plant, calls, observer, ot, ledgers, gateway>>

\* The adapter wants an observer of the same plant process.
BuildOt ==
  /\ ~ot.up /\ plant.up /\ observer.up
  /\ observer.plant = plant.boot
  /\ ot' = NewOt(ot.boot + 1, plant.boot, observer.boot)
  /\ UNCHANGED <<plant, calls, observer, candidate, ledgers, gateway>>

\* require_consistent_dependencies, over what the gateway learns of the plant
\* through the adapter.
DiscoveryConsistent ==
  /\ observer.plant = ot.plant
  /\ candidate.plant = ot.plant
  /\ ot.observer = observer.boot

\* The health metadata of the services, of which the gateway pins the process.
Discovered ==
  [plant |-> ot.plant, observer |-> observer.boot, candidate |-> candidate.boot, ot |-> ot.boot]

\* discover_segmented_capabilities_via_ot: three health exchanges, none with
\* the plant itself.
BuildGateway ==
  /\ ~gateway.up /\ observer.up /\ candidate.up /\ ot.up
  /\ DiscoveryConsistent
  /\ gateway' = [gateway EXCEPT !.up = TRUE,
                   !.pins = Discovered]
  /\ UNCHANGED serviceVars

Build ==
  /\ BuildPlant \/ BuildObserver \/ BuildCandidate \/ BuildOt \/ BuildGateway
  /\ UNCHANGED <<clk, asked, flow, executions, outcomes, netVars, restarts, acts>>

--------------------------------------------------------------------------------
(* The plant service and its clients. *)

\* A call that is issued, served and answered at one moment.
PlantServes(role, op, pin) ==
  /\ plant.up
  /\ CallAdmissible(PlantCall(role, op, Nothing, pin, <<"now">>, clk), plant.boot, clk)

Captured == [plant.snap EXCEPT !.seq = @ + 1, !.at = clk]

\* The deadlines and comparisons on the way to the effect, in their order.
ApplyRefusal(call) ==
  LET p == call.payload
  IN  IF clk >= p.deadline THEN "authorization_expired_before_effect"
      ELSE IF plant.snap.version # p.pre.version THEN "state_version_changed"
      ELSE IF StateDigest(plant.snap) # StateDigest(p.pre) THEN "state_digest_changed"
      ELSE IF plant.snap # p.pre THEN "observation_changed"
      ELSE IF p.action \in Harmful THEN "post_state_violates_physical_limits"
      ELSE IF Candidate(plant.snap, p.action) # p.post THEN "candidate_outcome_diverged"
      ELSE "none"

Prior(call) == {c \in calls : c.nonce = call.nonce}

\* The call may run out between its authentication and the effect; its
\* reservation then stays without a terminal answer.
ExpiredMeanwhile(call) ==
  IF clk + 1 >= call.expires THEN {"plant_call_expired_before_effect"} ELSE {}

\* The answer reaches the adapter only while it waits for this call.
TellOt(message, call) ==
  replies' = IF ot.stage = "applying" /\ ot.call = call
             THEN [replies EXCEPT !.plant = message] ELSE replies

\* execute of the plant service: authentication, the reservation of the nonce,
\* the effect, the terminal answer.  A nonce that comes again gets the terminal
\* answer it had.  What is not admitted, and a reservation without a terminal
\* answer, is refused without a signature.
PlantExecute(call) ==
  /\ plant.up /\ call \in wire /\ "op" \in DOMAIN call
  /\ \E again \in BOOLEAN : wire' = IF again THEN wire ELSE wire \ {call}
  /\ IF ~CallAdmissible(call, plant.boot, clk)
     THEN TellOt(Nothing, call) /\ UNCHANGED <<plant, calls, acts>>
     ELSE IF Prior(call) # {}
     THEN /\ TellOt((CHOOSE c \in Prior(call) : TRUE).terminal, call)
          /\ UNCHANGED <<plant, calls, acts>>
     ELSE \E refusal \in {ApplyRefusal(call)} \cup ExpiredMeanwhile(call) :
            LET after == [boot |-> plant.boot, version |-> plant.snap.version + 1,
                          setting |-> call.payload.action, seq |-> plant.snap.seq + 1, at |-> clk]
                terminal == CASE refusal = "none" ->
                                   PlantResponse(call, "ok", after, plant.boot, clk)
                              [] refusal = "plant_call_expired_before_effect" -> Nothing
                              [] OTHER -> PlantResponse(call, "rejected", refusal, plant.boot, clk)
            IN  /\ calls' = calls \cup {[nonce |-> call.nonce, terminal |-> terminal]}
                /\ plant' = IF refusal = "none" THEN [plant EXCEPT !.snap = after] ELSE plant
                /\ acts' = IF refusal = "none"
                           THEN Append(acts, [id |-> call.payload.id, action |-> call.payload.action,
                                              pre |-> plant.snap, at |-> clk,
                                              deadline |-> call.payload.deadline])
                           ELSE acts
                /\ TellOt(terminal, call)
  /\ UNCHANGED <<clk, observer, candidate, ot, ledgers, gatewayVars, late, restarts>>

--------------------------------------------------------------------------------
(* The observer service. *)

EnvelopeOf(snap, phase, corr, challenge, previous, ack) ==
  [observer |-> observer.boot, seq |-> observer.seq + 1, snap |-> snap, phase |-> phase,
   corr |-> corr, challenge |-> challenge, previous |-> previous, ack |-> ack]

KeepEnvelope(env) ==
  LET longer == Append(observer.cache, env)
  IN  observer' = [observer EXCEPT !.seq = @ + 1,
                     !.cache = IF Len(longer) > ObservationCache THEN Tail(longer) ELSE longer]

\* _capture, once the plant has answered.
ObserverCaptures(env) ==
  /\ observer.up /\ PlantServes("observer", "capture", observer.plant)
  /\ plant.snap.seq < MaxObservations
  /\ plant' = [plant EXCEPT !.snap = Captured]
  /\ KeepEnvelope(env)
  /\ UNCHANGED <<calls, candidate, ot, ledgers>>

\* RemoteObservationPort._verify.
EnvelopeTrusted(env) == env.observer = gateway.pins.observer

\* capture_pre through the gateway, under the transaction lock.
AgentCaptures ==
  /\ gateway.up /\ flow = Nothing
  /\ ObserverCaptures(EnvelopeOf(Captured, "pre", <<observer.boot, observer.seq>>,
                                 <<"pre", observer.boot, observer.seq>>, Nothing, Nothing))
  /\ UNCHANGED <<clk, gatewayVars, netVars, restarts, acts>>

\* A capture that was given up is made after all.  Nobody has its envelope.
LateCapture ==
  /\ late > 0
  /\ late' = late - 1
  /\ ObserverCaptures(EnvelopeOf(Captured, "pre", <<"late">>, <<"late", observer.seq>>,
                                 Nothing, Nothing))
  /\ UNCHANGED <<clk, gatewayVars, wire, replies, restarts, acts>>

GiveUpCapture ==
  /\ gateway.up /\ flow = Nothing /\ late = 0
  /\ late' = 1
  /\ UNCHANGED <<clk, serviceVars, gatewayVars, wire, replies, restarts, acts>>

--------------------------------------------------------------------------------
(* The gateway: one execution at a time. *)

\* SegmentedCapabilityController._record: the assessment goes with the exchange
\* it came from, so a result that has one can be built.
RecordOutcome(status, ack, post) ==
  /\ outcomes' = outcomes \cup {[id |-> flow.id, action |-> flow.action, obs |-> flow.obs,
                                 status |-> status, ack |-> ack, post |-> post]}
  /\ flow' = Nothing

\* execute of the gateway, and the preflight of the consequence path.
SubmitAction(a) ==
  /\ gateway.up /\ flow = Nothing
  /\ executions < MaxExecutions
  /\ executions' = executions + 1
  /\ \E env \in ToSet(observer.cache) \cup {asked[a]} :
       /\ env # Nothing /\ env.phase = "pre" /\ env.corr # <<"late">>
       /\ asked[a] # Nothing => env = asked[a]
       /\ asked' = [asked EXCEPT ![a] = env]
       /\ flow' = [id |-> executions + 1, action |-> a, obs |-> env, stage |-> "resolve",
                   assessment |-> Nothing, permit |-> Nothing, sent |-> Nothing, ack |-> Nothing]
  /\ UNCHANGED <<clk, serviceVars, gateway, outcomes, netVars, restarts, acts>>

\* The preflight, the resolution, the verifier, the decision or the translation
\* ends the execution before anything is simulated.
EndsBeforeSimulation ==
  /\ flow # Nothing /\ flow.stage = "resolve"
  /\ RecordOutcome("not_dispatched", Nothing, Nothing)
  /\ UNCHANGED <<clk, serviceVars, gateway, asked, executions, netVars, restarts, acts>>

ObservationRefused(env) ==
  \/ ~EnvelopeTrusted(env)
  \/ env.snap.boot # gateway.pins.plant
  \/ env.snap.at > clk \/ clk - env.snap.at > ObservationAge
  \/ env.seq <= gateway.lastSeq
  \/ env.challenge \in gateway.accepted

AcceptObservation(env) ==
  gateway' = [gateway EXCEPT !.lastSeq = env.seq, !.accepted = @ \cup {env.challenge}]

\* resolve at the observer and verify_pre; an observation that is refused ends
\* the execution, which EndsBeforeSimulation does.
AuthorizeAction ==
  /\ flow # Nothing /\ flow.stage = "resolve"
  /\ observer.up /\ flow.obs \in ToSet(observer.cache)
  /\ ~ObservationRefused(flow.obs)
  /\ AcceptObservation(flow.obs)
  /\ flow' = [flow EXCEPT !.stage = "simulate"]
  /\ UNCHANGED <<clk, serviceVars, asked, executions, outcomes, netVars, restarts, acts>>

\* simulate_candidate over the bridge; the answer has to be the pinned plant's.
CandidateExchange ==
  PlantResponse(PlantCall("candidate", "simulate", flow.action, candidate.plant, <<"now">>, clk),
                "ok", [pre |-> plant.snap, post |-> Candidate(plant.snap, flow.action),
                       safe |-> flow.action \notin Harmful], plant.boot, clk)

AssessCandidate ==
  /\ flow # Nothing /\ flow.stage = "simulate"
  /\ candidate.up /\ plant.up
  /\ ExchangeTrusted(CandidateExchange, gateway.pins.plant, clk)
  /\ LET assessment == CandidateExchange.payload
     IN  IF assessment.safe /\ assessment.pre = flow.obs.snap
         THEN /\ flow' = [flow EXCEPT !.stage = "dispatch", !.assessment = assessment,
                            !.permit = Permit(flow.id, flow.action, flow.obs, assessment.post,
                                              gateway.pins.ot, clk)]
              /\ UNCHANGED outcomes
         ELSE RecordOutcome("candidate_rejected", Nothing, Nothing)
  /\ UNCHANGED <<clk, serviceVars, gateway, asked, executions, netVars, restarts, acts>>

\* The bridge does not answer, its answer cannot be trusted, or no permit is
\* issued.
EndsBeforeDispatch ==
  /\ flow # Nothing /\ flow.stage = "simulate"
  /\ RecordOutcome("not_dispatched", Nothing, Nothing)
  /\ UNCHANGED <<clk, serviceVars, gateway, asked, executions, netVars, restarts, acts>>

\* WorkloadRemoteVirtualPlcPort.execute: the preflight once more, then the POST.
DispatchAction ==
  /\ flow # Nothing /\ flow.stage = "dispatch"
  /\ \E verdict \in TrustVerdicts :
       IF verdict # "current"
       THEN RecordOutcome("not_dispatched", Nothing, Nothing) /\ UNCHANGED wire
       ELSE LET signed == SignedDispatch([action |-> flow.action, obs |-> flow.obs,
                                          assessment |-> flow.assessment,
                                          permit |-> flow.permit], flow.id, clk)
            IN  /\ wire' = wire \cup {signed}
                /\ flow' = [flow EXCEPT !.stage = "waiting", !.sent = signed]
                /\ UNCHANGED outcomes
  /\ UNCHANGED <<clk, serviceVars, gateway, asked, executions, replies, late, restarts, acts>>

--------------------------------------------------------------------------------
(* The OT adapter. *)

\* What the adapter sends goes to the gateway that still waits for this request.
TellGateway(message, m) ==
  replies' = IF flow # Nothing /\ flow.stage = "waiting" /\ flow.sent = m
             THEN [replies EXCEPT !.ot = message] ELSE replies

Finish(m, message) ==
  /\ TellGateway(message, m)
  /\ ot' = [ot EXCEPT !.stage = "idle", !.job = Nothing, !.call = Nothing]

Rejection == [http |-> "rejected"]
ServerError == [http |-> "error"]

\* Signs an acknowledgment, or fails to.
Acknowledge(m, status, reason, pre, post) ==
  LET ack == Acknowledgment(m.dispatch.permit, ot.boot, status, reason, pre, post, clk)
  IN  Finish(m, IF ResponseIssuable(m, ack, clk)
                THEN [http |-> "ok", signed |-> SignedResponse(m, ack, clk)] ELSE ServerError)

ActionReplayed(m) ==
  \/ m.dispatch.permit.id \in ledgers.permits
  \/ <<m.dispatch.action, m.dispatch.obs>> \in ledgers.actions

\* The device's checks against the state it reads.
DeviceRefusal(m) ==
  LET permit == m.dispatch.permit
  IN  IF ActionReplayed(m) THEN "replayed"
      ELSE IF ~ValidAt(permit, clk) THEN "permit_expired"
      ELSE IF plant.snap.version # permit.obs.snap.version THEN "state_version_changed"
      ELSE IF StateDigest(plant.snap) # StateDigest(permit.obs.snap) THEN "state_digest_changed"
      ELSE IF plant.snap # permit.obs.snap THEN "observation_changed"
      ELSE "none"

\* execute: credentials, authentication, the transport ledger, then the device
\* up to its first read of the plant.
OtAdmits(m) ==
  /\ ot.up /\ ot.stage = "idle" /\ m \in wire /\ "dispatch" \in DOMAIN m
  /\ wire' = wire \ {m}
  /\ \E verdict \in TrustVerdicts :
       IF verdict = "unavailable"
       THEN Finish(m, ServerError) /\ UNCHANGED ledgers
       ELSE IF verdict # "current" \/ ~DispatchAdmissible(m, ot, clk) \/ m.nonce \in ledgers.nonces
       THEN Finish(m, Rejection) /\ UNCHANGED ledgers
       ELSE /\ ledgers' = [ledgers EXCEPT !.nonces = @ \cup {m.nonce}]
            /\ IF ~PlantServes("plc", "read", ot.plant)
               THEN Finish(m, ServerError)
               ELSE IF DeviceRefusal(m) # "none"
               THEN Acknowledge(m, "rejected", DeviceRefusal(m), plant.snap, Nothing)
               ELSE /\ ot' = [ot EXCEPT !.stage = "checked", !.job = m]
                    /\ UNCHANGED replies
  /\ UNCHANGED <<clk, plant, calls, observer, candidate, gatewayVars, late, restarts, acts>>

\* The second simulation, the semantic ledger and the last look at the clock;
\* then the apply goes out.  The replay ledger or the plant may be unavailable.
OtDispatches ==
  LET m == ot.job
      permit == m.dispatch.permit
      call == PlantCall("plc", "apply", ApplyPayload(permit), ot.plant, <<ot.boot, permit.id>>, clk)
      attested == /\ StateDigest(plant.snap) = StateDigest(m.dispatch.assessment.pre)
                  /\ Candidate(plant.snap, permit.action) = permit.post
  IN
  /\ ot.up /\ ot.stage = "checked"
  /\ \/ Finish(m, ServerError) /\ UNCHANGED <<ledgers, wire>>
     \/ /\ PlantServes("plc", "simulate", ot.plant)
        /\ IF ~attested
           THEN /\ Acknowledge(m, "rejected", "candidate_attestation_mismatch",
                               permit.obs.snap, Nothing)
                /\ UNCHANGED <<ledgers, wire>>
           ELSE IF clk >= permit.expires
           THEN /\ Acknowledge(m, "rejected", "permit_expired_before_dispatch",
                               permit.obs.snap, Nothing)
                /\ UNCHANGED <<ledgers, wire>>
           ELSE /\ ledgers' = [ledgers EXCEPT !.permits = @ \cup {permit.id},
                                 !.actions = @ \cup {<<m.dispatch.action, m.dispatch.obs>>}]
                /\ wire' = wire \cup {call}
                /\ ot' = [ot EXCEPT !.stage = "applying", !.call = call]
                /\ UNCHANGED replies
  /\ UNCHANGED <<clk, plant, calls, observer, candidate, gatewayVars, late, restarts, acts>>

\* What _exchange_call makes of an answer to a consequential call: without a
\* trusted signed answer the outcome is unknown.
ApplyVerdict(answer) ==
  IF answer # Nothing /\ ResponseTrusted(answer, ot.call, ot.plant) THEN answer.status
  ELSE "unknown"

\* An answer, or none within the timeout.
OtConcludes ==
  LET m == ot.job
      snap == m.dispatch.obs.snap
      verdict == ApplyVerdict(replies.plant)
  IN
  /\ ot.up /\ ot.stage = "applying"
  /\ LET ack(status, reason, pre, post) ==
           LET a == Acknowledgment(m.dispatch.permit, ot.boot, status, reason, pre, post, clk)
           IN  IF ResponseIssuable(m, a, clk)
               THEN [http |-> "ok", signed |-> SignedResponse(m, a, clk)] ELSE ServerError
         message ==
           CASE verdict = "unknown" ->
                  ack("unknown", "plant_dispatch_outcome_unavailable", snap, Nothing)
             [] verdict = "rejected" ->
                  LET reason == replies.plant.payload
                  IN  IF reason \notin Changed THEN ack("rejected", reason, snap, Nothing)
                      ELSE IF PlantServes("plc", "read", ot.plant)
                      THEN ack("rejected", reason, plant.snap, Nothing)
                      ELSE ServerError
             [] OTHER -> ack("applied", "applied", snap, StateDigest(replies.plant.payload))
     IN  replies' = [plant |-> Nothing,
                     ot |-> IF flow # Nothing /\ flow.stage = "waiting" /\ flow.sent = m
                            THEN message ELSE replies.ot]
  /\ ot' = [ot EXCEPT !.stage = "idle", !.job = Nothing, !.call = Nothing]
  /\ UNCHANGED <<clk, plant, calls, observer, candidate, ledgers, gatewayVars, wire, late,
                 restarts, acts>>

--------------------------------------------------------------------------------
(* Back at the gateway. *)

\* Faulty variant: an exchange that failed is one that did not happen.
LostMeansUnsent(message) ==
  IF message = Nothing THEN "not_dispatched"
  ELSE IF message.http = "ok" THEN "acknowledged" ELSE "unknown_effect"

\* What the port raises or returns: no answer, a server failure, a response that
\* does not verify and a rejection after the POST all leave the effect open.
PortVerdict(message) ==
  IF message # Nothing /\ message.http = "ok"
     /\ ResponseComplete(message.signed, flow.sent, gateway.pins.ot, clk)
  THEN "acknowledged" ELSE "unknown_effect"

\* An answer, or the end of the wait for one.
OutcomeArrives ==
  /\ flow # Nothing /\ flow.stage = "waiting"
  /\ replies' = [replies EXCEPT !.ot = Nothing]
  /\ LET verdict == PortVerdict(replies.ot)
     IN  IF verdict # "acknowledged"
         THEN RecordOutcome(verdict, Nothing, Nothing)
         ELSE LET ack == replies.ot.signed.ack
              IN  CASE ack.status = "rejected" ->
                         RecordOutcome(IF ack.reason = "candidate_attestation_mismatch"
                                       THEN "candidate_rejected" ELSE "plc_rejected", ack, Nothing)
                    [] ack.status = "unknown" -> RecordOutcome("unknown_effect", ack, Nothing)
                    [] OTHER -> /\ flow' = [flow EXCEPT !.stage = "post", !.ack = ack]
                                /\ UNCHANGED outcomes
  /\ UNCHANGED <<clk, serviceVars, gateway, asked, executions, wire, late, restarts, acts>>

\* capture_post: a cached predecessor of this transaction, a fresh capture, and
\* the verifier's opinion of it.
CompleteAction ==
  LET challenge == <<"post", flow.id>>
      previous == <<flow.obs.observer, flow.obs.seq>>
      env == EnvelopeOf(Captured, "post", flow.obs.corr, challenge, previous, flow.ack)
  IN
  /\ flow # Nothing /\ flow.stage = "post"
  /\ flow.obs \in ToSet(observer.cache)
  /\ ObserverCaptures(env)
  /\ IF EnvelopeTrusted(env) /\ ~ObservationRefused(env)
     THEN /\ AcceptObservation(env)
          /\ RecordOutcome(IF StateDigest(env.snap) = flow.ack.post /\ flow.ack.post = flow.permit.post
                           THEN "completed" ELSE "observation_diverged", flow.ack, env)
     ELSE RecordOutcome("unknown_effect", flow.ack, Nothing) /\ UNCHANGED gateway
  /\ UNCHANGED <<clk, asked, executions, netVars, restarts, acts>>

\* The observer refuses, fails or does not answer in time.
CompletionFails ==
  /\ flow # Nothing /\ flow.stage = "post"
  /\ late' \in {late, 1}
  /\ RecordOutcome("unknown_effect", flow.ack, Nothing)
  /\ UNCHANGED <<clk, serviceVars, gateway, asked, executions, wire, replies, restarts, acts>>

LoopNext ==
  \/ LoopTick \/ Stop \/ Build
  \/ \E call \in wire : PlantExecute(call) \/ OtAdmits(call)
  \/ AgentCaptures \/ LateCapture \/ GiveUpCapture
  \/ \E a \in Actions : SubmitAction(a)
  \/ EndsBeforeSimulation \/ AuthorizeAction \/ AssessCandidate \/ EndsBeforeDispatch
  \/ DispatchAction \/ OtDispatches \/ OtConcludes
  \/ OutcomeArrives \/ CompleteAction \/ CompletionFails

LoopSpec == LoopInit /\ [][LoopNext]_loopVars

--------------------------------------------------------------------------------
(* Properties *)

ActsOf(id) == {i \in DOMAIN acts : acts[i].id = id}

(***************************************************************************)
(* What the gateway recorded stays true of the plant, whatever is served   *)
(* late, lost or addressed to a process that is gone: a completed action   *)
(* changed the observed plant process exactly once, from exactly the       *)
(* observed state; an action reported as not dispatched or rejected never  *)
(* changes anything; every change is within its permit's lifetime; and a   *)
(* request has one effect at most, however often it is submitted and       *)
(* although a restarted gateway remembers none of its decisions.  About    *)
(* RemoteVirtualPlcPort.execute, _RemotePlantClient._exchange_call,        *)
(* CapabilityOtRuntime.execute and CapabilityPlantRuntime.execute.         *)
(***************************************************************************)
SegmentedClaimsAreTrue ==
  /\ \A o \in outcomes :
       CASE o.status = "completed" ->
              \E i \in ActsOf(o.id) :
                ActsOf(o.id) = {i} /\ acts[i].pre = o.obs.snap /\ acts[i].action = o.action
         [] o.status \in {"not_dispatched", "candidate_rejected", "plc_rejected"} ->
              ActsOf(o.id) = {}
         [] OTHER -> o.status \in {"unknown_effect", "observation_diverged"}
  /\ \A i \in DOMAIN acts : acts[i].at < acts[i].deadline
  /\ \A i, j \in DOMAIN acts : acts[i].action = acts[j].action => i = j
==============================================================================
