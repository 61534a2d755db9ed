----------------------------- MODULE CapabilityPlc -----------------------------
(***************************************************************************)
(* The permit-aware virtual PLC process (capability_plc.py): one thread    *)
(* that takes an execute request from the gateway's pipe, checks it        *)
(* against the plant, reserves it in the replay ledger, sends the apply    *)
(* request and signs an acknowledgment.                                    *)
(***************************************************************************)
EXTENDS Integers, Sequences, SequencesExt, FiniteSets

----------------------------------------------------------------------------
(***************************************************************************)
(* The plant process of the capability-separated stack and the signed      *)
(* observer in front of it (pandapower_plant.py, capability_plant.py,      *)
(* capability_observer.py).  Each is one thread that serves one request at *)
(* a time.  A client that times out closes its end of the pipe; a request  *)
(* it had already sent stays in the pipe and is served later.              *)
(***************************************************************************)

CONSTANTS
  Requests,       \* action requests; each stands for the command it leads to
  Unsafe,         \* the commands whose candidate state violates a limit
  CacheLimit,     \* envelopes the observer keeps: 128 in the code
  MaxTime, MaxSequence     \* bounds: the clock, the plant's observations

VARIABLES
  now,            \* the clock all processes read
  plant,          \* [state, seq, at]: PandapowerCigreMVPlant
  effects,        \* history: what the plant was changed by, in order
  observed,       \* observer_sequence
  cache,          \* the observer's cache of envelopes, oldest first
  postSource,     \* post_snapshot_source, fixed when the stack starts
  pending         \* per PLC boot: the apply request in its pipe to the plant

plantVars == <<plant, effects>>
observerVars == <<observed, cache>>

None == [none |-> TRUE]
Boots == {1, 2}

\* What the state digest covers: version, simulation time (one step per
\* version) and the actuators.
Baseline == [version |-> 0, setting |-> "baseline"]
Candidate(state, r) == [version |-> state.version + 1, setting |-> r]

PlantInit ==
  /\ now = 0
  /\ plant = [state |-> Baseline, seq |-> 0, at |-> 0]
  /\ effects = <<>>
  /\ observed = 0
  /\ cache = <<>>
  /\ postSource \in {"plant", "predecessor"}
  /\ pending = [b \in Boots |-> None]

Tick ==
  /\ now < MaxTime
  /\ now' = now + 1

\* read_state: a snapshot without a new observation.
ReadState == plant

\* capture_state: a new observation of an unchanged state.
CaptureState == [plant EXCEPT !.seq = @ + 1, !.at = now]

SimulateCandidate(r) ==
  [pre |-> plant, post |-> Candidate(plant.state, r), safe |-> r \notin Unsafe]

\* A plausible fault: the observation digest is not compared.
PrecommitForgetsObservation(permit) ==
  IF plant.state.version # permit.pre.state.version THEN "state_version_changed"
  ELSE IF plant.state # permit.pre.state THEN "state_digest_changed"
  ELSE "none"

\* The precommit comparisons of apply_authorized_command, in their order.
PrecommitReason(permit) ==
  IF plant.state.version # permit.pre.state.version THEN "state_version_changed"
  ELSE IF plant.state # permit.pre.state THEN "state_digest_changed"
  ELSE IF plant # permit.pre THEN "observation_changed"
  ELSE "none"

\* The rest of apply_authorized_command refuses what is unsafe or is not the
\* candidate the permit names.
ApplyReason(permit) ==
  IF PrecommitReason(permit) # "none" THEN PrecommitReason(permit)
  ELSE IF permit.req \in Unsafe THEN "post_state_violates_physical_limits"
  ELSE IF Candidate(plant.state, permit.req) # permit.post THEN "candidate_outcome_diverged"
  ELSE "none"

\* The plant takes an apply request out of the pipe of PLC boot b; answer is
\* what apply_authorized_command returns or raises.
ServeApply(b, answer) ==
  LET permit == pending[b] IN
  /\ permit # None
  /\ pending' = [pending EXCEPT ![b] = None]
  /\ answer = ApplyReason(permit)
  /\ IF answer = "none"
     THEN /\ plant' = [state |-> Candidate(plant.state, permit.req),
                       seq |-> plant.seq + 1, at |-> now]
          /\ effects' = Append(effects, [permit |-> permit, pre |-> plant])
     ELSE UNCHANGED plantVars

--------------------------------------------------------------------------------
(* The observer. *)

\* An envelope is bound to its transaction by phase, correlation, challenge,
\* predecessor, permit and acknowledgment; its digest covers them all, and the
\* observer's sequence number tells envelopes apart.
Envelope(seq, snap, phase, corr, challenge, previous, ack) ==
  [seq |-> seq, snap |-> snap, phase |-> phase, corr |-> corr,
   challenge |-> challenge, previous |-> previous, ack |-> ack]

Evict(s) == IF Len(s) > CacheLimit THEN Tail(s) ELSE s

\* capture: the next envelope goes out and stays in the cache.
Capture(envelope) ==
  /\ observed' = observed + 1
  /\ cache' = Evict(Append(cache, envelope))

Cached(envelope) == envelope \in ToSet(cache)

\* capture_pre, which any telemetry client may call at any time.
CapturePre ==
  /\ plant.seq < MaxSequence
  /\ plant' = CaptureState
  /\ Capture(Envelope(observed + 1, CaptureState, "pre", observed + 1,
                      <<"pre", observed + 1>>, None, None))
  /\ UNCHANGED effects

\* capture_post refuses without a cached predecessor of the same transaction.
PredecessorAvailable(pre, corr) ==
  /\ Cached(pre)
  /\ pre.phase = "pre"
  /\ pre.corr = corr

\* In the "predecessor" configuration the snapshot is an old one, resigned.
PostSnapshot(pre) == IF postSource = "plant" THEN CaptureState ELSE pre.snap

PostEnvelope(pre, challenge, ack) ==
  Envelope(observed + 1, PostSnapshot(pre), "post", pre.corr, challenge, pre.seq, ack)

CapturePost(pre, challenge, ack) ==
  /\ postSource = "plant" => plant.seq < MaxSequence
  /\ plant' = IF postSource = "plant" THEN CaptureState ELSE plant
  /\ Capture(PostEnvelope(pre, challenge, ack))
  /\ UNCHANGED effects

----------------------------------------------------------------------------
(* The PLC process. *)

VARIABLES
  plc,         \* [boot, up, stage, job, current, link]
  inbox,       \* the execute request in the gateway's pipe to the PLC
  applied,     \* the plant's answer to the PLC, or None
  reserved,    \* requests and permits in the replay ledger
  reply        \* the PLC's answer in the pipe to the gateway, or None

plcVars == <<plc, inbox, applied, reserved, reply>>

PlcInit ==
  /\ plc = [boot |-> 1, up |-> TRUE, stage |-> "idle", job |-> None,
            current |-> None, link |-> TRUE]
  /\ inbox = None
  /\ applied = None
  /\ reserved = {}
  /\ reply = None

\* Semantic identities of a transaction: the request's digest, the permit's.
Marks(permit) == {<<"request", permit.req, permit.obs.seq>>, <<"permit", permit.id>>}

Acknowledgment(permit, status, phase, reason, pre, post) ==
  [kind |-> "ack", permit |-> permit.id, boot |-> plc.boot, status |-> status,
   phase |-> phase, reason |-> reason, at |-> now, pre |-> pre, post |-> post]

Error == [kind |-> "error"]

\* The answer goes into the pipe unless the gateway closed its end.
Answer(message, listening) ==
  /\ reply' = IF listening THEN message ELSE None
  /\ plc' = [plc EXCEPT !.stage = "idle", !.job = None, !.current = None]

Reject(permit, phase, reason, pre, listening) ==
  Answer(Acknowledgment(permit, "rejected", phase, reason, pre, None), listening)

\* The ordered checks of _execute_locked that can fail between the processes
\* of one stack: the rest compare artifacts of one call with each other.
CheckReason(permit) ==
  IF Marks(permit) \cap reserved # {} THEN "replayed"
  ELSE IF permit.target # plc.boot THEN "permit_wrong_plc_boot"
  ELSE IF now < permit.issued THEN "permit_not_yet_valid"
  ELSE IF now >= permit.expires THEN "permit_expired"
  ELSE PrecommitReason(permit)

\* read_state, the replay lookup and the checks.
PlcTake(listening) ==
  /\ plc.up /\ plc.stage = "idle" /\ inbox # None /\ plc.link
  /\ inbox' = None
  /\ LET reason == CheckReason(inbox)
     IN  IF reason = "none"
         THEN /\ plc' = [plc EXCEPT !.stage = "checked", !.job = inbox, !.current = ReadState]
              /\ UNCHANGED reply
         ELSE Reject(inbox, "pre_dispatch", reason, ReadState, listening)
  /\ UNCHANGED <<applied, reserved>>

\* The fresh assessment has to agree with the one the permit was issued for.
AttestationMatches(permit) ==
  LET fresh == SimulateCandidate(permit.req)
  IN  /\ fresh.safe
      /\ fresh.pre.state = permit.pre.state
      /\ fresh.post = permit.post

\* The second simulation and the clock.
ReserveReason(permit) ==
  IF ~AttestationMatches(permit) THEN "candidate_attestation_mismatch"
  ELSE IF now >= permit.expires THEN "permit_expired_before_dispatch"
  ELSE "none"

\* The reservation; a full ledger is a rejection too.
PlcReserve(listening) ==
  /\ plc.up /\ plc.stage = "checked" /\ plc.link
  /\ LET reason == ReserveReason(plc.job)
     IN  \/ /\ reason = "none"
            /\ reserved' = reserved \cup Marks(plc.job)
            /\ plc' = [plc EXCEPT !.stage = "reserved"]
            /\ UNCHANGED reply
         \/ /\ Reject(plc.job, "pre_dispatch", IF reason = "none" THEN "ledger_refused" ELSE reason,
                      plc.current, listening)
            /\ UNCHANGED reserved
  /\ UNCHANGED <<inbox, applied>>

\* The last look at the clock, and the apply request.
PlcSend(listening) ==
  /\ plc.up /\ plc.stage = "reserved"
  /\ IF now >= plc.job.expires
     THEN /\ Reject(plc.job, "pre_dispatch", "permit_expired_after_replay_reservation",
                    plc.current, listening)
          /\ UNCHANGED pending
     ELSE /\ pending' = [pending EXCEPT ![plc.boot] = plc.job]
          /\ plc' = [plc EXCEPT !.stage = "applying"]
          /\ UNCHANGED reply
  /\ UNCHANGED <<inbox, applied, reserved>>

\* The plant serves a request; nobody reads the answer of a PLC that gave up.
PlantApply(b) ==
  \E answer \in {"none", "state_version_changed", "state_digest_changed",
                 "observation_changed", "post_state_violates_physical_limits",
                 "candidate_outcome_diverged"} :
    /\ ServeApply(b, answer)
    /\ applied' = IF plc.up /\ plc.boot = b /\ plc.stage = "applying"
                  THEN [answer |-> answer, state |-> plant'.state] ELSE applied
    /\ UNCHANGED <<plc, inbox, reserved, reply>>

\* The plant's refusal is a known absence of effect.  After a precommit
\* refusal the state is read again for the acknowledgment.
RejectionState(reason) ==
  IF reason \in {"state_version_changed", "state_digest_changed", "observation_changed"}
  THEN ReadState ELSE plc.current

PlcConclude(listening) ==
  /\ plc.up /\ plc.stage = "applying" /\ applied # None
  /\ applied' = None
  /\ IF applied.answer = "none"
     THEN IF applied.state = plc.job.post
          THEN Answer(Acknowledgment(plc.job, "applied", "committed", "applied", plc.current,
                                     applied.state), listening)
          ELSE Answer(Acknowledgment(plc.job, "unknown", "effect_unknown", "diverged",
                                     plc.current, None), listening)
     ELSE Reject(plc.job, "known_no_effect", applied.answer, RejectionState(applied.answer),
                 listening)
  /\ UNCHANGED <<inbox, reserved>>

\* A plausible fault: an apply that was not answered counts as not done.
GiveUpAsRejection ==
  Acknowledgment(plc.job, "rejected", "known_no_effect", "timeout", plc.current, None)

\* The plant does not answer within the IPC timeout: the effect is unknown, and
\* the PLC's client for the plant is closed for good.
GiveUpAcknowledgment ==
  Acknowledgment(plc.job, "unknown", "effect_unknown", "plant_dispatch_outcome_unavailable",
                 plc.current, None)

PlcGiveUp(listening) ==
  /\ plc.up /\ plc.stage = "applying" /\ applied = None
  /\ reply' = IF listening THEN GiveUpAcknowledgment ELSE None
  /\ plc' = [plc EXCEPT !.stage = "idle", !.job = None, !.current = None, !.link = FALSE]
  /\ UNCHANGED <<inbox, applied, reserved>>

\* A read, a simulation or the ledger fails, which is an internal error; a
\* plant that does not answer costs the PLC its client for the plant.
PlcFault(listening) ==
  /\ plc.up
  /\ plc.stage \in {"idle", "checked"}
  /\ plc.stage = "idle" => inbox # None
  /\ inbox' = IF plc.stage = "idle" THEN None ELSE inbox
  /\ reply' = IF listening THEN Error ELSE None
  /\ \E open \in {FALSE, plc.link} :
       plc' = [plc EXCEPT !.stage = "idle", !.job = None, !.current = None, !.link = open]
  /\ UNCHANGED <<applied, reserved>>
==============================================================================
