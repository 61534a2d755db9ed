------------------------------ MODULE ClosedLoop ------------------------------
(***************************************************************************)
(* The capability-separated closed loop (capability_control.py,            *)
(* capability_factory.py): a controller that resolves a signed             *)
(* observation, authorizes, simulates, dispatches once and completes only  *)
(* on two independent signed reports, while telemetry clients make         *)
(* observations of their own and an operator may replace the PLC process.  *)
(* Any exchange may time out, and what was sent may still be served.       *)
(***************************************************************************)
EXTENDS CapabilityPlc

CONSTANTS
  PermitLife,      \* time_to_live of a permit
  MaxAge,          \* maximum_age of an observation
  MaxAttempts      \* bound: executions of requests

VARIABLES
  asked,       \* per request: the envelope it refers to, or None
  tx,          \* the execution that holds the lock, or None
  attempts,    \* executions so far
  lastSeq,     \* _last_sequence of the verifier
  accepted,    \* _accepted_challenges
  open,        \* which of the controller's own clients still work
  swaps,       \* the assignments restart_plc has made, 0 to 4
  restart,     \* "none", "stopped" or "spawned"
  results      \* the dispositions recorded in the evidence chain

controlVars == <<asked, tx, attempts, lastSeq, accepted, open, swaps, restart, results>>
vars == <<now, plant, effects, observed, cache, postSource, pending, plcVars, controlVars>>

Init ==
  /\ PlantInit
  /\ PlcInit
  /\ asked = [r \in Requests |-> None]
  /\ tx = None
  /\ attempts = 0
  /\ lastSeq = 0
  /\ accepted = {}
  /\ open = [observer |-> TRUE, simulator |-> TRUE, plc |-> [b \in Boots |-> TRUE]]
  /\ swaps = 0
  /\ restart = "none"
  /\ results = {}

(* restart_plc assigns controller.plc, .plc_info, .plc_public_key and the     *)
(* issuer's target one after the other, without the execution lock.           *)
ClientBoot == IF swaps >= 1 THEN 2 ELSE 1
InfoBoot == IF swaps >= 2 THEN 2 ELSE 1
KeyBoot == IF swaps >= 3 THEN 2 ELSE 1
TargetBoot == IF swaps >= 4 THEN 2 ELSE 1

\* The controller still reads the pipe of the PLC that is running.
Listening == tx # None /\ tx.stage = "waiting" /\ tx.client = plc.boot

\* A plausible fault: the observer's state is not compared with the PLC's.
NoContradiction(env, ack, permit) == TRUE

\* post_matches.
PostMatches(env, ack, permit) ==
  env.snap.state = ack.post /\ env.snap.state = permit.post

\* _post_bindings_match.
PostBound(post, ack) ==
  /\ post.phase = "post"
  /\ post.corr = tx.obs.corr
  /\ post.ack = ack
  /\ post.previous = tx.obs.seq
  /\ tx.permit.obs = tx.obs

Status(ack) == IF ack = None THEN "none" ELSE ack.status

\* require_terminal_shape: what a result may claim with which artifacts.
TerminalShape(status, dispatched, ack, post) ==
  /\ dispatched => tx.permit # None
  /\ ack # None => dispatched
  /\ CASE status = "not_dispatched" -> ~dispatched /\ ack = None /\ post = None
       [] status = "candidate_rejected" ->
            /\ post = None
            /\ IF dispatched THEN Status(ack) = "rejected" ELSE tx.permit = None
       [] status = "plc_rejected" -> dispatched /\ Status(ack) = "rejected" /\ post = None
       [] status = "unknown_effect" -> dispatched /\ post = None
       [] OTHER ->
            /\ dispatched /\ Status(ack) = "applied" /\ post # None
            /\ PostBound(post, ack)
            /\ (status = "completed") = PostMatches(post, ack, tx.permit)

\* _record appends the evidence and then builds the result, which raises when
\* its shape is wrong.
Record(status, dispatched, ack, post) ==
  /\ results' = results \cup
       {[req |-> tx.req, id |-> tx.id, obs |-> tx.obs, post |-> post,
         status |-> IF TerminalShape(status, dispatched, ack, post) THEN status ELSE "raised"]}
  /\ tx' = None

--------------------------------------------------------------------------------
(* The verifier of signed observations. *)

CommonReasons(env) ==
  \/ env.snap.at > now
  \/ now - env.snap.at > MaxAge
  \/ env.seq <= lastSeq
  \/ env.challenge \in accepted

Accept(env) ==
  /\ lastSeq' = env.seq
  /\ accepted' = accepted \cup {env.challenge}

\* verify_pre; the request was made from this envelope, so only its phase and
\* the common reasons can speak against it.
PreAccepted(env) == ~CommonReasons(env) /\ env.phase = "pre"

\* verify_post.
PostAccepted(env, challenge, ack) ==
  /\ ~CommonReasons(env)
  /\ env.phase = "post"
  /\ env.corr = tx.obs.corr
  /\ env.challenge = challenge
  /\ env.ack = ack
  /\ env.previous = tx.permit.obs.seq
  /\ env.snap.at >= ack.at

--------------------------------------------------------------------------------
(* Executing a request, under the execution lock. *)

Idle == tx = None

\* An agent makes its request from an envelope a telemetry client received;
\* it may submit the same request again.
Begin(r, env) ==
  [req |-> r, id |-> attempts + 1, stage |-> "resolve", obs |-> env, assessment |-> None,
   permit |-> None, client |-> 0, ack |-> None]

Submit(r) ==
  /\ Idle
  /\ attempts < MaxAttempts
  /\ \E env \in ToSet(cache) \cup {asked[r]} :
       /\ env # None
       /\ env.phase = "pre"
       /\ asked[r] # None => env = asked[r]
       /\ asked' = [asked EXCEPT ![r] = env]
       /\ tx' = Begin(r, env)
  /\ attempts' = attempts + 1
  /\ UNCHANGED <<lastSeq, accepted, open, swaps, restart, results>>

\* resolve answers, or the exchange fails and the client is closed.
ResolveFails ==
  /\ tx # None /\ tx.stage = "resolve"
  /\ \/ /\ ~(open.observer /\ Cached(tx.obs))
        /\ UNCHANGED open
     \/ open' = [open EXCEPT !.observer = FALSE]
  /\ Record("not_dispatched", FALSE, None, None)
  /\ UNCHANGED <<asked, attempts, lastSeq, accepted, swaps, restart>>

\* verify_pre, then conversion, decision and translation: any of the three may
\* end the execution, after the observation was accepted.
Authorize ==
  /\ tx # None /\ tx.stage = "resolve"
  /\ open.observer /\ Cached(tx.obs)
  /\ IF PreAccepted(tx.obs)
     THEN /\ Accept(tx.obs)
          /\ \/ /\ tx' = [tx EXCEPT !.stage = "simulate"]
                /\ UNCHANGED results
             \/ Record("not_dispatched", FALSE, None, None)
     ELSE Record("not_dispatched", FALSE, None, None) /\ UNCHANGED <<lastSeq, accepted>>
  /\ UNCHANGED <<asked, attempts, open, swaps, restart>>

\* simulate_candidate and the comparison of its pre-state with the observation.
Simulate ==
  /\ tx # None /\ tx.stage = "simulate"
  /\ \/ /\ open.simulator
        /\ LET assessment == SimulateCandidate(tx.req)
           IN  IF assessment.safe /\ assessment.pre = tx.obs.snap
               THEN /\ tx' = [tx EXCEPT !.stage = "permit", !.assessment = assessment]
                    /\ UNCHANGED results
               ELSE Record("candidate_rejected", FALSE, None, None)
        /\ UNCHANGED open
     \/ /\ Record("not_dispatched", FALSE, None, None)
        /\ open' = [open EXCEPT !.simulator = FALSE]
  /\ UNCHANGED <<asked, attempts, lastSeq, accepted, swaps, restart>>

\* The permit binds request, observation, candidate and target PLC process.
\* The evidence the base issuer wants may be missing, which is a refusal.
IssuePermit ==
  /\ tx # None /\ tx.stage = "permit"
  /\ \/ /\ tx' = [tx EXCEPT !.stage = "dispatch",
                   !.permit = [id |-> tx.id, req |-> tx.req, obs |-> tx.obs,
                               pre |-> tx.assessment.pre, post |-> tx.assessment.post,
                               target |-> TargetBoot, issued |-> now,
                               expires |-> now + PermitLife]]
        /\ UNCHANGED results
     \/ Record("not_dispatched", FALSE, None, None)
  /\ UNCHANGED <<asked, attempts, lastSeq, accepted, open, swaps, restart>>

\* The request goes into the pipe of the PLC the controller holds a client for.
Dispatch ==
  /\ tx # None /\ tx.stage = "dispatch"
  /\ IF open.plc[ClientBoot] /\ plc.up /\ plc.boot = ClientBoot
     THEN /\ inbox' = tx.permit
          /\ tx' = [tx EXCEPT !.stage = "waiting", !.client = ClientBoot]
          /\ UNCHANGED results
     ELSE Record("unknown_effect", TRUE, None, None) /\ UNCHANGED inbox
  /\ UNCHANGED <<plc, applied, reserved, reply, asked, attempts, lastSeq, accepted, open,
                 swaps, restart>>

\* verify_for_transaction.
AcknowledgmentValid(ack) ==
  LET permit == tx.permit
      replayed == ack.status = "rejected" /\ ack.reason = "replayed"
      changed == ack.reason \in {"state_version_changed", "state_digest_changed",
                                 "observation_changed"}
      within == permit.issued <= ack.at /\ ack.at < permit.expires
  IN  /\ ack.permit = permit.id
      /\ ack.boot = InfoBoot /\ ack.boot = KeyBoot
      /\ permit.target = InfoBoot \/ replayed
      /\ CASE ack.status = "applied" ->
                within /\ ack.pre = tx.obs.snap /\ ack.post = permit.post
           [] ack.status = "rejected" ->
                /\ CASE ack.reason = "permit_not_yet_valid" -> ack.at < permit.issued
                     [] ack.reason \in {"permit_expired", "permit_expired_before_dispatch",
                                        "permit_expired_after_replay_reservation"} ->
                          ack.at >= permit.expires
                     [] replayed -> ack.at >= permit.issued
                     [] OTHER -> within
                /\ replayed \/ (ack.pre = tx.obs.snap /\ ~changed)
                            \/ (ack.pre # tx.obs.snap /\ changed)
           [] OTHER -> ack.at >= permit.issued /\ ack.pre = tx.obs.snap

RejectedStatus(reason) ==
  IF reason = "candidate_attestation_mismatch" THEN "candidate_rejected" ELSE "plc_rejected"

Acknowledged ==
  /\ tx # None /\ tx.stage = "waiting" /\ reply # None
  /\ reply' = None
  /\ IF reply.kind = "error" THEN Record("unknown_effect", TRUE, None, None)
     ELSE IF ~AcknowledgmentValid(reply) \/ reply.status = "unknown"
     THEN Record("unknown_effect", TRUE, reply, None)
     ELSE IF reply.status = "rejected" THEN Record(RejectedStatus(reply.reason), TRUE, reply, None)
     ELSE tx' = [tx EXCEPT !.stage = "post", !.ack = reply] /\ UNCHANGED results
  /\ UNCHANGED <<plc, inbox, applied, reserved, asked, attempts, lastSeq, accepted, open,
                 swaps, restart>>

\* The PLC does not answer in time, or is gone.  The client is closed; the
\* request may still be in the pipe.
DispatchGivesUp ==
  /\ tx # None /\ tx.stage = "waiting" /\ reply = None
  /\ open' = [open EXCEPT !.plc[tx.client] = FALSE]
  /\ Record("unknown_effect", TRUE, None, None)
  /\ UNCHANGED <<plcVars, asked, attempts, lastSeq, accepted, swaps, restart>>

\* capture_post and what the verifier makes of it.
Complete ==
  /\ tx # None /\ tx.stage = "post"
  /\ open.observer
  /\ LET challenge == <<"post", tx.id>>
         env == PostEnvelope(tx.obs, challenge, tx.ack)
     IN  IF ~PredecessorAvailable(tx.obs, tx.obs.corr)
         THEN /\ Record("unknown_effect", TRUE, tx.ack, None)
              /\ UNCHANGED <<plantVars, observerVars, lastSeq, accepted>>
         ELSE /\ CapturePost(tx.obs, challenge, tx.ack)
              /\ IF PostAccepted(env, challenge, tx.ack)
                 THEN /\ Accept(env)
                      /\ Record(IF PostMatches(env, tx.ack, tx.permit) THEN "completed"
                                ELSE "observation_diverged", TRUE, tx.ack, env)
                 ELSE Record("unknown_effect", TRUE, tx.ack, None) /\ UNCHANGED <<lastSeq, accepted>>
  /\ UNCHANGED <<asked, attempts, open, swaps, restart>>

\* The observer does not answer: it has captured, or does so like a telemetry
\* request later.
PostFails ==
  /\ tx # None /\ tx.stage = "post"
  /\ open' = [open EXCEPT !.observer = FALSE]
  /\ Record("unknown_effect", TRUE, tx.ack, None)
  /\ \/ /\ open.observer
        /\ PredecessorAvailable(tx.obs, tx.obs.corr)
        /\ CapturePost(tx.obs, <<"post", tx.id>>, tx.ack)
     \/ UNCHANGED <<plantVars, observerVars>>
  /\ UNCHANGED <<asked, attempts, lastSeq, accepted, swaps, restart>>

--------------------------------------------------------------------------------
(* restart_plc: the one replacement the stack has pipes for. *)

\* The PLC serves the shutdown between two requests; what was in its pipes from
\* the gateway is gone, what it sent to the plant is not.
StopPlc ==
  /\ restart = "none" /\ plc.stage = "idle"
  /\ restart' = "stopped"
  /\ plc' = [plc EXCEPT !.up = FALSE]
  /\ inbox' = None
  /\ open' = [open EXCEPT !.plc[1] = FALSE]
  /\ UNCHANGED <<applied, reserved, reply, asked, tx, attempts, lastSeq, accepted, swaps,
                 results>>

\* The replacement has a new boot epoch and key and reads the same ledger.
SpawnPlc ==
  /\ restart = "stopped"
  /\ restart' = "spawned"
  /\ plc' = [boot |-> 2, up |-> TRUE, stage |-> "idle", job |-> None, current |-> None,
             link |-> TRUE]
  /\ reply' = IF tx # None /\ tx.stage = "waiting" THEN reply ELSE None
  /\ UNCHANGED <<inbox, applied, reserved, asked, tx, attempts, lastSeq, accepted, open,
                 swaps, results>>

SwapPlc ==
  /\ restart = "spawned"
  /\ swaps < 4
  /\ swaps' = swaps + 1
  /\ UNCHANGED <<plcVars, asked, tx, attempts, lastSeq, accepted, open, restart, results>>

--------------------------------------------------------------------------------
PlcStep ==
  \/ PlcTake(Listening) /\ UNCHANGED pending
  \/ PlcReserve(Listening) /\ UNCHANGED pending
  \/ PlcSend(Listening)
  \/ PlcConclude(Listening) /\ UNCHANGED pending
  \/ PlcGiveUp(Listening) /\ UNCHANGED pending
  \/ PlcFault(Listening) /\ UNCHANGED pending

Decide == ResolveFails \/ Authorize \/ Simulate \/ IssuePermit \/ \E r \in Requests : Submit(r)
Restart == StopPlc \/ SpawnPlc \/ SwapPlc

Next ==
  \/ Tick /\ UNCHANGED <<plantVars, observerVars, postSource, pending, plcVars, controlVars>>
  \/ CapturePre /\ UNCHANGED <<now, postSource, pending, plcVars, controlVars>>
  \/ PlcStep /\ UNCHANGED <<now, plantVars, observerVars, postSource, controlVars>>
  \/ \E b \in Boots : PlantApply(b) /\ UNCHANGED <<now, observerVars, postSource, controlVars>>
  \/ Decide /\ UNCHANGED <<now, plantVars, observerVars, postSource, pending, plcVars>>
  \/ Dispatch /\ UNCHANGED <<now, plantVars, observerVars, postSource, pending>>
  \/ Acknowledged /\ UNCHANGED <<now, plantVars, observerVars, postSource, pending>>
  \/ DispatchGivesUp /\ UNCHANGED <<now, plantVars, observerVars, postSource, pending>>
  \/ Complete /\ UNCHANGED <<now, postSource, pending, plcVars>>
  \/ PostFails /\ UNCHANGED <<now, postSource, pending, plcVars>>
  \/ Restart /\ UNCHANGED <<now, plantVars, observerVars, postSource, pending>>

Spec == Init /\ [][Next]_vars

--------------------------------------------------------------------------------
(* Properties *)

EffectsOf(id) == {i \in DOMAIN effects : effects[i].permit.id = id}

\* A recorded disposition stays true of the plant however late the requests it
\* gave up on are served: a completed execution changed the plant exactly once,
\* from the very state the signed observation showed to the state both reports
\* name; an execution recorded without effect never has one; a request that is
\* submitted again does not act again; and no recorded disposition fails to
\* become a result.  About
\* CapabilityClosedLoopController._execute_locked and
\* CapabilityVirtualPlc._execute_locked.
DispositionStaysTrue ==
  /\ \A r \in results :
       CASE r.status = "completed" ->
              \E i \in EffectsOf(r.id) :
                /\ EffectsOf(r.id) = {i}
                /\ effects[i].pre = r.obs.snap
                /\ r.post.snap.state = Candidate(effects[i].pre.state, r.req)
         [] r.status \in {"not_dispatched", "candidate_rejected", "plc_rejected"} ->
              EffectsOf(r.id) = {}
         [] OTHER -> r.status \in {"unknown_effect", "observation_diverged"}
  /\ \A i, j \in DOMAIN effects : effects[i].permit.req = effects[j].permit.req => i = j

\* A fresh observation settles what an unknown effect left open: once anyone
\* has observed the plant again, an execution whose permit is bound to an older
\* observation can no longer act, so the new snapshot shows its whole effect.
\* About apply_authorized_command, whose request may have waited in the pipe of
\* a PLC that gave up or was replaced.
ObservationSettlesEffects ==
  [][\A e \in Range(effects') \ Range(effects) :
       \A i \in DOMAIN cache : cache[i].phase = "pre" => cache[i].seq <= e.permit.obs.seq]_vars
================================================================================
