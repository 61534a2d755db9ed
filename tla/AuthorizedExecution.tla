------------------------- MODULE AuthorizedExecution -------------------------
(***************************************************************************)
(* The authorization gateway and the segmented runtime around it           *)
(* (gateway.py, replay.py, segmented_runtime.py, lab.py): the gateway      *)
(* issues observations from a bounded cache, decides proposals about them, *)
(* and sends permits to the OT adapter, which admits each message once and *)
(* asks the simulation to apply it.  Every process can restart on its own. *)
(* A decision takes time: it is evaluated at one instant and reserves its  *)
(* nonce at a later one, while other requests are served.                  *)
(***************************************************************************)
EXTENDS Integers, Sequences, FiniteSets, SequencesExt

----------------------------------------------------------------------------
(***************************************************************************)
(* Validation of delegation chains (src/aegis_ot/delegation.py) and the    *)
(* other pure checks of the authorization gateway: contextual policy,      *)
(* OPA answers and the safety kernel.  Reasons are kept as sets of reason  *)
(* names, without the grant they are about.  Percentages, voltages and     *)
(* scores are small integers; line loading is left out because the kernel  *)
(* bounds it exactly as it bounds the load.                                *)
(***************************************************************************)

CONSTANTS
  Grants,             \* [grant id -> grant]: the validator's registered grants
  ActorIds,           \* the actors on the identity allowlist
  MinLoad,            \* minimum_critical_load_served_pct
  MinVolt, MaxVolt,   \* minimum_voltage_pu, maximum_voltage_pu
  MaxIsolations,      \* maximum_simultaneous_isolations
  ApprovalThreshold   \* human_approval_risk_threshold

NoGrant == "none"

\* DelegationGrant: `sound` says that the signature verifies under the key
\* registered for the issuer.
GrantRecord ==
  [issuer : STRING, subject : STRING, mission : STRING,
   resources : SUBSET STRING, operations : SUBSET STRING,
   notBefore : Int, expiresAt : Int, risk : Nat, depth : Nat,
   parent : DOMAIN Grants \cup {NoGrant}, sound : BOOLEAN]

\* A grant cannot even be built with an empty window (valid_window).
ASSUME GrantsAssumption ==
  \A g \in DOMAIN Grants :
    /\ Grants[g] \in GrantRecord
    /\ Grants[g].notBefore < Grants[g].expiresAt

ReasonIf(holds, reason) == IF holds THEN {reason} ELSE {}

GrantAt(chain, i) == Grants[chain[i]]

\* First loop of validate: each grant for itself.
OwnReasons(id, t, gone) ==
  IF id \notin DOMAIN Grants THEN {"unknown_grant"}
  ELSE ReasonIf(~Grants[id].sound, "invalid_signature")
       \cup ReasonIf(id \in gone, "revoked_grant")
       \cup ReasonIf(~(Grants[id].notBefore <= t /\ t <= Grants[id].expiresAt),
                     "inactive_grant")

GrantReasons(chain, t, gone) == UNION {OwnReasons(chain[i], t, gone) : i \in DOMAIN chain}

\* FAULTY: the link no longer compares the resources of child and parent.
LinkResourcesUnchecked(g, parent) == TRUE

LinkResourcesHeld(g, parent) == g.resources \subseteq parent.resources

\* Second loop: each grant against the one it was delegated from.
LinkReasonsAt(chain, i) ==
  LET g == GrantAt(chain, i)
      parent == GrantAt(chain, i - 1) IN
    ReasonIf(g.parent # chain[i - 1], "broken_parent_link")
    \cup ReasonIf(g.issuer # parent.subject, "issuer_subject_mismatch")
    \cup ReasonIf(~LinkResourcesHeld(g, parent), "resource_amplification")
    \cup ReasonIf(~(g.operations \subseteq parent.operations), "operation_amplification")
    \cup ReasonIf(g.risk > parent.risk, "risk_amplification")
    \cup ReasonIf(g.depth >= parent.depth, "depth_not_attenuated")
    \cup ReasonIf(g.notBefore < parent.notBefore \/ g.expiresAt > parent.expiresAt,
                  "time_amplification")

LinkReasons(chain) ==
  ReasonIf(Len(chain) > 0 /\ GrantAt(chain, 1).parent # NoGrant, "root_has_parent")
  \cup UNION {LinkReasonsAt(chain, i) : i \in 2..Len(chain)}

\* The proposal against the leaf of its chain.
LeafReasons(p) ==
  LET leaf == GrantAt(p.chain, Len(p.chain)) IN
    ReasonIf(leaf.subject # p.actor, "leaf_subject_mismatch")
    \cup ReasonIf(leaf.mission # p.mission, "mission_out_of_scope")
    \cup ReasonIf(p.resource \notin leaf.resources, "resource_out_of_scope")
    \cup ReasonIf(p.operation \notin leaf.operations, "operation_out_of_scope")
    \cup ReasonIf(p.risk > leaf.risk, "risk_out_of_scope")

\* DelegationValidator.validate: a cycle and unusable grants end it early.
DelegationReasons(p, t, gone) ==
  LET own == GrantReasons(p.chain, t, gone) IN
  IF \E i, j \in DOMAIN p.chain : i # j /\ p.chain[i] = p.chain[j]
    THEN {"delegation_cycle"}
  ELSE IF own # {} THEN own
  ELSE LinkReasons(p.chain) \cup (IF p.chain = <<>> THEN {} ELSE LeafReasons(p))

---------------------------------------------------------------------------
(* Policy and safety *)

\* What OPA may answer; the policy relay passes a decision on and turns
\* everything else into an error, and so does the gateway's parser.
OpaAnswers == {"true", "false", "malformed", "down"}

ParseOpa(answer) == IF answer \in {"true", "false"} THEN answer ELSE "error"

RelayAnswer(answer) == IF ParseOpa(answer) = "error" THEN "down" ELSE answer

\* ContextualPolicy.evaluate.
LocalPolicyReasons(p, st) ==
  ReasonIf(~p.confident, "confidence_below_policy_minimum")
  \cup ReasonIf(p.version # st.version, "state_version_mismatch")
  \cup ReasonIf(p.risk >= ApprovalThreshold /\ ~p.approved, "human_approval_required")

\* OpaBackedPolicy.evaluate: OPA is asked only when the local rules agree.
PolicyReasons(p, st, answer) ==
  LET own == LocalPolicyReasons(p, st)
      parsed == ParseOpa(RelayAnswer(answer)) IN
  IF own # {} THEN own
  ELSE ReasonIf(parsed = "error", "policy_service_unavailable")
       \cup ReasonIf(parsed = "false", "external_policy_denied")

Clamped(load) == IF load < 0 THEN 0 ELSE IF load > 10 THEN 10 ELSE load

\* SafetyKernel._transition, for the quantities that are modelled.
Transition(p, st) ==
  [st EXCEPT
     !.version = @ + 1,
     !.load = Clamped(CASE p.operation \in {"isolate_asset", "shed_load"} -> @ - p.amount
                        [] p.operation = "restore_asset" -> @ + p.amount
                        [] OTHER -> @),
     !.volt = IF p.operation = "dispatch_battery" THEN @ + p.amount ELSE @,
     !.peak = IF p.operation = "dispatch_battery" THEN @ + p.rise ELSE @,
     !.isolated = CASE p.operation = "isolate_asset" -> @ \cup {p.resource}
                    [] p.operation = "restore_asset" -> @ \ {p.resource}
                    [] OTHER -> @]

LimitReasons(st) ==
  ReasonIf(st.load < MinLoad, "critical_load_below_limit")
  \cup ReasonIf(st.volt < MinVolt, "voltage_below_limit")
  \cup ReasonIf(st.peak > MaxVolt, "voltage_above_limit")
  \cup ReasonIf(Cardinality(st.isolated) > MaxIsolations, "isolation_limit_exceeded")

\* SafetyKernel.evaluate judges the state the action would lead to.
SafetyReasons(p, st) == LimitReasons(Transition(p, st))

----------------------------------------------------------------------------
(* The gateway, the adapter and the plant. *)

CONSTANTS
  Requests,         \* what agents submit, without the observation it is about
  Answers,          \* the OPA answers that occur
  Revocable,        \* the grants an operator may revoke
  Handlers,         \* concurrent gateway request handlers
  MaxStateAge,      \* maximum_state_age, in ticks
  Retention,        \* retention of the nonce ledger, in ticks
  RequestTtl,       \* validity of a signed execution request, in ticks
  MaxStall,         \* how long a decision may wait for OPA, in ticks
  CacheSize,        \* _MAX_CACHED_OBSERVATIONS
  Nominal,          \* the plant state the simulation starts from
  MaxTime, MaxObservations, MaxSubmissions, MaxEvents   \* bounds

ASSUME AnswersAssumption == Answers \subseteq OpaAnswers

\* What an agent submits: the action, its approval and its delegation chain.  `amount`
\* is the change of the load or of the lowest voltage, `rise` of the highest.
RequestRecord ==
  [nonce : STRING, actor : STRING, mission : STRING, resource : STRING,
   operation : STRING, amount : Int, rise : Int, risk : Nat, confident : BOOLEAN,
   approved : BOOLEAN, chain : Seq(STRING)]

ASSUME RequestsAssumption == Requests \subseteq RequestRecord

PlantState == [version : Int, load : Int, volt : Int, peak : Int, isolated : SUBSET STRING]

\* The simulation starts within the limits of the safety kernel.
ASSUME NominalAssumption == Nominal \in PlantState /\ LimitReasons(Nominal) = {}

\* A nonce is remembered longer than a decision on one observation can last.
ASSUME RetentionCoversDecisions ==
  /\ Retention \in Nat /\ MaxStateAge \in Nat /\ MaxStall \in Nat
  /\ Retention > MaxStateAge + MaxStall

VARIABLES
  now,         \* the clock
  config,      \* deployment: authenticated transport, durable replay ledger
  plant,       \* MutableSurrogatePlant._state, and the life it belongs to
  cache,       \* _observation_cache, oldest first
  issued,      \* number of observations issued so far (bounded)
  seen,        \* ReplayLedger._seen: set of [nonce, at]
  revoked,     \* DelegationValidator._revoked
  handler,     \* per handler: Idle or the decision under way
  net,         \* execution requests sent to the OT adapter; never removed
  otNonces,    \* _ot_transport_nonces of the running adapter
  ledger,      \* the durable ledger's nonces, and whether it can be read
  calls,       \* apply calls on their way to the simulation
  granted,     \* history: decisions that did not deny
  applied,     \* history: [id, boot] of each applied request, with how often
  submitted,   \* requests submitted so far (bounded)
  events       \* events, faults and revocations so far (bounded)

vars == <<now, config, plant, cache, issued, seen, revoked, handler, net,
          otNonces, ledger, calls, granted, applied, submitted, events>>

Idle == [stage |-> "idle"]

Configs == {[auth |-> FALSE, durable |-> FALSE], [auth |-> TRUE, durable |-> FALSE],
            [auth |-> TRUE, durable |-> TRUE]}

Init ==
  /\ now = 0
  /\ config \in Configs
  /\ plant = [state |-> Nominal, boot |-> 0, mixed |-> FALSE]
  /\ cache = <<>>
  /\ issued = 0
  /\ seen = {}
  /\ revoked = {}
  /\ handler = [h \in Handlers |-> Idle]
  /\ net = {}
  /\ otNonces = {}
  /\ ledger = [nonces |-> {}, readable |-> TRUE]
  /\ calls = {}
  /\ granted = {}
  /\ applied = [d \in {} |-> 0]
  /\ submitted = 0
  /\ events = 0

\* A handler waiting for OPA gives up after the request timeout, so the clock
\* cannot run away from it.
Tick ==
  /\ now < MaxTime
  /\ \A h \in Handlers : handler[h] # Idle => now < handler[h].at + MaxStall
  /\ now' = now + 1
  /\ UNCHANGED <<config, plant, cache, issued, seen, revoked, handler, net,
                 otNonces, ledger, calls, granted, applied, submitted, events>>

---------------------------------------------------------------------------
(* Gateway *)

\* _cache_observation: the newest entry goes to the end, the oldest leaves.
Cached(o) ==
  LET longer == Append(cache, o) IN
  IF Len(longer) > CacheSize THEN Tail(longer) ELSE longer

Observation(id) ==
  [id |-> id, at |-> now, boot |-> plant.boot, version |-> plant.state.version,
   load |-> plant.state.load, volt |-> plant.state.volt,
   peak |-> plant.state.peak, isolated |-> plant.state.isolated]

\* gateway_observation: a fresh state of the simulation, under a new instant.
Observe ==
  /\ issued < MaxObservations
  /\ issued' = issued + 1
  /\ cache' = Cached(Observation(issued + 1))
  /\ UNCHANGED <<now, config, plant, seen, revoked, handler, net, otNonces,
                 ledger, calls, granted, applied, submitted, events>>

\* The proposal an agent submits about the observation o.
Proposal(r, o) ==
  [version |-> o.version, observation |-> o.id, nonce |-> r.nonce, actor |-> r.actor,
   mission |-> r.mission, resource |-> r.resource, operation |-> r.operation,
   amount |-> r.amount, rise |-> r.rise, risk |-> r.risk, confident |-> r.confident,
   approved |-> r.approved, chain |-> r.chain]

\* FAULTY: a decision no longer asks how old the observation is.
IsFreshAlways(o, t) == TRUE

IsFresh(o, t) == 0 <= t - o.at /\ t - o.at <= MaxStateAge

\* Asking for approval is the answer when nothing else speaks against it.
Outcome(reasons) ==
  IF reasons = {} THEN "permit"
  ELSE IF reasons = {"human_approval_required"} THEN "require_approval"
  ELSE "deny"

\* gateway_action up to the reservation of the nonce: the observation must
\* still be cached; identity, delegation, freshness, policy and safety are
\* evaluated at this instant.
BeginDecide(h, r, o, answer) ==
  LET p == Proposal(r, o) IN
  /\ handler[h] = Idle
  /\ submitted < MaxSubmissions
  /\ submitted' = submitted + 1
  /\ o \in Range(cache)
  /\ handler' = [handler EXCEPT ![h] =
       [stage |-> "deciding", p |-> p, o |-> o, at |-> now,
        verified |-> p.actor \in ActorIds,
        verdict |-> Outcome(ReasonIf(p.actor \notin ActorIds, "identity_not_verified")
                            \cup DelegationReasons(p, now, revoked)
                            \cup ReasonIf(~IsFresh(o, now), "state_not_fresh")
                            \cup PolicyReasons(p, o, answer)
                            \cup SafetyReasons(p, o))]]
  /\ UNCHANGED <<now, config, plant, cache, issued, seen, revoked, net, otNonces,
                 ledger, calls, granted, applied, events>>

\* ReplayLedger.reserve with the decision's own instant: entries past the
\* retention go first.
Retained(t) == {e \in seen : e.at >= t - Retention}

Reserves(nonce, t) == \A e \in Retained(t) : e.nonce # nonce

SeenAfter(d) ==
  IF ~d.verified THEN seen
  ELSE IF Reserves(d.p.nonce, d.at) THEN Retained(d.at) \cup {[nonce |-> d.p.nonce, at |-> d.at]}
  ELSE Retained(d.at)

\* A replayed nonce is one more reason, and turns every verdict into a denial.
FinalOutcome(d) ==
  IF d.verified /\ ~Reserves(d.p.nonce, d.at) THEN "deny" ELSE d.verdict

\* The signed request carries its own window; the unsigned one has none.
ExecutionRequest(d, id) ==
  [id |-> id, p |-> d.p, version |-> d.o.version, boot |-> d.o.boot,
   issuedAt |-> now, expiresAt |-> now + RequestTtl, signed |-> config.auth]

\* The rest of gateway_action: reserve, conclude, and send a permit on.
FinishDecide(h) ==
  LET d == handler[h]
      outcome == FinalOutcome(d)
      id == Cardinality(granted) + 1 IN
  /\ d # Idle
  /\ handler' = [handler EXCEPT ![h] = Idle]
  /\ seen' = SeenAfter(d)
  /\ granted' = IF outcome = "deny" THEN granted
                ELSE granted \cup {[id |-> id, p |-> d.p, at |-> d.at, outcome |-> outcome]}
  /\ net' = IF outcome = "permit" THEN net \cup {ExecutionRequest(d, id)} ELSE net
  /\ UNCHANGED <<now, config, plant, cache, issued, revoked, otNonces, ledger,
                 calls, applied, submitted, events>>

\* DelegationValidator.revoke.
Revoke(g) ==
  /\ revoked' = revoked \cup {g}
  /\ revoked' # revoked
  /\ events < MaxEvents
  /\ events' = events + 1
  /\ UNCHANGED <<now, config, plant, cache, issued, seen, handler, net, otNonces,
                 ledger, calls, granted, applied, submitted>>

\* The gateway keeps everything in memory: a restart builds a new lab.
GatewayRestart ==
  /\ events < MaxEvents
  /\ events' = events + 1
  /\ cache' = <<>>
  /\ seen' = {}
  /\ revoked' = {}
  /\ handler' = [h \in Handlers |-> Idle]
  /\ UNCHANGED <<now, config, plant, issued, net, otNonces, ledger, calls,
                 granted, applied, submitted>>

---------------------------------------------------------------------------
(* OT adapter and simulation *)

NonceSeen(m) == m.id \in (IF config.durable THEN ledger.nonces ELSE otNonces)

\* FAULTY: the message is admitted without reserving its nonce first.
OtAdmitUnreserved(m) ==
  /\ m \in net
  /\ m.signed = config.auth
  /\ m.signed => /\ config.durable => ledger.readable
                 /\ ~NonceSeen(m)
                 /\ m.issuedAt <= now /\ now < m.expiresAt
  /\ calls' = calls \cup {m}
  /\ UNCHANGED <<now, config, plant, cache, issued, seen, revoked, handler, net,
                 otNonces, ledger, granted, applied, submitted, events>>

\* ot_execute up to the call of the simulation, for any request that was ever
\* sent and as often as it is delivered.
OtAdmit(m) ==
  /\ m \in net
  /\ m.signed = config.auth
  /\ m.signed => /\ config.durable => ledger.readable
                 /\ ~NonceSeen(m)
                 /\ m.issuedAt <= now /\ now < m.expiresAt
  /\ otNonces' = IF m.signed /\ ~config.durable THEN otNonces \cup {m.id} ELSE otNonces
  /\ ledger' = IF m.signed /\ config.durable
                 THEN [ledger EXCEPT !.nonces = @ \cup {m.id}] ELSE ledger
  /\ calls' = calls \cup {m}
  /\ UNCHANGED <<now, config, plant, cache, issued, seen, revoked, handler, net,
                 granted, applied, submitted, events>>

\* FAULTY: the comparison of versions is left out.
AlwaysCurrent(m) == TRUE

\* The adapter of the simulation compares the version the decision was made
\* about with the version the plant has now.
StillCurrent(m) == m.version = plant.state.version

AppliedKey(m) == [id |-> m.id, boot |-> plant.boot]

AppliedTimes(k) == IF k \in DOMAIN applied THEN applied[k] ELSE 0

\* MutableSurrogatePlant.execute for a call that arrives, however late.
PlantApply(m) ==
  /\ m \in calls
  /\ calls' = calls \ {m}
  /\ IF StillCurrent(m)
       THEN /\ plant' = [plant EXCEPT !.state = Transition(m.p, @),
                                      !.mixed = @ \/ m.boot # plant.boot]
            /\ applied' = [k \in DOMAIN applied \cup {AppliedKey(m)} |->
                             AppliedTimes(k) + (IF k = AppliedKey(m) THEN 1 ELSE 0)]
       ELSE UNCHANGED <<plant, applied>>
  /\ UNCHANGED <<now, config, cache, issued, seen, revoked, handler, net,
                 otNonces, ledger, granted, submitted, events>>

\* The adapter process is replaced: nonces kept in memory are gone.
OtRestart ==
  /\ events < MaxEvents
  /\ events' = events + 1
  /\ otNonces' = {}
  /\ UNCHANGED <<now, config, plant, cache, issued, seen, revoked, handler, net,
                 ledger, calls, granted, applied, submitted>>

\* The durable ledger file is damaged while the adapter is down; from then on
\* the adapter cannot load it.
LedgerFault ==
  /\ config.durable /\ ledger.readable
  /\ events < MaxEvents
  /\ events' = events + 1
  /\ ledger' = [ledger EXCEPT !.readable = FALSE]
  /\ UNCHANGED <<now, config, plant, cache, issued, seen, revoked, handler, net,
                 otNonces, calls, granted, applied, submitted>>

\* The simulation restarts from the nominal state, at its first version.
PlantRestart ==
  /\ events < MaxEvents
  /\ events' = events + 1
  /\ plant' = [state |-> Nominal, boot |-> plant.boot + 1, mixed |-> FALSE]
  /\ UNCHANGED <<now, config, cache, issued, seen, revoked, handler, net,
                 otNonces, ledger, calls, granted, applied, submitted>>

Next ==
  \/ Tick
  \/ Observe
  \/ \E h \in Handlers, r \in Requests, answer \in Answers :
       \E o \in Range(cache) : BeginDecide(h, r, o, answer)
  \/ \E h \in Handlers : FinishDecide(h)
  \/ \E g \in Revocable : Revoke(g)
  \/ GatewayRestart
  \/ \E m \in net : OtAdmit(m)
  \/ \E m \in calls : PlantApply(m)
  \/ OtRestart
  \/ LedgerFault
  \/ PlantRestart

Spec == Init /\ [][Next]_vars

---------------------------------------------------------------------------
(* Properties *)

\* Two decisions on the same plant state are taken concurrently and both may
\* permit; permits also arrive late and more than once (gateway_action,
\* ot_execute, SimulatedCommandAdapter.execute).  Still the plant is within
\* the limits the safety kernel knows, as long as every applied permit was
\* decided about this life of the simulation: after a restart the versions
\* start again, and a permit can meet another state with its version.
PlantStaysWithinLimits == ~plant.mixed => LimitReasons(plant.state) = {}

\* One nonce about one observation gets at most one answer that is not a
\* denial: neither the resubmission after an approval, nor a second handler
\* that evaluates at the same time, nor a retry after the ledger forgot the
\* nonce or the gateway restarted (AegisGateway.decide, ReplayLedger.reserve).
OneAnswerPerNonce ==
  \A d, e \in granted :
    d.p.nonce = e.p.nonce /\ d.p.observation = e.p.observation => d = e

\* A permit lies within every grant of its chain, not only within the leaf:
\* resource, operation, risk and time are never wider than what any ancestor
\* gave away (DelegationValidator.validate).
PermitWithinWholeChain ==
  \A d \in granted : \A i \in DOMAIN d.p.chain :
    LET g == GrantAt(d.p.chain, i) IN
      /\ g.sound
      /\ d.p.resource \in g.resources
      /\ d.p.operation \in g.operations
      /\ d.p.risk <= g.risk
      /\ g.notBefore <= d.at /\ d.at <= g.expiresAt

\* A permit changes one life of the plant at most once, whatever is delivered
\* again and whichever process restarted; with the durable ledger it is
\* applied at most once in all lives together.
AppliedAtMostOnce ==
  /\ \A k \in DOMAIN applied : applied[k] = 1
  /\ config.durable => \A k, l \in DOMAIN applied : k.id = l.id => k = l
==============================================================================
