# Aegis-OT: TLA+ models and proofs

Aegis-OT puts a deterministic assurance gateway between AI agents and an
operational-technology plant. This project models the system around one
question: once an agent has asked for something, is what every part of the
system says about it true, whatever is late, lost, repeated, killed or rolled
back? It starts from the part where that is hardest, the durable coordination of
a physical effect between gateway, OT coordinator and plant (milestone M4i), and
goes on to the decision before it, the files and identities below it, the
degraded mode beside it, and the commands that build, deploy and test it.
The repository's own `formal/AegisAuthorization.tla` models the authorisation
decision only; `AuthorizedExecution` here covers what happens around it.

Paths below are relative to `src/aegis_ot/` of the repository unless they start
with `scripts/`, `docs/` or `src/aegis_ot_independent/`.

## 1. Inventory

| component | state it keeps | operations | hard behaviour |
|---|---|---|---|
| Gateway coordination port (`segmented_capability_transport.py`, `coordination_journal.py`) | journal of effects and attempts, pinned identities, the call in progress | execute, prepare, commit, reconcile | lost answers, crash between intent and send, failed journal write, attempt limit, clocks that differ |
| OT effect coordinator (`segmented_capability_runtime.py`) | journal, live commit marker, pinned plant | prepare_effect, commit_effect, query_effect, health | delayed and repeated requests, restart with a pending effect, clock read before the lock |
| Recovery validator (`coordination_recovery.py`) | none | validate | order and gaps in the applied chain |
| Checkpointed plant (`plant_checkpoint.py`, `pandapower_plant.py`) | checkpoint, boot epoch, call nonces | apply (compare-and-swap), capture, restart | checkpoint written but failure reported, late call |
| Virtual PLC (`capability_plc.py`, `semantic_replay.py`) | replay ledger | execute | dispatch whose answer is lost, crash after reservation |
| Durable state files (`coordination_journal.py`, `plant_checkpoint.py`, `m4i_coordination_init.py`) | file, temporary file, lock file | initialise, load, replace | kill between two system calls, power loss before a sync |
| External anchor (`coordination_anchor.py`) | anchor chain, fence token, floor of each site | readback, acquire_fence, compare_and_advance | superseded fence, stale readback, rollback of either side |
| Authorization gateway (`gateway.py`, `delegation.py`, `policy.py`, `safety.py`, `replay.py`) | observation cache, nonces, revocations | observe, decide, revoke | two decisions on one state, retention, attenuation along a chain |
| Segmented runtime (`segmented_runtime.py`, `segmented_capability_*.py`) | boot epochs, ledgers, caches of five services | execute, observe, apply, restart | calls given up and served later, services replaced one by one |
| Replay ledgers (`transport_replay.py`, `workload_replay.py`) | reservations, lifetime writer lock | initialise, reserve | capacity, failed write, two writers |
| Closed-loop controller and observer (`capability_control.py`, `capability_observer.py`, `capability_ipc.py`) | observation counters, permits, pipes | capture, decide, permit, dispatch, post-observe | stale observation, abandoned request served later, PLC replaced |
| Workload trust (`workload_identity.py`, `workload_trust_state.py`, `m4g_identity_*.py`) | trust bundle, credentials, highest sequence in memory and on disk | rotate, revoke, verify | bundle read before the lock, bootstrap race, restored bundle |
| SPIRE identity and mutual TLS (`spire_mtls.py`, `spire_workload_identity.py`) | served identity, refresh thread | fetch, refresh, handshake | identity withdrawn while it is served |
| Degraded gate (`m5_degraded*.py`) | publisher state, publication, floor, active lease | publish, check, evaluate, reverse | crash between state and output, stale admission, old lease put back |
| Provisioning commands (`scripts/prepare_m5_degraded_*.py`) | packages under names | create, verify, publish | directory moved between verification and use |
| Physical control over Modbus (`physical_control.py`, `modbus_device.py`) | mailbox registers, permit nonces | capture, execute, read back, release | exchange lost on either side, two clients |
| M4j build and deployment (`scripts/*m4j*.py`) | bundles, plans, hosts, join tokens, attempt files | build, prepare, deploy, probe, accept, clean up | everything shared moves under the command; kills; orphaned helpers |
| Live campaigns (`scripts/run_m4i_experiment.py`, `run_m4g*_experiment.py`) | Compose project, evidence file | run, gate, clean up, retain | failing command, kill, two campaigns |
| Independent evaluator (`src/aegis_ot_independent/`) | none | evaluate | search over any topology, refusal order |
| Evidence packages (`m4b_experiment.py`, `m4b_package.py`) | anchor, package directory | run, sign, publish, verify | two writers, edited checkout, changes on disk |
| Fleet, M3/M4c harnesses, M5 mission recovery, traceability, release security, demo | no protocol state | | not modelled (section 6) |

Interaction: the agent calls the gateway (`execute`, `reconcile_effect`). The
gateway decides, with an observation it has cached, and calls the coordinator
over HTTP (`/v1/effects/prepare`, `commit`, `query`), each request and answer
signed by a workload credential that the trust sequence or SPIRE vouches for.
The coordinator runs the PLC inside `commit_effect`, under its lock; the PLC
calls the plant. Coordinator and gateway pin the boot epochs of the services
they talk to when they start. Before any of this the degraded gate may refuse or
restrict the action. The deployment pipeline puts the services on their hosts,
and campaigns and packages retain what was observed of them. `PROJECT.json`
lists every component with its status and every hazard with the line at which it
bites.

What makes each part correct:

* coordination: an effect changes the plant at most once; a commit is sent at
  most once; what a journal says definitely is true of the plant; the journals
  agree; recovery never meets a plant state its journal cannot explain; what was
  retained stays verifiable; an open effect is settled or visibly blocked;
* anchor: no anchored change is lost, and a store overtaken by a fence stays out;
* authorization: the plant stays within its limits although decisions are late
  and concurrent; a nonce gets one answer; a permit is within its whole chain;
* the paths without coordination (segmented, closed loop, Modbus): what was
  recorded of an action stays true, also when what was given up is served later;
* trust: admission never goes back, a revocation stays in force, a handshake
  shows a current identity;
* degraded mode: the publisher can go on after a kill, or it has stopped for good
  in one of two known ways; a reversed lease stays closed; packages hold what was
  verified;
* pipeline and evidence: no way in is left behind, and what is signed or
  retained is true of what it names.

## 2. Modules

| module | models |
|---|---|
| `CoordinationBase` | effects, plant states, messages, how a durable write may end, the fault budget, the recovery verdict with sets |
| `CheckpointedPlant`, `OtCoordinator`, `GatewayPort` | the three services of the coordinated path |
| `RecoveryOrder` | the recovery verdict as the sorted walk of the code |
| `EffectCoordination` | the services composed; properties, inductive invariant, fairness, refinement mapping |
| `EffectOutcome` | the abstract specification: what coordination promises the agent |
| `JournalRecord` | the signed messages with windows and credentials, and the journal record with its validator |
| `TimedExchange` | one effect between two services whose clocks differ, over `JournalRecord` |
| `CoordinationAnchor` | the anchoring authority and the sites admitted by it |
| `DurableState` | the files under the services: temporary file, replace, sync, lock, kill, power loss |
| `TrustSequence` | administration of bundle and credentials, and verifiers that share a directory |
| `SpireMtls` | a service's identity, its refresher, and both ends of an exchange |
| `DispatchReplay` | the transport (or workload) ledger and the semantic ledger in line |
| `SegmentedLoop` | the five services of the uncoordinated segmented runtime |
| `AuthorizedExecution` | observation, delegation, policy, safety, nonce, permit, adapter and surrogate plant |
| `CapabilityPlc`, `ClosedLoop` | PLC, plant and observer processes on pipes, and the controller over them |
| `PhysicalControl` | the Modbus mailbox, the device, the wire client and the M3 controller |
| `DegradedPublication`, `DegradedGate` | the publisher with its health check, and both gates |
| `ProvisionedPackages` | the commands that provision the degraded mode |
| `SourceCheckout` | the Git checkout and what each command validates of a commit |
| `BundleBuilder`, `JoinToken`, `WorkloadDeployment`, `DeploymentPipeline` | build, agent bootstrap, deployment and probe, and the operator's pipeline with the acceptance campaign |
| `LiveCampaign` | campaigns from first check to retained evidence |
| `IndependentEvaluator` | the evaluator |
| `EvidencePackage` | writers and the verifier of evidence packages |
| `*Proofs` | theorems about the module named and about those that share its subject (section 5) |
| `MC*` | instances for TLC. A run that is about several parts has a variable `about`, or lets one part move only while the others have not begun: a behaviour is about one of them, so the state spaces add up and do not multiply |

An operator marked "Faulty variant" is no part of a specification: it is the
faulty form of a definition used by a mutant (section 3).

### Coordination

* `gwState`, `gwCommit`, `gwQueries` are a gateway journal record: its
  `CoordinationState`, the status of its commit attempt, the number of its query
  attempts. `otState`, `otAnswers` are the coordinator's record and its retained
  query/outcome pairs; `reserved` the PLC's replay ledger; `marker` is
  `_live_commit_marker`; `otWork` is the commit that `commit_effect` is
  executing while it holds `_coordination_lock`; `gwCall` the HTTP call of the
  gateway entry that holds `_transaction_lock`.
* `plant` is the durable checkpoint. The runtime refuses calls while the state
  in memory differs from it, so one variable serves for both.
* `pre[e]` and `boot[e]` are what the permit of `e` binds: the observed plant
  state and the OT boot epoch. A digest is represented by the command that
  produced the state, so two effects with the same command and pre-state have
  the same post-state, as in the code.
* `applications` and `transmissions` are history variables.
* `msgs` only grows. A handler may run on any message in it, so requests are
  delayed, reordered, delivered twice or never.

Each write of a journal or checkpoint ends `ok`; `refused` before the file is
touched (capacity, validation); `lost`, an error before `os.replace`; or `kept`,
an error after it. After the latter two the store refuses every call, so the
service counts as down until it is restarted, and then reads the old or the new
file. `DurableState` justifies this from the system calls.

A handler is one action where it is atomic for the other services. `commit_effect`
is three: acceptance (`OtAccept`), dispatch (`PlcDispatch`) and conclusion
(`PlcConclude`, `PlcRefuse`, `PlcFail`), because the plant call lies in between.
The gateway's `execute` is split at its HTTP calls. `_resume` of a retained
receipt is modelled (`GwCommit` from an idle gateway), although the gateway
runtime itself refuses a retained action. Observation and permit issue are one
step with the retained prepare intent (`Execute`): nothing is open at the gateway
then, and only an open effect can change the plant, which
`ImplementsEffectOutcome` itself states.

`TimedExchange` follows one effect with the clocks. The coordinator reads its
clock before it waits for its lock, so it may work with times that others have
overtaken; what it retains carries the later of two times. A commit issued
before `prepared_at` raises and leaves the effect armed; closing is refused
while the gateway's clock is behind; an answer to an abandoned call is not kept.
Every record a method builds, at either side, goes through `GwStores` or
`OtStores`: the validator sees it before it is written, and `illFormed` remembers
one that was refused although its times were in order. Clocks only advance.

`CoordinationAnchor` has the authority's `chain` and `token`, and per site the
local projection (`store`), the `floor` it keeps, the readback a call holds and
snapshots it may be put back to. The adapter that calls these parts is not in
the repository; its order is the one of `scripts/run_m4i_anchor_campaign.py`.
Admission is modelled for `prepare_effect`. `commit_effect` asks again, of the
same adapter; that question can only keep an effect from being committed, so
leaving it out allows more behaviours than the code and the properties hold for
those too.

In `DurableState` the content of a file is the number of writes it has seen;
modes and ownership are `provisioned`; `chown` counts as durable; a restart whose
`restore_state` does not reproduce the retained state fails; a file changed
from outside under a running service is not modelled. The model shows one thing
the code accepts: a service restarted after a kill between replace and directory
sync loads, and serves, a state that a later power loss undoes, since loading
does not sync. Nobody was told of that write, and the recovery validator blocks.

### Authorization

A request is decided at one instant and reserves its nonce at a later one
(`BeginDecide`, `FinishDecide`), at most `MaxStall` apart, while others are
served. `DelegationValidator` compares neighbours of a chain; policy, OPA answer
and safety kernel each contribute reasons; the safety kernel's are the served
load, the critical load and the voltage, which an action may raise above its
limit (`peak`, `MaxVolt`) as well as lower. `Tick`, `Revoke`, the restarts of the
three processes and a fault of the durable ledger interleave freely. Lives of
the plant are told apart by `boot`: the surrogate starts again from `Nominal`.

### Trust sequence and mutual TLS

A bundle is its sequence number, an identity and its revocations with their
times. `rotate_credential` replaces the bundle first and the credential second,
and may be cut between the two. `RestoreBundle` is the one step outside the code:
an operator puts an earlier bundle file back. `expected_sequence` is `pinned`;
without it administration may publish on a restored bundle, which the history
variable `forked` records. A verification is the sequence of steps in
`ThreadStep`: the file is read with no lock held, then come the in-process locks,
the layout of the directory, creation of the lock file, `flock` with its timeout,
the order against the checkpoint, temporary file, replace, sync, read-back, and
the verdict with the file lock still held. A failed read or write poisons the
instance until its process starts again.

`SpireMtls` follows one exchange per caller. The agent and its authority are
external: they rotate, withdraw, offer a second identity and replace their key.
No time passes between the service's first fetch and its start; temporary key
files are not modelled.

### Dispatch without coordination

`DispatchReplay`: an envelope stands for its digest, which identifiers permits
share is `MarksOf`, a process serves while it holds both writer locks, and a
write ends `ok`, `failed` before `os.replace` or `kept` after it; unlike the
journals, these ledgers go on serving after a failed write and read again.

`SegmentedLoop`: each service handles one call at a time; only consequential
exchanges are asynchronous, and one that was given up may be served until its
deadline; a plant without coordination restarts from the baseline; the gateway
learns of the plant through the OT adapter. A credential's verdict is a free
choice at each resolve. `observation_diverged` is not reachable in it.

`ClosedLoop`: a request that a `JsonPipeClient` gave up on stays in the pipe and
is served later, and the client closes for good after a timeout. The post
snapshot's source is chosen at the start. Crashes of the whole stack or of the
plant, capability probes and role tables are not modelled.

`PhysicalControl`: an exchange is served at once or never. RELEASE before a
commit is refused by the device, so a lost BEGIN or payload exchange leaves the
mailbox busy for good; the properties hold nevertheless. The issuer's check of
evidence time is a free choice when only the observation changed.

### Degraded mode

One publisher, restarted after every kill (`restart: unless-stopped` in the
Compose file), with its health check as a second process that reconciles the same
state file. Two things end the publisher for good, as in the code (`Wedged`): a
temporary file that a killed process left in the state directory, which then no
longer lists as `mutate` wants it, and a power loss that takes back an output the
state already counts as published. A request reads its inputs first and takes the
state lock later; what was admitted waits for the transaction lock. The consumer's
state file is written in one step. A status may come from another authority with
the same condition, since the code compares conditions only. `ProvisionedPackages`
has both generations of the command, with packages moved between any two reads.

### Build, deployment and evidence

`SourceCheckout` fixes which parts of a commit each command validates: the
builder the topology only, acceptance topology and deployment, deployment
everything. All commits share one builder helper. `JoinToken` models the attempt
file as an inode, so a helper can hold a lock on a file no path leads to. One
operator runs one command at a time, but a remote helper can be orphaned; a
replaced daemon stays replaced; an attestation accepted before the revocation
ends within `StableReads` reads, and an iptables insertion that timed out lands
within `PartitionReads`. Plan-only and apply-without-probe do fewer steps and
are not separate. The plays of `infra/ansible` are part of the model: the
agent's role deletes a token file that was left and starts the agent from what
it retained before it asks for its health; a new agent is bootstrapped with one
token; the `always` part stops the agent and deletes the token file, and goes on
when either fails; a token in escrow is dealt with when the agent turns out
healthy; and the audited agent is restarted without its token and has to become
healthy again. systemd may restart a failing agent at any time, with the token
file if it is still there. The model shows prices the code pays: an empty
attempt file wedges the role; a crash between issue and escrow leaves an
unescrowed token and alias; a signed probe record stays when the last source
check fails; a killed campaign leaves its reserved output and its rule. SPIRE,
Docker, systemd and iptables are external. The gates of the probe look at what
the agent saw and not at the hosts' firewall rules.

`LiveCampaign`: one phase is one action; the deployed services are reduced to at
most one defect, and campaigns share the gateway's port and the evidence's name.
A service that is slow to start counts as failed closed, and a probe whose
container never ran shows nothing: such a defect is `masked`. The checkout is
edited and put back at any time (`EditCheckout`, `RestoreCheckout`): a campaign
looks at it before and after, and the label of its images is a build argument, so
one whose tree was edited, built and restored (`restored`) is not noticed. The
M4g and M4i campaigns write a file, which a refused or failing write unlinks; the
SPIRE campaign renames a directory, which `unlink` and `os.replace` of a file
leave alone. A killed campaign leaves its key directory under a random name
(`stray`), and, killed after `Up`, its project, for which the next one refuses.

`EvidencePackage`: a failing `git status` reads as clean; an edit of the sources
reverted before the end goes unnoticed; the verifier never compares the two
registrations a replay names; a crash between anchor and directory leaves the
anchor, and later writers refuse; two writers can leave one's package with the
other's anchor, which is refused. A run whose summary lacks reasons or counters
fails its own verification. The evaluator's digest is of the sources as they are
when it reports; the modules it has imported by then are compared with nothing,
and neither are the kept laboratory sources, schemas and the fixture.

`IndependentEvaluator`: the code takes the bus that waited longest, the model any
bus of the worklist. Every load demands one unit and a tolerance is equality.

## 3. Runs

Deadlock is not checked in any run: every model has budgets (faults, publications,
attempts) after which nothing is left to do, and several parts stop for good by
design (a semantic ledger over its limit, a wedged trust directory).

| run | question | instance |
|---|---|---|
| `coordination_safety` | Do the journals tell the truth, whatever fails? | 2 effects with one command, 2 faults, 3 attempts; 300,000 states |
| `coordination_liveness` | Is every effect settled once faults stop? | 2 effects, 1 fault, 4 attempts; 106,000 states |
| `recovery_order` | Is the set form the verdict of the sorted walk; does what was retained stay verifiable; does the anchor lose nothing? | all journals of 3 records over 2 commands; one timed effect, clocks to 3, drift 1, 1 disturbance; 2 sites, 2 fences, 2 changes, 1 rollback; 3.3 million states |
| `trust_sequence` | Can a verifier be led back to an older bundle, or a revocation be undone? | 3 threads in 2 verifiers, 2 publications, 1 fault; 3.4 million states |
| `dispatch_replay` | Is the plant called once for a permit when only ledgers protect it, and is what the segmented gateway records true? | 4 handlers in 2 processes, 4 envelopes, 3 permits; 3 actions (one harmful), 2 executions, 3 observations, 1 restart; 1.8 million states |
| `authorized_execution` | Do late and concurrent decisions keep the plant within limits, and do the files keep what was answered? | 2 handlers, 4 requests, 3 grants, time to 4; 2 runtimes, 3 writes, 3 upsets; 1.5 million states |
| `DegradedGate` | Is the publisher stopped only in the two known ways, does a reversed lease stay closed, do packages hold? | 2 requests, 2 leases, three budgets; 4 places, 2 jobs, 2 moves; 2.1 million states |
| `experiments` | Are recorded dispositions, retained campaigns, evaluations and accepted packages true? | 3 requests, 2 campaigns, a ring of three lines with a spur, 2 writers; 4.9 million states |
| `PhysicalControl` | Is what a controller records true of the Modbus device? | 2 clients, 3 proposals, 1 lost exchange |
| `DeploymentPipeline` | Does bootstrap leave a way in, is signed evidence true, are handshakes current? | 2 commits, 2 roles, 2 attempts, 2 deployments, 2 disturbances; 2 callers, clock to 4; from the first state and, for short traces, from the one an undisturbed deployment ends in; 5.3 million states |
| `PhysicalCommit` (violation) | Does a transport failure mean no effect, as the ADR says? | as `PhysicalControl` |
| `retained_evidence` (violation) | Does reported evidence remain, as the README says? | 2 M4i campaigns, or one SPIRE and one M4g; no fault needed |

### Properties

`coordination_safety`: `Inv`, the inductive invariant of section 5 (it contains
`TypeOK`); `AppliedAtMostOnce`, `CommitSentAtMostOnce`, `ClaimsAreTrue`,
`JournalsAgree`; `RecoveryExplained`: the plant is never found in a state that
the coordinator's journal cannot explain. The one way the journal itself becomes
unusable is an *orphan*: an effect the gateway closed, whose late prepare request
the coordinator armed after the plant had moved on. `prepare_effect` checks the
alignment of the journal before the record exists and does not compare the new
effect's own pre-state with the plant, so this happens in the model as it would
in the code; `BlockedForGood`: an orphan, or an effect the coordinator holds as
unknown, is never resolved by anything the services do, and no other effect
reaches the plant meanwhile. This is the fail-closed behaviour the code chooses;
the property records its price; `ImplementsEffectOutcome`: the refinement.

`coordination_liveness`: `EventuallySettled` (fairness below).

`recovery_order`: `VerdictsAgree` (sorted walk and set form), `UsableMeansAccounted`
(a usable verdict accounts for every version of the plant), `RetainedStaysVerifiable`,
`BuiltRecordsAreLegal` (no journal method of either side builds a record the
validator refuses, unless its times run backwards; and what was refused for its
times has left nothing behind: each receipt and outcome the gateway retains is in
the coordinator's record),
`AnchorsFormOneLine`, `OutdatedNeverAnchored`.

`trust_sequence`: `AdmissionInOrder`, `VerdictUnderCheckpoint`,
`RevocationIsPermanent` (unless administration itself published on a restored
bundle), `WedgedForGood`: a process that dies with its temporary file, or between
the lock file and the first checkpoint, leaves a directory every verifier refuses
from then on, and nothing but a fault does that.

`dispatch_replay`: `NoncePassesOnce`; `PermitDispatchedOnce`; `SemanticExhaustion`:
the semantic ledger does not refuse the reservation that takes it over 4 MiB, so
that permit is dispatched, and from then on no permit is granted and the process
cannot be restarted; `SegmentedClaimsAreTrue` for the services around it.

`authorized_execution`: `PlantStaysWithinLimits`, `OneAnswerPerNonce`,
`PermitWithinWholeChain`, and `AnsweredSurvives` of `DurableState`. The limits are
kept within one life of the simulation: after a restart versions begin again, a
late permit may meet a state it was not judged on (`mixed`), and the property
claims nothing then.

`DegradedGate`: `PublisherRecovers`: the publisher becomes unable to publish
only in two kinds of step, a kill or power loss while the state file is being
written that leaves the temporary file, and a power loss that takes back a
publication committed before its directory was synced; from then on it is unable
for good, and no number is reserved and nothing signed.
`ReversedLeaseStaysClosed`, `FloorNeverEquivocates`, `PackagesHold`.

`experiments`: `DispositionStaysTrue`, `ObservationSettlesEffects`,
`EvidenceIsEarned`, `AgreementIsReachability`, `AcceptedMeansRecorded`.
`EvidenceIsEarned` has two exceptions that the code has too: images of a tree that
was edited and put back, and a `masked` defect.

`PhysicalControl`: `RecordedOutcomeIsReal`. `DeploymentPipeline`:
`BootstrapLeavesNoWayIn`, `EvidenceIsTrue`, `HandshakesAreCurrent`, whose bound
`RefreshPeriod + 2 * FetchTimeout` is tight.

The two violations are findings in `PROJECT.json`. `commit_sent` is set only
after `write_register` has returned, so a commit whose answer was lost is
reported as a transport failure (`modbus_device.py:486` against
`docs/adr/0003-steady-state-modbus-process-boundary.md:168`). And when two
campaigns that write a file have the same output name, the handler of the second
one's refused write deletes the evidence it refused to overwrite
(`scripts/run_m4i_experiment.py:2311`).

Each property has a mutant in `PROJECT.json`: a plausible fault in one mapped
definition, under which TLC finds the property violated.

### Bounds

*Coordination.* Two effects are what it takes for one to be blocked, overtaken or
confused with another; giving both the same command makes their post-states
coincide, the worst case for recovery by comparison of states. Two faults reach,
for instance, a gateway crash after a lost answer, or a checkpoint that was kept
while the coordinator failed too. Three attempts are prepare, commit and one
query, so the limit is met. *Timed exchange.* A time to live of 1 with a drift
of 1 makes a message late in transit and early on arrival; a permit of 3 outlives
the first coordinator credential, which expires at 2; two queries are kept.
*Anchor.* Two sites compete for two fences; two changes make a fork possible
after one rollback. *Trust.* Two publications are what it takes for a revocation
to be repeated and for a bundle to be two behind; two threads share a verifier's
memory and the third meets them only through files. *Ledgers.* A permit in two
envelopes, two envelopes with one nonce, two permits with one identifier in
common, and limits that both ledgers reach. *Segmented and closed loop.* Two
safe actions that compete and a harmful one; a cache of two, so that an
observation is evicted; one restart of any service. *Authorization.* Two requests
that are safe alone and not together, one resubmitted with its approval under the
same nonce, one that names a resource its parent grant does not have. *Files.* A
gateway journal and a plant checkpoint, three upsets: a kill, a failing call and a
power loss in one behaviour. *Degraded mode.* The older of two leases is still
inside its window when the newer one is used. *Pipeline.* One commit that can be
deployed, one with a wrong topology, one foreign bundle; two attempts per role so
that an orphaned helper meets a new attempt. *Campaigns.* Two of one kind, and
two of different kinds, with every defect some campaign is about. *Evaluator.*
Every subset of closed lines, sources and loads of the topology, one deviation
per request. The proofs depend on none of these.

### Fairness

`LiveSpec` has weak fairness of: ending a gateway call (every HTTP call has a
timeout); finishing a handler the coordinator has entered; restarting a service
that is down, or pinned to a plant boot that is gone (the deployment restarts
containers); and reconciliation of an open effect by the agent. The agent asks
only while the coordinator is healthy: every failed query uses one of the
record's attempts (128 in the code), and an agent that keeps asking an
unavailable coordinator uses them up, after which the record can no longer be
settled. The code has no back-off that would prevent this, so it is an assumption
on the agent. `EventuallySettled` then says that every effect the gateway began
is closed, or unknown in both journals, or that the orphan case has made recovery
unavailable. The number of attempts leaves one query per fault and one to spare.

## 4. The abstract specification

`EffectOutcome` knows a claim (what the gateway says), a fate (what happened) and
the plant's version. One effect is open at a time; while it is open it may be
taken once or refused for good; it is closed with a claim that is true, or
abandoned, and what is abandoned can no longer be taken. The mapping reads the
claim off the gateway journal, and the fate off the history of the plant and the
two journals (`ClaimOf`, `FateOf`).

## 5. Proofs

Every theorem holds for all values of the constants that satisfy the assumptions
of its module; no bound of section 3 is used.

| module | theorem | states |
|---|---|---|
| `EffectCoordinationProofs` | `TypeCorrect`, `InvHolds` | type correctness and the inductive invariant |
| | `AppliedOnce`, `CommittedOnce`, `Agreement`, `Truthful` | the four safety invariants |
| | `Implements` | `Spec => ImplementsEffectOutcome` |
| | `RecoveryInvariant`, `RecoveryIsExplained` | the applied effects form a chain; `RecoveryExplained` |
| | `BlockedStaysBlocked` | `BlockedForGood` |
| `RecoveryOrderProofs` | `WalkGivesVerdict`, `UsableJournalsAccount` | `VerdictsAgree` and `UsableMeansAccounted`, for every finite journal and every plant state |
| | `RetainedVerifies` | `RetainedStaysVerifiable` of the timed exchange |
| | `AnchorInvariant`, `OneLine`, `OutdatedStaysOut` | the two properties of the anchor |
| `AuthorizedExecutionProofs` | `AuthorizationInvariant`, `PlantWithinLimits`, `OneAnswer`, `PermitsWithinChain` | the three properties of authorization |
| | `AppliedOnce` | a permit acts at most once, over deliveries and restarts (`AppliedAtMostOnce`, which no run lists) |
| | `DurableInvariant`, `AnswersSurvive` | `AnsweredSurvives` of the durable files |
| `DeployedControlProofs` | `PhysicalInvariant`, `OutcomesAreReal` | `RecordedOutcomeIsReal` of control over Modbus |
| | `PipelineInvariant`, `NoWayIn`, `ConclusionsAreTrue` | `BootstrapLeavesNoWayIn`, `EvidenceIsTrue` of the deployment pipeline |
| `TrustSequenceProofs` | `SequenceInvariant`, `VerdictsUnderCheckpoint`, `AdmissionOrder`, `PermanentRevocation`, `WedgeIsPermanent` | the four properties of the trust sequence |
| | `MtlsInvariant`, `CurrentHandshakes` | `HandshakesAreCurrent` of mutual TLS |
| `DispatchReplayProofs` | `ReplayInvariant`, `NonceOnce`, `DispatchOnce`, `TransportReadable`, `SemanticLedgerExhausted` | the properties of the ledgers, and that the transport ledger stays readable |
| | `LoopInvariant`, `SegmentedClaims` | `SegmentedClaimsAreTrue` of the segmented runtime |
| `DegradedGateProofs` | `DegradedInvariant`, `PublisherAlwaysRecovers` | `PublisherRecovers` |
| | `FloorUnambiguous`, `ReversalIsFinal` | `FloorNeverEquivocates`, `ReversedLeaseStaysClosed` |
| `ExperimentsProofs` | `ClosedLoopInvariant`, `DispositionsStayTrue`, `ObservationsSettle` | `DispositionStaysTrue`, `ObservationSettlesEffects` of the closed loop |
| | `SearchDecidesReachability` | `AgreementIsReachability` of the evaluator |
| | `AcceptedPackages` | `AcceptedMeansRecorded` of evidence packages |
| | `CampaignInvariant`, `EvidenceEarned` | `EvidenceIsEarned` of the live campaigns |

Assumptions. Constants are well formed (`EffectAssumption`, `BoundAssumption`,
`AdminAssumption`, `SequenceAssumption`, `ReplayAssumption`, `AnchorAssumption`,
`GrantsAssumption`, `RequestsAssumption`, `AnswersAssumption`, `TopologyAssumption`,
`MtlsAssumption`, `LoopAssumption`, `EvidenceAssumption`, `JournalAssumption`,
`TimedAssumption`, `TokenAssumption`, `AcceptanceAssumption`, `BuilderAssumption`,
`CampaignAssumption`, `DeploymentAssumption`: every role is somewhere in the
order). Some say something about the code: `NominalAssumption`, the surrogate
plant starts within the safety kernel's limits;
`RetentionCoversDecisions`, a nonce is remembered longer than an observation may
age plus the longest stall of a decision; `DurableAssumption`, the provisioning
command is not one of the runtimes; `LeasesAssumption`, the leases are those the
lease's own validator admits; `ForeignAssumption`, what others publish under the
trusted key and the reviewed profile was built by the same builder;
`PackageAssumption`, what can be wrong with a
session or slip while it is packaged is in the lists `KnownShortcomings` and
`KnownSlips`, which say what each of them does to the files. The two theorems
about recovery have a hypothesis in place of a reachable state: `JournalType`,
any plant states, coordination states and pre-states, finitely many records.

**Coordination.** None of the safety invariants is inductive: that an effect is
applied only once depends on what every message in flight may still cause. `Inv`
adds it. `MessageMeans`: a commit or query in flight implies a retained commit
intent; an apply call implies the PLC's reservation; a reply implies that the call
can no longer run (`Spent`) and states what it did; a signed outcome states the
coordinator's present state, which is final. `PlantKnowsOf`, `CoordinatorKnowsOf`
and `GatewayKnowsOf` say what each service's record implies about the others. The
proof has one lemma per service with frame lemmas for what a step leaves alone.
For the refinement each step is a step of `EffectOutcome` or a stutter: `Execute`
begins, `PlantApply` takes, a rejection or tombstone refuses, `GwCommitOutcome`
and `GwQueryOutcome` close, a closure without a commit intent abandons.

`RecInv` is the second invariant, about recovery. `TakenChain`: the effects that
changed the plant lead, by their pre-states, from the baseline to the plant's
state, one for each version; `ObservedBefore`: no effect was observed in a future
state; `OnePending`, `OneOpen` and `PreparedAfterIntent`: one pending effect at
each side, and nothing armed the gateway does not know; `PlantWhere`: an accepted
effect is where the plant is, an armed one too unless it is an orphan. That the
chain has no gap, for any length, is shown with a least counterexample: a set of
naturals with a member has a least one (`LeastNat`), and the chain gives a lesser.

**Recovery.** `WalkGivesVerdict` holds on every journal, also on one no run could
have written: the walk over the links sorted by version fails at the first link
that does not continue the last, and the set form fails when some version has no
link, two links or one that continues nothing. Both directions take the least
version at which walk and set form could part. What the sort returns is not
computed but characterised (`SortedByVersion`): with two links of one version the
order is not determined, and neither verdict depends on it.
`UsableJournalsAccount` then reads the accounting off the set form.

**Timed exchange.** That an outcome verified once verifies again is not inductive
by itself, because verification reads a record, a prior state and a clock that all
move on. `ExchangeInv` says what the gateway's verification established, without
the revocations (`AcceptanceKept`, `OutcomeKept`): every instant in the chain lies
in its windows, and none is beyond the gateway's clock plus the skew, which a later
clock does not undo. The prior state shown to the verifier is found in the record,
so `ArmedBefore` says that a record with a commit has an arming transition no later
than any of its queries. An answer in flight is typed by the request it answers
(`Answered`), and the coordinator only signs what it admitted inside the gateway's
credential. There is one lemma per journal method and one per action.

**Anchor.** `AnchorInv`: identities of anchors are never used twice, also after
the authority was put back, so that a store continues whatever known anchor has
the identity it is based on (`StoreSane`), and the chain continues itself
(`ChainGrows`). Readbacks that a call still holds count as known: they are how a
stale answer could hurt.

**Durable files.** `DurableInv`: the lock makes its holder the only process that
changes the file (`OneHolder`, `Phases`), so memory, file and synced file differ
only as the place in the write allows (`WriterSane`), and every answered write is
at or below each of them.

**Authorization.** `AuthorizationInv` speaks of *live* observations, in the cache
or in a handler's hands: in one life of the plant a version names one state
(`ObservationSane`), a permit in flight is safe in the state it was decided about
(`MessageSane`), and an answer about a live observation is still remembered
(`AnswerSane`), which is where retention matters. `PermitsWithinChain` turns the
comparison of neighbours into one with every grant, again by a least
counterexample. `DeliveryInv` adds that each message is one permit and that the
ledgers remember what was applied.

**Trust sequence.** `SeqInv`: the file lock is held from the check of the
checkpoint to the verdict, what was admitted is at or below the checkpoint, a
writer still advances it, and without a fork revocations grow with the sequence.
`WedgeInv`: as long as nothing failed, every file not yet in place belongs to a
thread that is still at it.

**Ledgers.** `ReplayInv`: one process serves at a time, so a lock inside it
excludes every handler; hence what a handler read is still the file when it
writes, each ledger only grows, and a granted permit shares nothing with one
dispatched.

**Segmented runtime.** `LoopInv`: a permit is in one place, with the gateway, on
the way, at the adapter or in one call to the plant (`OnePlace`, `OneCall`), and an
execution is `Final` when no place is left from which it could still act. Every
answer, acknowledgment and outcome either claims nothing or is about an execution
that is final and tells what it did; steps keep what is final (`KeepsFinal`), so a
claim that was true when it was made stays true.

**Closed loop.** `ClosedLoopInv`: observations are numbered in the order of the
plant's snapshots, a permit is bound to the one observation of its request
(`PermitsBound`) and is in one pipe, with one PLC or spent on an effect
(`OnePlace`), and a reply or a result about it leaves no copy that can act. A fresh
observation raises the plant's number above that of every older permit, which is
why `ObservationSettlesEffects` needs no clock.

**Degraded mode.** `PublisherInv`: publisher and health check never have a
temporary file at once, so the state one of them is about to write still follows
the visible publication (`Adopts`), which is the committed one or its successor
(`FileFollows`), unless a power loss undid a committed publication (`Lost`); that,
or a temporary file that was left, refuses every later step towards a publication,
so `Wedged` is for good. `SeenOnce`: among everything that either side, or a request,
remembers of publications, a sequence number names one publication, and the one
about to be published has a number nobody has seen. `GateInv`: the published gate
opens leases in the order of their sequence numbers and one at a time (`Ordered`),
the snapshot gate knows closed leases by identity (`ByIdentity`).

**Evidence packages.** `PackageInv`: a package at the output name, and one a
verifier has begun to read, carries the signature of a writer that returned, and a
writer that returned does nothing more; how far a writer has come says which
shortcomings its own checks have excluded (`SessionsBorneOut`). What the verifier
recomputes is settled by one lemma per known slip: a package with that slip
coheres only if the slip changed nothing that is recorded (`CoherentSlips`).

**Live campaigns.** That the gates exclude a defect depends on what was observed in
phases long past, so `CampaignInv` gives every noted observation its meaning when it
is noted (`Fact`: what the value under this name says about the commit's defect) and
says which names are there in which phase (`Due`). Noting another observation keeps
both. `Project` is what the next observation rests on: two effects are applied before
the plant is restarted, so a plant that resets shows another version; a gateway that
forgets has no record to reconcile; the nonce is spent for the first leaf before the
second is in use; a fault case starts the service over corrupt state while its trust
bundle is in order, so that it refuses because of the state, or is not ready in time,
which masks the defect (`MaskingFacts`). A campaign that raised has noted nothing, and
none can be judged with nothing noted. `Over` and `Done` carry the verdict through
cleanup, judgement and write; an image that was built from an edited tree needs a
checkout that is still edited, or one that was put back while the campaign ran.
An edited tree could behave in any way, so nothing is concluded about the commit's
defect from its images. There is one lemma per phase.

**Modbus control.** `PhysicalInv`: one client writes the header of a permit, once,
so before it does (`Ahead`) the permit has had no effect, and from the device's
decision on (`Over`) it has no further one, although the mailbox is shared, other
clients may commit what is staged, and an answer may be lost. `Over` never ends,
so a response is as true when it is read or recorded as when it was given
(`Settled`). That the device refuses a consumed permit is not needed for it.

**Pipeline.** That no token lets an agent in once its attempt is gone depends on
every process that may still hold the attempt. `TokensInv`: flock makes the holder
the only process that changes an attempt (`HeldByOne`), and the holder's place
says what the attempt contains and how far its token is dealt with (`HolderSane`);
a process that waits for the lock of an unlinked file finds it empty. A token goes
from the live ones through one attestation to one agent record (`ServerSane`), and
the tokens of two roles are apart (`OwnersApart`). While `cleanup` waits for stable
absence, the reads so far and the time the attestation has left stay within
`StableReads`, so the wait outlives it. `WayInCovered`: every token in a file, with an
agent, in an attestation or in the deployment's hands is escrowed or `Retired`, which
is for good. `DeploymentSane` and `AuditsStand`: an alias is audited when nothing is
issued for its role any more (`Unissued`), so an admitted role stays admitted until
the probe. `BuildSane` and `PlanSane`: the reviewed profile does not come back, so a
build that finds it at the end had it when the image was built; the compiled plan
names that image. `PartitionSane` is the argument of `cleanup` again, for the rule
of the campaign.

**Mutual TLS.** `MtlsInv`: an answer the agent gives after a withdrawal never
verifies, because the identity is gone, is one of two, or is signed by a key
older than every announced one (`WithdrawnIsGone`, `Unverifiable`); so what is
served was read before, and the refresher's clock bounds how long before
(`RefresherInTime`: a fetch, a period and another fetch). What is assumed of time is
in `Urgent`: the refresh thread runs when it is due and a fetch ends in time.

**Evaluator.** `SearchHolds`: what is reached is supplied, and every bus that is
reached and no longer waiting has its neighbours reached. With an empty worklist
the reached set is closed, so it contains the least closed set: both are equal.

Only model-checked:

* `EventuallySettled`: liveness under fairness is out of the prover's reach;
* `BuiltRecordsAreLegal`: the validator compares neighbouring transitions and
  attempts by position, through every journal method, and a proof would need to
  know that no record equals the values for "none" and "refused", which cannot be
  stated as an assumption that TLC evaluates;
* `PackagesHold`: it depends on the bound. What is packaged is read more than once
  and compared, and a directory that is exchanged often enough between the reads
  could show the same mixture twice, so nothing is claimed for every bound.

Four definitions have the form they have because they are reasoned about: the
status of an acknowledgment (`Acknowledged` of `ClosedLoop`) is a chain of
conditions in the order of the code, since cases that overlap do not determine a
value; the sorted links of `RecoveryOrder` are chosen by what sorting means; the
last transition or attempt of a kind (`LastOf` of `JournalRecord`) is found by its
index; and `Noting` of `LiveCampaign` spells out the combination of two functions,
for which the prover has no definition.

## 6. Not modelled

In the models above: signatures, digests and canonical encoding (a message is what
it binds, and a digest is the thing it covers); power flow (the plant may reject
any candidate); tampering with a journal, which the validators detect by digest;
HTTP status codes, evidence payloads and logging; the byte layout of files (a
limit is a number of entries); the removal of a state directory; two deployments
at once; a Docker daemon that is replaced and put back between the builder's two
looks at it, which the code does not notice and `EvidenceIsTrue` does not cover;
line loading, which is bounded like load.

Left out as a whole: the fleet experiment, the M3 and M4c experiments and the
probes, which drive the system once and record what they saw; the M5
mission-recovery campaign, a harness over the gates modelled here; traceability,
release security and schemas, single passes over files that compute a report;
demo, diagrams and command line. `results/` holds snapshots of earlier sources.

## 7. Plan

Done: every part of section 1 that keeps protocol state has a module, a run and
properties, and all but two safety properties are proved. Left:

* `BuiltRecordsAreLegal`, with an invariant per position of the record.
