---- MODULE WorkloadDeployment ----
(***************************************************************************)
(* scripts/deploy_m4j_workloads.py with the plays of infra/ansible it runs, *)
(* the entry and firewall reconcilers the plays call, and the live probe    *)
(* that ends in a signed record.  One deployment runs at a time;            *)
(* it can fail after any of its steps, be killed between any two of them,   *)
(* and be started again over whatever it left on the hosts.                 *)
(***************************************************************************)
EXTENDS BundleBuilder, JoinToken, Sequences

----------------------------------------------------------------------------
(***************************************************************************)
(* What a deployment is made from, and scripts/validate_m4j_workloads.py,   *)
(* which turns it into one plan per host or refuses it: the application     *)
(* bundle, the third-party runtime images and the secret package, the last  *)
(* two written by the preparation scripts into directories of their own.    *)
(* A directory without its manifest is Partial: a script that was killed    *)
(* leaves one behind, and nothing ever replaces it.                         *)
(***************************************************************************)

CONSTANTS
    Partial,   \* a directory whose manifest was never written
    Pinned,    \* the runtime images of the exact registry digests
    Drifted    \* a runtime image set with another digest in it

VARIABLES
    runtime,   \* the runtime-image directory
    secrets,   \* the secret package: the commit it was created for
    low,       \* its credentials have less than the minimum time left
    prepare    \* the preparation script in progress

planVars == <<runtime, secrets, low, prepare>>

PlanTypeOK ==
    /\ runtime \in {Nothing, Partial, Pinned, Drifted}
    /\ secrets \in Commits \cup {Nothing, Partial}
    /\ low \in BOOLEAN
    /\ prepare.pc \in {"idle", "runtime", "secrets"}

NoPreparation == [pc |-> "idle", commit |-> Nothing]

PlanInit ==
    /\ runtime = Nothing /\ secrets = Nothing
    /\ low = FALSE /\ prepare = NoPreparation

----
(* The preparation scripts. *)

\* prepare_runtime_images: the directory is created first; every image is
\* bound to its registry digest, saved under a temporary tag and validated.
StartRuntimeImages ==
    /\ prepare.pc = "idle" /\ runtime = Nothing
    /\ runtime' = Partial
    /\ prepare' = [pc |-> "runtime", commit |-> Nothing]
    /\ UNCHANGED <<secrets, low>>

\* _validate_saved_runtime_archive: manifest, config and layer closures of the
\* archive are those of the registry digest.
RuntimeArchiveHolds(images) == images = Pinned

FinishRuntimeImages(images) ==
    /\ prepare.pc = "runtime"
    /\ RuntimeArchiveHolds(images)
    /\ runtime' = images
    /\ prepare' = NoPreparation
    /\ UNCHANGED <<secrets, low>>

\* create_secret_package: keys, credentials and trust bundle for one commit,
\* the manifest last.
StartSecrets(c) ==
    /\ prepare.pc = "idle" /\ secrets = Nothing
    /\ secrets' = Partial
    /\ prepare' = [pc |-> "secrets", commit |-> c]
    /\ UNCHANGED <<runtime, low>>

FinishSecrets ==
    /\ prepare.pc = "secrets"
    /\ secrets' = prepare.commit /\ low' = FALSE
    /\ prepare' = NoPreparation
    /\ UNCHANGED runtime

\* An exception removes the directory that was not published.
FailPreparation ==
    /\ prepare.pc # "idle"
    /\ runtime' = IF prepare.pc = "runtime" THEN Nothing ELSE runtime
    /\ secrets' = IF prepare.pc = "secrets" THEN Nothing ELSE secrets
    /\ prepare' = NoPreparation
    /\ UNCHANGED low

\* A kill removes nothing.
KillPreparation ==
    /\ prepare.pc # "idle"
    /\ prepare' = NoPreparation
    /\ UNCHANGED <<runtime, secrets, low>>

\* Time passes: the credentials of the package run down.
RunDownCredentials ==
    /\ secrets \in Commits /\ ~low
    /\ low' = TRUE
    /\ UNCHANGED <<runtime, secrets, prepare>>

\* Someone moves a directory away, or another one into its place.
ReplaceInputs(r, s) ==
    /\ runtime' = r /\ secrets' = s
    /\ UNCHANGED <<low, prepare>>

----
(* The validators. *)

\* _validate_builder_execution_profile: the signed profile, complete and with
\* the digest the deployment was told to expect.
ProfileExpected(b) == b.profile = ReviewedProfile

\* _verify_builder_attestation: the key given out of band, never the checkout's,
\* signed exactly what the manifest says was built, for the expected profile.
AttestationHolds(b) == b.signer = TrustedKey /\ ProfileExpected(b)

\* _validate_bundle, the manifest: an accepted build of the expected commit.
ManifestHolds(b, c) == b.accepted /\ b.source.commit = c

\* ... the archives, and the topology in them, validated again from their bytes.
ArchivesHold(b, c) ==
    /\ SourceArchiveBound(b.source, c) /\ TopologyHolds(c)
    /\ ArchiveHolds(b.image, b.image.index, c)

BundleHolds(b, c) == b # Nothing /\ ManifestHolds(b, c) /\ ArchivesHold(b, c) /\ AttestationHolds(b)

\* _validate_runtime_images: a complete directory of the pinned digests.
RuntimeHolds(r) == r \notin {Nothing, Partial} /\ RuntimeArchiveHolds(r)

\* _validate_credential: signed by the package's authority, for its role and
\* audience, with the minimum time left.
CredentialsUsable == ~low

\* _validate_secrets: a complete package for this commit, exact files, distinct
\* keys, credentials that can still be deployed.
SecretsHold(s, c) == s = c /\ CredentialsUsable

\* compile_plan refuses, or binds the host plans to these exact inputs.
Compiles(c, root, b, r, s) ==
    /\ ContractHolds(root)
    /\ BundleHolds(b, c) /\ RuntimeHolds(r) /\ SecretsHold(s, c)

PlanOf(c, root, b, r, s) ==
    [commit |-> c, contract |-> root, image |-> b.image.index, runtime |-> r, secrets |-> s]

----------------------------------------------------------------------------
(* The deployment. *)

CONSTANTS
    RoleOrder,       \* the order in which hosts are bootstrapped and services started
    MaxDeployments   \* bound on deployments started

ASSUME DeploymentAssumption ==
    /\ RoleOrder \in Seq(Roles) /\ RoleOrder # <<>>
    /\ \A r \in Roles : \E i \in DOMAIN RoleOrder : RoleOrder[i] = r
    /\ MaxDeployments \in Nat

VARIABLES
    host,         \* role -> loaded image, installed secrets, running service
    firewall,     \* role -> its ingress rules: the planned set, others
    entries,      \* the server's managed registration entries
    agentUp,      \* role -> its SPIRE agent service runs
    tokenFile,    \* role -> the join token, with the argument that names it, on the host
    asking,       \* role -> the token its running agent was started with
    svid,         \* role -> the token its agent attested with
    dep,          \* the deployment in progress
    deployments,  \* deployments started so far
    probe         \* the signed probe record

hostVars == <<host, firewall, entries, agentUp, tokenFile, asking, svid>>
depVars == <<hostVars, dep, deployments, probe>>

NoPlan == [commit |-> Nothing, contract |-> Nothing, image |-> Nothing, runtime |-> Nothing,
           secrets |-> Nothing]
NoDeployment == [pc |-> "idle", commit |-> Nothing, bundle |-> Nothing, runtime |-> Nothing,
                 secrets |-> Nothing, plan |-> NoPlan, at |-> 1, verified |-> FALSE,
                 token |-> NoToken, clean |-> TRUE]
NoService == [image |-> Nothing, secrets |-> Nothing, running |-> Nothing]

Planned == "planned"   \* the rules, or the entries, of the plan
Stale == "stale"       \* those of an earlier deployment, or of nobody

DeploymentTypeOK ==
    /\ DOMAIN host = Roles
    /\ firewall \in [Roles -> SUBSET {Planned, Stale}] /\ entries \subseteq {Planned, Stale}
    /\ agentUp \in [Roles -> BOOLEAN]
    /\ tokenFile \in [Roles -> Tokens \cup {NoToken}] /\ svid \in [Roles -> Tokens \cup {NoToken}]
    /\ asking \in [Roles -> Tokens \cup {NoToken}]
    /\ deployments \in 0 .. MaxDeployments

DeploymentInit ==
    /\ host = [r \in Roles |-> NoService]
    /\ firewall = [r \in Roles |-> {Stale}] /\ entries \in {{}, {Stale}}
    /\ agentUp = [r \in Roles |-> FALSE]
    /\ tokenFile = [r \in Roles |-> NoToken] /\ svid = [r \in Roles |-> NoToken]
    /\ asking = [r \in Roles |-> NoToken]
    /\ dep = NoDeployment /\ deployments = 0 /\ probe = Nothing

Goto(pc) == dep' = [dep EXCEPT !.pc = pc]
Role == RoleOrder[dep.at]

\* The next role's pass of a play, or the next play.
NextRole(pc, play) ==
    dep' = IF dep.at < Len(RoleOrder) THEN [dep EXCEPT !.pc = pc, !.at = @ + 1]
           ELSE [dep EXCEPT !.pc = play, !.at = 1]

HostsKeep == UNCHANGED hostVars
OthersKeep == UNCHANGED <<checkoutVars, builderVars, planVars>>
RestKeeps == UNCHANGED <<deployments, probe>> /\ OthersKeep

----
(* main: everything is copied before anything is read. *)

StartDeployment(c) ==
    /\ dep.pc = "idle" /\ deployments < MaxDeployments
    /\ ExactSource(c)
    /\ deployments' = deployments + 1
    /\ dep' = [NoDeployment EXCEPT !.pc = "bundle", !.commit = c]
    /\ HostsKeep /\ UNCHANGED <<probe, tokenVars>> /\ OthersKeep

\* _stable_input_snapshot: three private copies, one after the other.
CopyBundle ==
    /\ dep.pc = "bundle" /\ bundle # Nothing
    /\ dep' = [dep EXCEPT !.pc = "inputs", !.bundle = bundle]
    /\ HostsKeep /\ RestKeeps /\ UNCHANGED tokenVars

CopyInputs ==
    /\ dep.pc = "inputs" /\ runtime # Nothing /\ secrets # Nothing
    /\ dep' = [dep EXCEPT !.pc = "compile", !.runtime = runtime, !.secrets = secrets]
    /\ HostsKeep /\ RestKeeps /\ UNCHANGED tokenVars

\* The inputs a deployment works with: its private copies.
DeployedBundle == dep.bundle

\* _compile_host_plans over the copies and the commit's own contract files.
SnapshotCompiles ==
    Compiles(dep.commit, HeadSourceCopy(dep.commit), DeployedBundle, dep.runtime, dep.secrets)
CompiledPlan ==
    PlanOf(dep.commit, HeadSourceCopy(dep.commit), DeployedBundle, dep.runtime, dep.secrets)

\* _compile_deployment, then the known-hosts copy and the private plan file.
CompileDeployment ==
    /\ dep.pc = "compile"
    /\ ExactSource(dep.commit) /\ SnapshotCompiles
    /\ dep' = [dep EXCEPT !.pc = "apply", !.plan = CompiledPlan]
    /\ HostsKeep /\ RestKeeps /\ UNCHANGED tokenVars

\* _require_plan_inputs_unchanged: compiled again, the plans are the same.
InputsUnchanged == SnapshotCompiles /\ CompiledPlan = dep.plan

\* _apply up to the playbook.
BeginApply ==
    /\ dep.pc = "apply"
    /\ ExactSource(dep.commit) /\ InputsUnchanged
    /\ Goto("artifacts")
    /\ HostsKeep /\ RestKeeps /\ UNCHANGED tokenVars

----
(* The plays: artifacts, firewall, agents, entries, services. *)

\* The archive of the copy is loaded and its id compared with the plan's.
LoadArtifacts ==
    /\ dep.pc = "artifacts"
    /\ DeployedBundle.image.index = dep.plan.image
    /\ host' = [host EXCEPT ![Role].image = DeployedBundle.image.index]
    /\ NextRole("artifacts", "allow")
    /\ UNCHANGED <<firewall, entries, agentUp, tokenFile, asking, svid>> /\ RestKeeps /\ UNCHANGED tokenVars

\* The planned tuples are allowed before anything is deleted.
AllowPlanned ==
    /\ dep.pc = "allow"
    /\ firewall' = [firewall EXCEPT ![Role] = @ \cup {Planned}]
    /\ Goto("converge")
    /\ UNCHANGED <<host, entries, agentUp, tokenFile, asking, svid>> /\ RestKeeps /\ UNCHANGED tokenVars

\* reconcile_m4j_ufw_rules.reconcile: every rule that is not one exact planned
\* tuple is stale; the audit then requires the exact set.
StaleRules(rules) == rules \ {Planned}

DeleteStaleRules ==
    /\ dep.pc = "converge"
    /\ Planned \in firewall[Role]
    /\ firewall' = [firewall EXCEPT ![Role] = @ \ StaleRules(@)]
    /\ NextRole("allow", "stale")
    /\ UNCHANGED <<host, entries, agentUp, tokenFile, asking, svid>> /\ RestKeeps /\ UNCHANGED tokenVars

\* The agent's role: what an earlier attempt left on the host goes first, ...
RemoveStaleToken ==
    /\ dep.pc = "stale"
    /\ tokenFile' = [tokenFile EXCEPT ![Role] = NoToken]
    /\ Goto("retain")
    /\ UNCHANGED <<host, firewall, entries, agentUp, asking, svid>> /\ RestKeeps /\ UNCHANGED tokenVars

\* ... then the agent is started from what it retained, with no token.  One that
\* runs already is restarted only when its configuration changed.
StartRetained ==
    /\ dep.pc = "retain"
    /\ agentUp' = [agentUp EXCEPT ![Role] = TRUE]
    /\ asking' \in {[asking EXCEPT ![Role] = NoToken]} \cup (IF agentUp[Role] THEN {asking} ELSE {})
    /\ Goto("health")
    /\ UNCHANGED <<host, firewall, entries, tokenFile, svid>> /\ RestKeeps /\ UNCHANGED tokenVars

\* The agent answers its health check only with an identity the server knows.
AgentHealthy(r) == agentUp[r] /\ svid[r] \in nodes

\* A healthy agent is kept and only its escrow reconciled; any other agent is
\* bootstrapped.
CheckHealth ==
    /\ dep.pc = "health"
    /\ IF AgentHealthy(Role)
       THEN CallHelper("cleanup", Role, TRUE) /\ Goto("retained")
       ELSE CallHelper("arm", Role, FALSE) /\ dep' = [dep EXCEPT !.pc = "armed", !.verified = FALSE]
    /\ HostsKeep /\ RestKeeps
    /\ UNCHANGED <<attempts, inodes, live, issued, aliases, nodes, attesting, audited>>

\* A call that failed sends the block to its always section, and the
\* deployment to its end after that.
Armed ==
    /\ dep.pc = "armed" /\ helper["run"].pc \in {"done", "failed"}
    /\ IF helper["run"].pc = "done"
       THEN helper' = [helper EXCEPT !["run"] = [NoProcess EXCEPT !.op = "generate", !.role = Role,
                                                 !.pc = "open"]]
            /\ Goto("generated")
       ELSE ReapHelper /\ dep' = [dep EXCEPT !.pc = "quiesce", !.clean = FALSE]
    /\ HostsKeep /\ RestKeeps
    /\ UNCHANGED <<attempts, inodes, live, issued, aliases, nodes, attesting, audited>>

Generated ==
    /\ dep.pc = "generated" /\ helper["run"].pc \in {"done", "failed"}
    /\ ReapHelper
    /\ dep' = IF helper["run"].pc = "done" THEN [dep EXCEPT !.pc = "deliver", !.token = helper["run"].token]
              ELSE [dep EXCEPT !.pc = "quiesce", !.clean = FALSE]
    /\ HostsKeep /\ RestKeeps
    /\ UNCHANGED <<attempts, inodes, live, issued, aliases, nodes, attesting, audited>>

DeliverToken ==
    /\ dep.pc = "deliver"
    /\ tokenFile' = [tokenFile EXCEPT ![Role] = dep.token]
    /\ Goto("start")
    /\ UNCHANGED <<host, firewall, entries, agentUp, asking, svid>> /\ RestKeeps /\ UNCHANGED tokenVars

\* The agent reads the token file when it starts.
StartAgent ==
    /\ dep.pc = "start"
    /\ agentUp' = [agentUp EXCEPT ![Role] = TRUE]
    /\ asking' = [asking EXCEPT ![Role] = tokenFile[Role]]
    /\ Goto("audit")
    /\ UNCHANGED <<host, firewall, entries, tokenFile, svid>> /\ RestKeeps /\ UNCHANGED tokenVars

\* Healthy, and the exact agent and alias of this very token are on the server.
BootstrapVerified == AgentHealthy(Role) /\ AgentPresent(dep.token) /\ AliasPresent(Role, dep.token)

AuditAgent ==
    /\ dep.pc = "audit"
    /\ BootstrapVerified
    /\ audited' = audited \cup {dep.token}
    /\ dep' = [dep EXCEPT !.pc = "quiesce", !.verified = TRUE]
    /\ HostsKeep /\ RestKeeps
    /\ UNCHANGED <<attempts, inodes, live, issued, aliases, nodes, attesting, helper>>

\* The delivery, the start, the wait for health or the audit fails.
FailBlock ==
    /\ dep.pc \in {"deliver", "start", "audit"}
    /\ dep' = [dep EXCEPT !.pc = "quiesce", !.clean = FALSE]
    /\ HostsKeep /\ RestKeeps /\ UNCHANGED tokenVars

\* always: an agent that was not verified is stopped before the cleanup.  A stop
\* that fails is not an error here, and the agent goes on.
Quiesce ==
    /\ dep.pc = "quiesce"
    /\ agentUp' \in {agentUp} \cup (IF dep.verified THEN {} ELSE {[agentUp EXCEPT ![Role] = FALSE]})
    /\ asking' = [asking EXCEPT ![Role] = IF agentUp'[Role] THEN @ ELSE NoToken]
    /\ CallHelper("cleanup", Role, dep.verified)
    /\ Goto("cleaned")
    /\ UNCHANGED <<host, firewall, entries, tokenFile, svid>> /\ RestKeeps
    /\ UNCHANGED <<attempts, inodes, live, issued, aliases, nodes, attesting, audited>>

\* Whatever the helper answered, the token file and the token in memory go, the
\* file unless its deletion fails; only then is every outcome required, and a
\* cleanup that found no attempt is good for an unverified one only.
Cleaned ==
    /\ dep.pc = "cleaned" /\ helper["run"].pc \in {"done", "failed"}
    /\ ReapHelper
    /\ tokenFile' \in {tokenFile, [tokenFile EXCEPT ![Role] = NoToken]}
    /\ LET good == /\ helper["run"].pc = "done" /\ dep.clean /\ tokenFile'[Role] = NoToken
                   /\ dep.verified => helper["run"].token = dep.token
       IN dep' = IF good THEN [dep EXCEPT !.pc = "resume", !.token = NoToken] ELSE NoDeployment
    /\ UNCHANGED <<host, firewall, entries, agentUp, asking, svid>> /\ RestKeeps
    /\ UNCHANGED <<attempts, inodes, live, issued, aliases, nodes, attesting, audited>>

\* The new agent is restarted without the argument; a restart that fails leaves it down.
ResumeAgent ==
    /\ dep.pc = "resume"
    /\ \E up \in BOOLEAN :
         /\ agentUp' = [agentUp EXCEPT ![Role] = up]
         /\ dep' = IF up THEN [dep EXCEPT !.pc = "await"] ELSE NoDeployment
    /\ asking' = [asking EXCEPT ![Role] = NoToken]
    /\ UNCHANGED <<host, firewall, entries, tokenFile, svid>> /\ RestKeeps /\ UNCHANGED tokenVars

\* It has to become healthy again from its own state.
AwaitResumed ==
    /\ dep.pc = "await" /\ AgentHealthy(Role)
    /\ Goto("alias")
    /\ HostsKeep /\ RestKeeps /\ UNCHANGED tokenVars

Retained ==
    /\ dep.pc = "retained" /\ helper["run"].pc \in {"done", "failed"}
    /\ ReapHelper
    /\ dep' = IF helper["run"].pc = "done" THEN [dep EXCEPT !.pc = "alias"] ELSE NoDeployment
    /\ HostsKeep /\ RestKeeps
    /\ UNCHANGED <<attempts, inodes, live, issued, aliases, nodes, attesting, audited>>

\* After every bootstrap, and for a kept agent: the role's alias names an agent
\* the server has, and no join material is left on the host.
AuditAlias ==
    /\ dep.pc = "alias"
    /\ aliases[Role] \in nodes /\ tokenFile[Role] = NoToken
    /\ audited' = audited \cup {aliases[Role]}
    /\ NextRole("stale", "prune")
    /\ HostsKeep /\ RestKeeps
    /\ UNCHANGED <<attempts, inodes, live, issued, aliases, nodes, attesting, helper>>

\* converge: stale managed entries first, then every desired one, then an exact
\* audit of what the server says.
PruneEntries ==
    /\ dep.pc = "prune"
    /\ entries' = entries \ {Stale}
    /\ Goto("entries")
    /\ UNCHANGED <<host, firewall, agentUp, tokenFile, asking, svid>> /\ RestKeeps /\ UNCHANGED tokenVars

ReconcileEntries ==
    /\ dep.pc = "entries"
    /\ entries' = entries \cup {Planned}
    /\ Goto("managed")
    /\ UNCHANGED <<host, firewall, agentUp, tokenFile, asking, svid>> /\ RestKeeps /\ UNCHANGED tokenVars

\* _assert_exact_managed.
ExactlyManaged == entries = {Planned}

AuditEntries ==
    /\ dep.pc = "managed" /\ ExactlyManaged
    /\ Goto("services")
    /\ HostsKeep /\ RestKeeps /\ UNCHANGED tokenVars

\* Secrets are installed and the service started from the plan's image id.
StartService ==
    /\ dep.pc = "services"
    /\ host[Role].image = dep.plan.image
    /\ host' = [host EXCEPT ![Role] = [@ EXCEPT !.secrets = dep.secrets, !.running = dep.plan.image]]
    /\ NextRole("services", "applied")
    /\ UNCHANGED <<firewall, entries, agentUp, tokenFile, asking, svid>> /\ RestKeeps /\ UNCHANGED tokenVars

----
(* After the playbook: the same questions again, then the probe. *)

FinishApply ==
    /\ dep.pc = "applied"
    /\ InputsUnchanged /\ ExactSource(dep.commit)
    /\ Goto("probe")
    /\ HostsKeep /\ RestKeeps /\ UNCHANGED tokenVars

\* _record_gates on what the agent's probe saw: ready, one action completed,
\* replay and unsafe action refused, no way round the gateway.  It takes every
\* service to answer; the rules of the host firewalls are not looked at, so one
\* that is not planned goes unnoticed.
GatesPass == \A r \in Roles : host[r].running # Nothing

ProbeInitial ==
    /\ dep.pc = "probe" /\ GatesPass
    /\ Goto("restart")
    /\ HostsKeep /\ RestKeeps /\ UNCHANGED tokenVars

\* The services are restarted one by one from the image they ran.
RestartService ==
    /\ dep.pc = "restart"
    /\ NextRole("restart", "again")
    /\ HostsKeep /\ RestKeeps /\ UNCHANGED tokenVars

\* run_live_probe: both phases pass, the payload is signed and written to a
\* path that must not exist.
SignProbe ==
    /\ dep.pc = "again" /\ GatesPass
    /\ probe = Nothing
    /\ probe' = [commit |-> dep.commit, image |-> dep.plan.image]
    /\ Goto("verify")
    /\ HostsKeep /\ OthersKeep /\ UNCHANGED <<deployments, tokenVars>>

\* verify_evidence reads it back; the source is compared once more, and the
\* record stays whatever that comparison says.
VerifyProbe ==
    /\ dep.pc = "verify"
    /\ dep' = NoDeployment
    /\ HostsKeep /\ RestKeeps /\ UNCHANGED tokenVars

----
(* How a deployment ends early. *)

\* A step is refused or fails outside the bootstrap block: the partial mutation stays.
StopDeployment ==
    /\ dep.pc \in {"bundle", "inputs", "compile", "apply", "artifacts", "allow", "converge", "stale",
                   "retain", "health", "resume", "await", "alias", "prune", "entries", "managed",
                   "services", "applied", "probe", "again"}
    /\ dep' = NoDeployment
    /\ HostsKeep /\ RestKeeps /\ UNCHANGED tokenVars

\* A restart that fails leaves the service down.
FailRestart ==
    /\ dep.pc = "restart"
    /\ host' = [host EXCEPT ![Role].running = Nothing]
    /\ dep' = NoDeployment
    /\ UNCHANGED <<firewall, entries, agentUp, tokenFile, asking, svid>> /\ RestKeeps /\ UNCHANGED tokenVars

\* The controller dies, in the middle of a remote command or not.
KillDeployment ==
    /\ dep.pc # "idle"
    /\ OrphanHelper
    /\ dep' = NoDeployment
    /\ HostsKeep /\ RestKeeps
    /\ UNCHANGED <<attempts, inodes, live, issued, aliases, nodes, attesting, audited>>

----
(* The agents and the server, external. *)

Attest(r) ==
    /\ agentUp[r] /\ asking[r] # NoToken /\ svid[r] # asking[r]
    /\ AcceptToken(r, asking[r])
    /\ HostsKeep /\ UNCHANGED <<dep, deployments, probe>> /\ OthersKeep

\* systemd starts an agent again that failed, with the token that is there by now.
AgentRestarts(r) ==
    /\ agentUp[r] /\ asking[r] # tokenFile[r]
    /\ asking' = [asking EXCEPT ![r] = tokenFile[r]]
    /\ UNCHANGED <<host, firewall, entries, agentUp, tokenFile, svid, dep, deployments, probe>>
    /\ UNCHANGED tokenVars /\ OthersKeep

\* The agent keeps the identity when it is still there to receive it.
FinishAttestation ==
    /\ RecordAgent
    /\ svid' = [svid EXCEPT ![attesting.role] = IF agentUp[attesting.role] THEN attesting.token ELSE @]
    /\ UNCHANGED <<host, firewall, entries, agentUp, tokenFile, asking, dep, deployments, probe>> /\ OthersKeep

DriftFirewall(r) ==
    /\ Stale \notin firewall[r]
    /\ firewall' = [firewall EXCEPT ![r] = @ \cup {Stale}]
    /\ UNCHANGED <<host, entries, agentUp, tokenFile, asking, svid, dep, deployments, probe>>
    /\ UNCHANGED tokenVars /\ OthersKeep

HelperRuns(s) == HelperStep(s) /\ HostsKeep /\ UNCHANGED dep /\ RestKeeps
==============================================================================
