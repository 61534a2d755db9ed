---- MODULE DeploymentPipeline ----
(***************************************************************************)
(* The M4j pipeline: one operator builds the bundle, prepares the runtime   *)
(* images and the secrets, deploys and probes, and runs the acceptance      *)
(* campaign, one command at a time and as often as the bounds allow; the    *)
(* checkout, the Docker daemon, the input directories and the hosts are     *)
(* shared with others, who disturb them a bounded number of times.          *)
(***************************************************************************)
EXTENDS WorkloadDeployment

----------------------------------------------------------------------------
(***************************************************************************)
(* scripts/run_m4j_acceptance.py: one campaign over SSH reads every host's  *)
(* facts, tries every connection of the contract, cuts the agents off from  *)
(* the gateway with one marked packet-filter rule, removes it again and     *)
(* reads the facts a second time, before it writes one report.  A command   *)
(* that times out at the controller may still take effect on the gateway.   *)
(***************************************************************************)

CONSTANTS
    MaxCampaigns,    \* bound on campaigns started
    PartitionReads   \* _PARTITION_STABLE_ABSENCE_READS

ASSUME AcceptanceAssumption == MaxCampaigns \in Nat /\ PartitionReads \in Nat \ {0}

VARIABLES
    partition,   \* the campaigns whose REJECT rule the gateway has
    inserting,   \* an insertion that timed out and may still happen
    acc,         \* the campaign in progress
    campaigns,   \* campaigns started so far, each with a marker of its own
    report       \* the evidence file

accVars == <<partition, inserting, acc, campaigns, report>>

NoInsertion == [campaign |-> 0, delay |-> 0]
NoCampaign == [pc |-> "idle", commit |-> Nothing, at |-> 1, reads |-> 0, denied |-> FALSE]

AcceptanceTypeOK ==
    /\ partition \subseteq 1 .. MaxCampaigns /\ campaigns \in 0 .. MaxCampaigns
    /\ acc.reads \in 0 .. PartitionReads
    /\ report \in Commits \cup {Nothing, Partial}

AcceptanceInit ==
    /\ partition = {} /\ inserting = NoInsertion
    /\ acc = NoCampaign /\ campaigns = 0 /\ report = Nothing

AccGoto(pc) == acc' = [acc EXCEPT !.pc = pc]
AccRole == RoleOrder[acc.at]
AccNextRole(pc, next) ==
    acc' = IF acc.at < Len(RoleOrder) THEN [acc EXCEPT !.at = @ + 1] ELSE [acc EXCEPT !.pc = next, !.at = 1]
DeploymentKeeps == UNCHANGED <<checkoutVars, builderVars, planVars, depVars, tokenVars>>

----
(* What the campaign reads. *)

\* _validate_ufw_rules: the added and the numbered rules are exactly those the
\* deployment's edges give the role.
IngressExact(r) == firewall[r] = {Planned}

\* The listeners of the contract are there when the role's service runs.
ListenersUp(r) == host[r].running # Nothing

\* _validate_host_facts: interfaces, routes, forwarding, rules and listeners.
FactsHold(r) == IngressExact(r) /\ ListenersUp(r)

\* The one connection a partition rule cuts: agents to the gateway.
AgentsReachGateway == partition = {}

\* _collect_connectivity over _connectivity_contract: every observed result is
\* the expected one.
ConnectivityHolds == AgentsReachGateway /\ \A r \in Roles : ListenersUp(r)

\* _load_topology and _load_deployment on the committed files: the runner's own
\* copy of the topology and deployment checks.  The workload contract is not
\* among what it validates.
CommittedTopology(c) == Unflawed(c, {"topology"})
CommittedListeners(c) == Unflawed(c, {"roles", "listeners"})
CommittedSources(c) == Unflawed(c, {"edges", "policy"})
CommittedContract(c) == CommittedTopology(c) /\ CommittedListeners(c) /\ CommittedSources(c)

----
(* The campaign. *)

\* run_live: source binding, private copy of the SSH transport and exclusive
\* reservation of the output.  A campaign that was killed has left its output
\* behind and the operator names another; what it left in flight is over by
\* the time the next one has read the hosts.
BeginAcceptance(c) ==
    /\ acc.pc = "idle" /\ campaigns < MaxCampaigns
    /\ c \in SourceBinding /\ CommittedContract(c)
    /\ report \in {Nothing, Partial} /\ inserting = NoInsertion
    /\ campaigns' = campaigns + 1
    /\ report' = Partial
    /\ acc' = [NoCampaign EXCEPT !.pc = "before", !.commit = c]
    /\ DeploymentKeeps /\ UNCHANGED <<partition, inserting>>

CollectBefore ==
    /\ acc.pc = "before" /\ FactsHold(AccRole)
    /\ AccNextRole("before", "baseline")
    /\ DeploymentKeeps /\ UNCHANGED <<partition, inserting, campaigns, report>>

Baseline ==
    /\ acc.pc = "baseline" /\ ConnectivityHolds
    /\ AccGoto("install")
    /\ DeploymentKeeps /\ UNCHANGED <<partition, inserting, campaigns, report>>

\* _gateway_partition_probe: from here on every way out leads through the
\* reconciliation.
InstallPartition ==
    /\ acc.pc = "install"
    /\ partition' = partition \cup {campaigns}
    /\ AccGoto("present")
    /\ DeploymentKeeps /\ UNCHANGED <<inserting, campaigns, report>>

\* The insertion times out at the controller and is still under way.
InstallTimesOut ==
    /\ acc.pc = "install"
    /\ inserting' = [campaign |-> campaigns, delay |-> PartitionReads - 1]
    /\ AccGoto("cleanup")
    /\ DeploymentKeeps /\ UNCHANGED <<partition, campaigns, report>>

CheckDenial ==
    /\ acc.pc = "present"
    /\ campaigns \in partition /\ ~AgentsReachGateway
    /\ acc' = [acc EXCEPT !.pc = "cleanup", !.denied = TRUE]
    /\ DeploymentKeeps /\ UNCHANGED <<partition, inserting, campaigns, report>>

\* A command of the probe fails: the finally clause runs without a denial.
FailPartition ==
    /\ acc.pc \in {"install", "present"}
    /\ AccGoto("cleanup")
    /\ DeploymentKeeps /\ UNCHANGED <<partition, inserting, campaigns, report>>

\* One read of _reconcile_gateway_partition_absence.  Only a read that answers
\* "absent" counts, and only in a row.
AbsenceCount(found) == IF found THEN 0 ELSE acc.reads + 1

\* FAULTY: the first read that finds nothing is enough.
OneAbsence == 1

\* Absences in a row that end the reconciliation.
EnoughAbsences == PartitionReads

CheckAbsence ==
    /\ acc.pc = "cleanup"
    /\ inserting # NoInsertion => inserting.delay > 0
    /\ LET n == AbsenceCount(campaigns \in partition)
       IN acc' = [acc EXCEPT !.reads = IF n >= EnoughAbsences THEN 0 ELSE n,
                             !.pc = IF n >= EnoughAbsences THEN "restored" ELSE "cleanup"]
    /\ partition' = partition \ {campaigns}
    /\ inserting' = IF inserting = NoInsertion THEN inserting ELSE [inserting EXCEPT !.delay = @ - 1]
    /\ DeploymentKeeps /\ UNCHANGED <<campaigns, report>>

\* The read, or the deletion after it, fails.
ReadFails ==
    /\ acc.pc = "cleanup"
    /\ acc.reads # 0 \/ campaigns \in partition
    /\ acc' = [acc EXCEPT !.reads = 0]
    /\ DeploymentKeeps /\ UNCHANGED <<partition, inserting, campaigns, report>>

\* Without a denial the exception goes on; with one the connection must be back.
CheckRestored ==
    /\ acc.pc = "restored" /\ acc.denied
    /\ AgentsReachGateway
    /\ AccGoto("after")
    /\ DeploymentKeeps /\ UNCHANGED <<partition, inserting, campaigns, report>>

CollectAfter ==
    /\ acc.pc = "after" /\ FactsHold(AccRole)
    /\ AccNextRole("after", "write")
    /\ DeploymentKeeps /\ UNCHANGED <<partition, inserting, campaigns, report>>

\* The gates that are not implied by having come this far.
AcceptanceGates == acc.commit \in SourceBinding /\ acc.denied

\* _assert_source_unchanged, the gates, and the write to the reserved file.
WriteReport ==
    /\ acc.pc = "write"
    /\ AcceptanceGates
    /\ report' = acc.commit
    /\ acc' = NoCampaign
    /\ DeploymentKeeps /\ UNCHANGED <<partition, inserting, campaigns>>

\* Any other failure, and a reconciliation that reached its last read: the
\* reserved output is removed.
AbortAcceptance ==
    /\ acc.pc \in {"before", "baseline", "cleanup", "restored", "after", "write"}
    /\ report' = Nothing
    /\ acc' = NoCampaign
    /\ DeploymentKeeps /\ UNCHANGED <<partition, inserting, campaigns>>

\* The runner is killed: the reserved output and the rule stay.
KillAcceptance ==
    /\ acc.pc # "idle"
    /\ acc' = NoCampaign
    /\ DeploymentKeeps /\ UNCHANGED <<partition, inserting, campaigns, report>>

\* The insertion that timed out happens after all, or never.
LateInsertion ==
    /\ inserting # NoInsertion
    /\ inserting' = NoInsertion
    /\ partition' \in {partition, partition \cup {inserting.campaign}}
    /\ DeploymentKeeps /\ UNCHANGED <<acc, campaigns, report>>

----------------------------------------------------------------------------
(* The composition. *)

CONSTANTS
    ForeignBundles,   \* the bundles that may turn up at the bundle path
    MaxDisturbances   \* bound on what others do, kills included

\* What the trusted key signs for the reviewed profile holds the files of the commit it
\* names: another invocation is one of the same builder.
ASSUME ForeignAssumption ==
    \A b \in ForeignBundles :
        b.accepted /\ b.signer = TrustedKey /\ b.profile = ReviewedProfile =>
            b.image.index.content = b.image.index.revision

VARIABLE disturbances

pipelineVars == <<checkoutVars, builderVars, planVars, tokenVars, depVars, accVars, disturbances>>

PipelineInit ==
    /\ CheckoutInit /\ BuilderInit /\ PlanInit /\ TokenInit /\ DeploymentInit /\ AcceptanceInit
    /\ disturbances = 0

\* The operator's shell is free.
Idle == build.pc = "idle" /\ prepare.pc = "idle" /\ dep.pc = "idle" /\ acc.pc = "idle"

OutsideBuild == UNCHANGED <<checkoutVars, planVars, tokenVars, depVars, accVars>>
OutsidePlan == UNCHANGED <<checkoutVars, builderVars, tokenVars, depVars, accVars>>
OutsideCheckout == UNCHANGED <<builderVars, planVars, tokenVars, depVars, accVars>>

Build ==
    /\ \/ /\ Idle
          /\ \E c \in Commits, key \in {TrustedKey, OtherKey}, expected \in Profiles :
                 StartBuild(c, FALSE, key, expected)
       \/ Idle /\ \E c \in Commits : StartBuild(c, TRUE, Nothing, Nothing)
       \/ OpenBoundary \/ ExportSource \/ BuildImage
       \/ \E payload \in {build.image, Edited} : SaveImage(payload)
       \/ VerifyArchive \/ RecheckBuilder \/ PublishBundle \/ FinishBuild \/ FailBuild
    /\ OutsideBuild

Prepare ==
    /\ \/ Idle /\ StartRuntimeImages
       \/ Idle /\ \E c \in Commits : StartSecrets(c)
       \/ (\E images \in {Pinned, Drifted} : FinishRuntimeImages(images))
       \/ FinishSecrets \/ FailPreparation
    /\ OutsidePlan

Deploy ==
    /\ \/ Idle /\ \E c \in Commits : StartDeployment(c)
       \/ CopyBundle \/ CopyInputs \/ CompileDeployment \/ BeginApply
       \/ LoadArtifacts \/ AllowPlanned \/ DeleteStaleRules
       \/ RemoveStaleToken \/ StartRetained \/ CheckHealth
       \/ Armed \/ Generated \/ DeliverToken \/ StartAgent \/ AuditAgent \/ FailBlock
       \/ Quiesce \/ Cleaned \/ ResumeAgent \/ AwaitResumed \/ Retained \/ AuditAlias
       \/ PruneEntries \/ ReconcileEntries \/ AuditEntries \/ StartService
       \/ FinishApply \/ ProbeInitial \/ RestartService \/ SignProbe \/ VerifyProbe
       \/ StopDeployment \/ FailRestart
    /\ UNCHANGED accVars

Remote ==
    /\ \/ \E s \in Slots : HelperRuns(s)
       \/ \E r \in Roles : Attest(r)
       \/ FinishAttestation
    /\ UNCHANGED accVars

Accept ==
    \/ Idle /\ \E c \in Commits : BeginAcceptance(c)
    \/ CollectBefore \/ Baseline \/ InstallPartition \/ InstallTimesOut \/ CheckDenial \/ FailPartition
    \/ CheckAbsence \/ ReadFails \/ CheckRestored \/ CollectAfter \/ WriteReport \/ AbortAcceptance
    \/ LateInsertion

Disturb ==
    /\ disturbances < MaxDisturbances
    /\ disturbances' = disturbances + 1
    /\ \/ /\ (\E c \in Commits : SwitchCommit(c)) \/ EditWorktree \/ RestoreWorktree
          /\ OutsideCheckout
       \/ /\ \/ ReplaceDaemon \/ PruneImages \/ KillBuild
             \/ \E i \in store : TagImage(i)
             \/ \E b \in ForeignBundles \cup {Nothing} : b # bundle /\ SwapBundle(b)
          /\ OutsideBuild
       \/ /\ \/ RunDownCredentials \/ KillPreparation
             \/ \E r \in {Nothing, Drifted}, s \in {Nothing} \cup Commits :
                    (r # runtime \/ s # secrets) /\ ReplaceInputs(r, s)
          /\ OutsidePlan
       \/ (KillDeployment \/ \E r \in Roles : DriftFirewall(r) \/ AgentRestarts(r)) /\ UNCHANGED accVars
       \/ KillAcceptance

PipelineNext ==
    \/ (Build \/ Prepare \/ Deploy \/ Remote \/ Accept) /\ UNCHANGED disturbances
    \/ Disturb

PipelineSpec == PipelineInit /\ [][PipelineNext]_pipelineVars

----
TypeOK ==
    /\ CheckoutTypeOK /\ BuilderTypeOK /\ PlanTypeOK /\ TokenTypeOK
    /\ DeploymentTypeOK /\ AcceptanceTypeOK
    /\ disturbances \in 0 .. MaxDisturbances

\* No helper process works on the role's attempt.
Quiet(r) == \A s \in Slots : helper[s].role # r

\* Once a role's bootstrap attempt is gone, however it ended, whatever was killed
\* in between and although an agent that could not be stopped and a token file that
\* could not be deleted go unnoticed, nothing is left that lets an unverified agent
\* in: no token on the host or in its agent's hands is still accepted, the server
\* finishes no attestation for it, and every agent it has for the role was audited
\* (cleanup revokes before it reconciles, and reconciles until absence is
\* stable; generate reads the attempt again under the lock).
BootstrapLeavesNoWayIn ==
    \A r \in Roles : attempts[r].state = "absent" /\ Quiet(r) =>
        /\ tokenFile[r] \notin live /\ asking[r] \notin live
        /\ attesting.role = r => attesting.token \in audited
        /\ svid[r] \in nodes => svid[r] \in audited

\* A signed probe names an image that holds exactly the files of the commit,
\* and when it is signed every host runs that image with the secrets made for
\* the commit, behind an audited agent, with exactly the managed entries, though
\* the daemon, the directories and the checkout moved under the commands.
ProbeIsTrue ==
    probe' # probe =>
        /\ probe'.image.content = probe'.commit
        /\ entries = {Planned}
        /\ \A r \in Roles : /\ host[r].running = probe'.image /\ host[r].secrets = probe'.commit
                            /\ aliases[r] \in nodes \cap audited

\* A campaign goes on from its reconciliation only when its rule is gone for
\* good: the gateway does not have it, and no insertion that timed out at the
\* controller can still bring it back.
PartitionIsOver ==
    acc.pc = "cleanup" /\ acc'.pc = "restored" => campaigns \notin partition' /\ inserting' = NoInsertion

\* What the pipeline concludes is true when it concludes it: the signed probe of
\* run_m4j_workload_probe.run_live_probe, and the end of the partition of
\* run_m4j_acceptance._reconcile_gateway_partition_absence.
EvidenceIsTrue == [][ProbeIsTrue /\ PartitionIsOver]_pipelineVars
==============================================================================
