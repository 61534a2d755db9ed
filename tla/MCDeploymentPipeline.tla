---- MODULE MCDeploymentPipeline ----
(***************************************************************************)
(* The deployment of the services, and the mutual TLS under which they     *)
(* serve once deployed.  A behaviour is about one of the two while the     *)
(* other has not begun.  Two commits, two roles, and the bundles of        *)
(* another invocation.                                                     *)
(***************************************************************************)
EXTENDS DeploymentPipeline, SpireMtls

CONSTANTS c1, c2

\* One commit that can be deployed, and one no command accepts.
MCFlaws == [c \in Commits |-> IF c = c1 THEN {} ELSE {"topology"}]

MCRoleOrder == <<"plant", "gateway">>

\* The image of another invocation of the same builder, label 0.
ForeignImage(c) == [revision |-> c, content |-> c, invocation |-> 0]

ForeignBundle(c, payload, expected, key) ==
    [accepted |-> TRUE, source |-> [commit |-> c, tree |-> c],
     image |-> [index |-> ForeignImage(c), payload |-> payload], profile |-> expected, signer |-> key]

\* A good bundle of the commit that can be deployed, from another invocation.
MCForeignBundles == {ForeignBundle(c1, ForeignImage(c1), ReviewedProfile, TrustedKey)}

\* Where one undisturbed build, preparation and deployment of c1 ends: a state
\* PipelineSpec reaches by itself, where the search begins a second time so that
\* what goes wrong only after a deployment has a short trace.
FirstImage == [revision |-> c1, content |-> c1, invocation |-> 1]
TokenOf == [r \in Roles |-> CHOOSE i \in 1 .. Len(RoleOrder) : RoleOrder[i] = r]

DeployedInit ==
    /\ head = c1 /\ worktree = c1
    /\ profile = ReviewedProfile /\ store = {FirstImage} /\ tagged = {} /\ build = NoBuild /\ builds = 1
    /\ bundle = [ForeignBundle(c1, FirstImage, ReviewedProfile, TrustedKey) EXCEPT !.image.index = FirstImage]
    /\ runtime = Pinned /\ secrets = c1 /\ low = FALSE /\ prepare = NoPreparation
    /\ attempts = [r \in Roles |-> NoAttempt] /\ helper = [s \in Slots |-> NoProcess]
    /\ inodes = Len(RoleOrder) /\ issued = Len(RoleOrder) /\ live = {} /\ attesting = NoAttestation
    /\ aliases = TokenOf /\ svid = TokenOf /\ nodes = 1 .. Len(RoleOrder) /\ audited = nodes
    /\ host = [r \in Roles |-> [image |-> FirstImage, secrets |-> c1, running |-> FirstImage]]
    /\ firewall = [r \in Roles |-> {Planned}] /\ entries = {Planned}
    /\ agentUp = [r \in Roles |-> TRUE]
    /\ tokenFile = [r \in Roles |-> NoToken] /\ asking = [r \in Roles |-> NoToken]
    /\ dep = NoDeployment /\ deployments = 1 /\ probe = [commit |-> c1, image |-> FirstImage]
    /\ AcceptanceInit /\ disturbances = 0

\* What a behaviour is about, and the one initial state of the other part.  A
\* deployment begins with the entries of an earlier one on the server.
VARIABLE about

ServicesInit ==
    /\ MtlsInit
    /\ \/ about = "deployment" /\ PipelineInit /\ entries = {Stale}
       \/ about = "deployment" /\ DeployedInit
       \/ about = "handshakes" /\ PipelineInit /\ head = c1 /\ entries = {}

ServicesNext ==
    \/ about = "deployment" /\ PipelineNext /\ UNCHANGED <<mtlsVars, about>>
    \/ about = "handshakes" /\ MtlsNext /\ UNCHANGED <<pipelineVars, about>>

ServicesSpec == ServicesInit /\ [][ServicesNext]_<<pipelineVars, mtlsVars, about>>
====
