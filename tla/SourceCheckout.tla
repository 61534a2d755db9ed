---- MODULE SourceCheckout ----
(***************************************************************************)
(* The Git checkout every deployment command is run from.  A commit is a    *)
(* name; the tracked files are those of one commit, or Edited when someone  *)
(* changed them in place.  Each command takes its own copy of the commit's  *)
(* blobs and reads the checkout again at the places its code does, so that  *)
(* whatever moves between two reads is a step of the environment here.      *)
(***************************************************************************)
EXTENDS Naturals, FiniteSets

\* The parts of the committed topology, deployment and workload contracts that
\* some command validates on its own.
ContractParts ==
    {"topology", "roles", "listeners", "edges", "policy", "bindings", "bootstrap",
     "registrations", "services", "inputs", "state", "mtls"}

CONSTANTS
    Commits,   \* the commits of the repository
    Flaws,     \* commit -> the parts of its contracts that are wrong
    Edited     \* the content of a checkout someone changed in place

ASSUME SourceAssumption ==
    /\ Flaws \in [Commits -> SUBSET ContractParts]
    /\ Edited \notin Commits

VARIABLES
    head,      \* what HEAD resolves to
    worktree   \* whose blobs the tracked files hold

checkoutVars == <<head, worktree>>

CheckoutTypeOK == head \in Commits /\ worktree \in Commits \cup {Edited}

CheckoutInit == head \in Commits /\ worktree = head

\* _require_worktree_matches_head: every tracked path, read without following
\* links, holds the bytes and the mode of HEAD's blob.
WorktreeMatchesHead == worktree = head

\* _require_exact_orchestrator_source: HEAD is the requested commit, fsck
\* accepts it, status is clean and the files are the commit's.
ExactSource(c) == head = c /\ WorktreeMatchesHead

\* _stable_head_source: the private copy a deployment runs from holds the
\* blobs of the commit itself, whatever the checkout holds by then.
HeadSourceCopy(c) == c

\* run_m4j_acceptance._source_binding: the commits the runner can bind its
\* evidence to, none for a checkout that is not clean.
SourceBinding == {c \in Commits : c = head /\ worktree = head}

\* The helper script on disk is the one the commit archives; every commit of
\* the model has the same helper, an edited checkout has another.
HelperIsArchived(c) == worktree # Edited

----
(* The contracts.  Each command reads the committed files and refuses the     *)
(* commit when a part it validates is wrong; not every command validates all. *)

Unflawed(c, parts) == Flaws[c] \cap parts = {}

\* build_m4j_bundle._validate_m4j_topology: six exact nodes, networks, addresses.
TopologyHolds(c) == Unflawed(c, {"topology"})

\* validate_m4j_deployment._validate_topology, the validator's own copy.
NetworksHold(c) == Unflawed(c, {"topology"})

\* _expected_deployment: hosts, listeners, permitted edges and policy all follow
\* from the topology; the file is compared with them field by field.
RolesFollow(c) == Unflawed(c, {"roles"})
ListenersFollow(c) == Unflawed(c, {"listeners"})
EdgesFollow(c) == Unflawed(c, {"edges"})
PolicyFollows(c) == Unflawed(c, {"policy"})

\* _validate_semantics: listeners on their interfaces, edges inside network
\* membership, no way around the gateway.
SemanticsHold(c) == Unflawed(c, {"roles", "listeners", "edges"})

\* validate_m4j_deployment.validate.
DeploymentHolds(c) ==
    /\ NetworksHold(c)
    /\ RolesFollow(c) /\ ListenersFollow(c) /\ EdgesFollow(c) /\ PolicyFollows(c)
    /\ SemanticsHold(c)

\* validate_m4j_workloads._validate_contract, part by part: the digests of the
\* two files above and the image pins, the one-time node bootstrap, the
\* registrations, the services, what each service is given, where the trust
\* sequence state is mounted, and the mutual-TLS peers of every edge.
BindingsHold(c) == Unflawed(c, {"bindings"})
BootstrapHolds(c) == Unflawed(c, {"bootstrap"})
RegistrationsHold(c) == Unflawed(c, {"registrations"})
ServicesHold(c) == Unflawed(c, {"services"})
InputsHold(c) == Unflawed(c, {"inputs"})
StateMountsHold(c) == Unflawed(c, {"state"})
MtlsEdgesHold(c) == Unflawed(c, {"mtls"})

ContractHolds(c) ==
    /\ DeploymentHolds(c) /\ BindingsHold(c) /\ BootstrapHolds(c) /\ RegistrationsHold(c)
    /\ ServicesHold(c) /\ InputsHold(c) /\ StateMountsHold(c) /\ MtlsEdgesHold(c)

----
\* git switch: HEAD and the tracked files move together.
SwitchCommit(c) == c # head /\ head' = c /\ worktree' = c

\* An editor, or a tool, changes tracked files and leaves HEAD alone.
EditWorktree == worktree # Edited /\ worktree' = Edited /\ UNCHANGED head

\* git restore: the tracked files are those of HEAD again.
RestoreWorktree == worktree # head /\ worktree' = head /\ UNCHANGED head
====
