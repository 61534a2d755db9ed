--------------------------- MODULE ProvisionedPackages ---------------------------
(***************************************************************************)
(* How degraded-mode trust reaches a runtime: the two generations of the   *)
(* provisioning command (prepare_m5_degraded_artifacts.py and, after it,   *)
(* prepare_m5_degraded_publication.py).  A command binds the clean         *)
(* checkout, verifies and reads the packages it derives from, stages a new *)
(* package next to its destination, verifies it there and renames it into  *)
(* place without replacing anything.  Commands run in several terminals,   *)
(* and the operator moves whole packages about while they run, so that a   *)
(* directory a command verified need not be the one it reads from next.    *)
(*                                                                         *)
(* Everything one command generates has one number: the root and leaf      *)
(* keys, the credential and the lease of an authority; the lease of a      *)
(* first-generation bundle; a reversal; a healthy status.  A file holds    *)
(* the number of the command whose material it is.                         *)
(***************************************************************************)
EXTENDS SourceCheckout, Sequences, Functions, TLC

CONSTANTS
    Places,       \* directory names the packages are kept under, numbered
    Terminals,    \* where commands run
    Grounds,      \* degraded conditions an operator may provision for
    LeaseLife,    \* lifetime of a lease, and of the credential it is bound to
    Earlier,      \* authorities provisioned before the behaviour begins, at most
    MaxJobs,      \* bound on commands
    MaxMoves,     \* bound on directories moved, commits switched and hours passed
    NoPackage, Idle

ASSUME PackagesAssumption ==
    /\ Places \subseteq Nat /\ 1..Earlier \subseteq Places
    /\ LeaseLife \in Nat /\ MaxJobs \in Nat /\ MaxMoves \in Nat
    /\ Earlier \in Nat
    /\ "healthy" \notin Grounds

VARIABLES
    tool,       \* the generation in use: "artifacts", then "publication"
    shelf,      \* the package under each place
    job,        \* the command in each terminal
    issued,     \* what the commands generated, in order
    hour,       \* the clock
    jobs,       \* commands begun
    moves,      \* directories moved, commits switched and hours passed
    published,  \* directories renamed into place
    reported,   \* packages a command reported as created
    leftover    \* packages in the staging directories of killed commands

packageVars == <<checkoutVars, tool, shelf, job, issued, hour, jobs, moves, published, reported,
                 leftover>>

(***************************************************************************)
(* Packages.                                                               *)
(***************************************************************************)
Kinds == IF tool = "artifacts" THEN {"authority", "runtime", "reversal"}
         ELSE {"authority", "runtime", "publisher", "reversal", "status"}

\* What the gateway is given to trust: the root, and the lease it signed.
TrustFiles == IF tool = "artifacts" THEN {"rootPublic", "lease"}
              ELSE {"rootPublic", "credential", "lease"}

\* The exact payload of each kind, apart from its manifest.
PayloadOf(kind) ==
    CASE kind = "authority" ->
           {"rootPrivate", "rootPublic"} \cup
           (IF tool = "artifacts" THEN {} ELSE {"leafPrivate", "credential", "lease", "status"})
      [] kind = "runtime" -> TrustFiles \cup (IF tool = "artifacts" THEN {"snapshot", "state"} ELSE {})
      [] kind = "publisher" -> TrustFiles \cup {"leafPrivate", "status"}
      [] kind = "reversal" -> {"reversal"}
      [] kind = "status" -> {"status"}

\* _package_manifest: the kind, the source, and the digest of every file.
ManifestOf(kind, source, files) == [kind |-> kind, source |-> source, files |-> files]

PackageOf(kind, source, files) == [files |-> files, manifest |-> ManifestOf(kind, source, files)]

\* _package_directory: the directory holds the files of its kind, no other.
ExactDirectory(p, kind) == shelf[p] # NoPackage /\ DOMAIN shelf[p].files = PayloadOf(kind)

\* _validate_manifest: the manifest is the one its payload calls for.
ManifestHolds(kind, files, manifest) == manifest = ManifestOf(kind, manifest.source, files)

\* _require_credential_authorization_binding: one root signed both, and the
\* lease names the credential; for the first generation only the signature.
TrustHolds(files) ==
    /\ issued[files.lease].root = files.rootPublic
    /\ tool = "publication" => files.lease = files.credential

\* _require_credential_source_binding
CredentialSourceHolds(files, source) == issued[files.credential].source = source

\* _require_status_authorization_binding
StatusFits(files) == issued[files.status].condition = issued[files.lease].condition

\* The lease does not outlive its credential.
LeaseWithinCredential(files) ==
    /\ issued[files.credential].from <= issued[files.lease].from
    /\ issued[files.lease].until <= issued[files.credential].until

\* _load_authority: the root key pair under its metadata.  The first generation
\* does not compare the authority's source with the checkout.
RootHolds(files, manifest) ==
    /\ ManifestHolds("authority", files, manifest)
    /\ files.rootPrivate = files.rootPublic

\* _verify_authority_package
AuthorityHolds(files, manifest, source) ==
    /\ RootHolds(files, manifest)
    /\ tool = "publication" =>
         /\ files.leafPrivate = files.credential
         /\ TrustHolds(files) /\ StatusFits(files) /\ LeaseWithinCredential(files)
         /\ CredentialSourceHolds(files, manifest.source)
         /\ manifest.source = source

\* _verify_bundle_directory: the lease is signed by the bundled root and is
\* for the bundled snapshot, under the source the command is bound to.
BundleHolds(files, manifest, source) ==
    /\ ManifestHolds("runtime", files, manifest)
    /\ manifest.source = source
    /\ TrustHolds(files)
    /\ files.snapshot = files.lease /\ files.state = files.lease

\* _verify_runtime_package
RuntimeHolds(files, manifest, source) ==
    IF tool = "artifacts" THEN BundleHolds(files, manifest, source)
    ELSE /\ ManifestHolds("runtime", files, manifest)
         /\ TrustHolds(files)
         /\ CredentialSourceHolds(files, manifest.source)
         /\ manifest.source = source

\* _verify_publisher_package
PublisherHolds(files, manifest, source) ==
    /\ ManifestHolds("publisher", files, manifest)
    /\ TrustHolds(files) /\ StatusFits(files)
    /\ files.leafPrivate = files.credential
    /\ CredentialSourceHolds(files, manifest.source)
    /\ manifest.source = source

\* A first-generation reversal falls within the lease, a later one only after
\* its beginning.
ReversalTimeHolds(at, lease) ==
    /\ issued[lease].from <= at
    /\ tool = "artifacts" => at <= issued[lease].until

\* _verify_reversal_directory and _verify_reversal_package, against the runtime
\* package as it was read.
ReversalHolds(files, manifest, runtime, source) ==
    LET reversal == issued[files.reversal]
    IN  /\ ManifestHolds("reversal", files, manifest)
        /\ manifest.source = source
        /\ tool = "publication" => CredentialSourceHolds(runtime, source)
        /\ reversal.names = runtime.lease /\ reversal.root = runtime.rootPublic
        /\ ReversalTimeHolds(reversal.from, runtime.lease)

\* _verify_healthy_status_package
StatusHolds(files, manifest, runtime, source) ==
    LET status == issued[files.status]
    IN  /\ ManifestHolds("status", files, manifest)
        /\ manifest.source = source /\ CredentialSourceHolds(runtime, source)
        /\ status.condition = "healthy"
        /\ issued[runtime.credential].from <= status.from
        /\ status.until <= issued[runtime.credential].until

(***************************************************************************)
(* Reading.  A pass reads the files of one directory, each once.  Someone  *)
(* may come between two of them, and a pass then has early and late names: *)
(* a third part would need more than MaxMoves moves to tell apart.         *)
(* Verifying passes check the directory first and what they read           *)
(* afterwards, the others take what they find.                             *)
(***************************************************************************)
Verify(where) == [where |-> where, names |-> PayloadOf(where) \cup {"manifest"}, verify |-> TRUE]
Take(where, names) == [where |-> where, names |-> names, verify |-> FALSE]

\* Which directories a command of each kind is pointed at.
InputsOf(kind) ==
    CASE kind = "authority" -> {}
      [] kind = "publisher" -> {"authority"}
      [] kind = "runtime" -> {"authority"}
      [] kind = "status" -> {"runtime"}
      [] kind = "reversal" -> {"authority", "runtime"}

\* The reads of each command before it generates anything.  The first
\* generation uses what it verified of its authority.
InputPasses(kind) ==
    CASE kind = "authority" -> <<>>
      [] kind \in {"runtime", "publisher"} ->
           IF tool = "artifacts" THEN <<Verify("authority")>>
           ELSE <<Verify("authority"), Take("authority", PayloadOf(kind))>>
      [] kind = "status" -> <<Verify("runtime"), Take("runtime", TrustFiles)>>
      [] kind = "reversal" ->
           <<Verify("authority"), Verify("runtime")>> \o
           (IF tool = "artifacts" THEN <<>>
            ELSE <<Take("authority", TrustFiles \cup {"rootPrivate"})>>) \o
           <<Take("runtime", TrustFiles)>>

\* Verifying a reversal or a status reads the runtime package once more.
CheckPasses(kind) ==
    IF "runtime" \in InputsOf(kind) THEN <<Verify("runtime"), Take("runtime", TrustFiles)>> ELSE <<>>

\* The first generation verifies a bundle or a reversal again where it was
\* published.
FinalPasses(kind) ==
    IF tool = "artifacts" /\ kind # "authority"
    THEN <<[Verify(kind) EXCEPT !.where = "output"]>> \o CheckPasses(kind)
    ELSE <<>>

NothingRead == [name \in {} |-> 0]

PlaceOf(j, where) == IF where = "output" THEN j.out ELSE j.at[where]

\* The kind a directory has to be of.
KindAt(j, where) == IF where = "output" THEN j.kind ELSE where

ReadingPass(t) == job[t] # Idle /\ job[t].todo # <<>>

Directory(t) == PlaceOf(job[t], Head(job[t].todo).where)

\* A pass begins with what is in the directory; a verifying one looks at the
\* directory first.
PassMayBegin(t) ==
    LET pass == Head(job[t].todo) IN
    /\ shelf[Directory(t)] # NoPackage
    /\ pass.verify => ExactDirectory(Directory(t), KindAt(job[t], pass.where))

PassBegins(t) ==
    /\ ReadingPass(t) /\ job[t].seen = NoPackage /\ PassMayBegin(t)
    /\ job' = [job EXCEPT ![t].seen = shelf[Directory(t)]]
    /\ UNCHANGED <<checkoutVars, tool, shelf, issued, hour, jobs, moves, published, reported, leftover>>

ContentOf(package, n) == IF n = "manifest" THEN package.manifest ELSE package.files[n]

\* _read_private_file, once for every name: early names were read from the
\* directory as it was, the others from what is there now.  A later generation
\* reads the manifest after the payload.
ReadFiles(t, early) ==
    LET names == Head(job[t].todo).names
        now == shelf[Directory(t)]
    IN  [n \in names |-> ContentOf(IF n \in early THEN job[t].seen ELSE now, n)]

CanRead(package, names) ==
    names # {} => package # NoPackage /\ names \subseteq DOMAIN package.files \cup {"manifest"}

Splits(t) ==
    LET names == Head(job[t].todo).names
        now == shelf[Directory(t)]
    IN  {early \in (IF now = job[t].seen THEN {names} ELSE SUBSET names) :
           /\ CanRead(job[t].seen, early) /\ CanRead(now, names \ early)
           /\ tool = "publication" /\ "manifest" \in early => early = names}

PayloadRead(got) == [n \in DOMAIN got \ {"manifest"} |-> got[n]]

\* What a verifying pass of this kind of directory accepts.
PassHolds(j, got) ==
    LET pass == Head(j.todo)
        files == PayloadRead(got)
    IN  pass.verify =>
          CASE KindAt(j, pass.where) = "authority" -> AuthorityHolds(files, got.manifest, j.source)
            [] KindAt(j, pass.where) = "runtime" -> RuntimeHolds(files, got.manifest, j.source)
            [] OTHER -> ManifestHolds(j.kind, files, got.manifest) /\ got.manifest.source = j.source

\* A later generation keeps nothing of what it verified and reads it again.
PassEnds(t) ==
    /\ ReadingPass(t) /\ job[t].seen # NoPackage
    /\ \E early \in Splits(t) :
         LET pass == Head(job[t].todo)
             got == ReadFiles(t, early)
             keeps == tool = "artifacts" \/ ~pass.verify
         IN  /\ PassHolds(job[t], got)
             /\ job' = [job EXCEPT ![t].held = IF keeps THEN (pass.where :> PayloadRead(got)) @@ @ ELSE @,
                                   ![t].todo = Tail(@), ![t].seen = NoPackage]
    /\ UNCHANGED <<checkoutVars, tool, shelf, issued, hour, jobs, moves, published, reported, leftover>>

\* The command prints an error and removes what it staged (_cleanup_staging).
Abandon(t) ==
    /\ job' = [job EXCEPT ![t] = Idle]
    /\ UNCHANGED <<checkoutVars, tool, shelf, issued, hour, jobs, moves, published, reported, leftover>>

\* A file is missing, or what was read does not verify.
PassFails(t) ==
    /\ ReadingPass(t)
    /\ IF job[t].seen = NoPackage THEN ~PassMayBegin(t)
       ELSE \/ Splits(t) = {} \/ shelf[Directory(t)] = NoPackage
            \/ \E early \in Splits(t) : ~PassHolds(job[t], ReadFiles(t, early))
    /\ Abandon(t)

(***************************************************************************)
(* Commands.                                                               *)
(***************************************************************************)
\* The place a command in progress was pointed at.
Named(p) == \E t \in Terminals : job[t] # Idle /\ (p = job[t].out \/ p \in Range(job[t].at))

\* Unused names are alike: whoever needs one takes the first.
NewNames ==
    LET unused == {p \in Places : shelf[p] = NoPackage /\ ~Named(p)}
    IN  {p \in unused : \A q \in unused : p <= q}

\* _assert_clean_source: HEAD, clean, is what the package will be bound to.
BeginCommand(t, kind, out, at) ==
    /\ job[t] = Idle /\ jobs < MaxJobs
    /\ kind \in Kinds /\ out \in NewNames \cup {p \in Places : shelf[p] # NoPackage \/ Named(p)}
    /\ at \in [InputsOf(kind) -> {p \in Places \ {out} : shelf[p] # NoPackage}]
    /\ ExactSource(head)
    /\ jobs' = jobs + 1
    /\ job' = [job EXCEPT ![t] =
                 [kind |-> kind, out |-> out, at |-> at, source |-> head, phase |-> "inputs",
                  todo |-> InputPasses(kind), seen |-> NoPackage, held |-> NothingRead,
                  staged |-> NoPackage]]
    /\ UNCHANGED <<checkoutVars, tool, shelf, issued, hour, moves, published, reported, leftover>>

Next1 == Len(issued) + 1

Fresh(root, source, names, condition) ==
    [root |-> root, source |-> source, names |-> names, from |-> hour, until |-> hour + LeaseLife,
     condition |-> condition]

\* _provisioning_material and create_authority: fresh keys and what they sign.
AuthorityMaterial(j, condition) ==
    [made |-> <<Fresh(Next1, j.source, Next1, condition)>>,
     files |-> [n \in PayloadOf("authority") |-> Next1]]

\* _bundle_material: the root that was loaded signs a lease for a snapshot.
BundleMaterial(j, condition) ==
    [made |-> <<Fresh(j.held.authority.rootPrivate, j.source, Next1, condition)>>,
     files |-> [n \in PayloadOf("runtime") |->
                  IF n = "rootPublic" THEN j.held.authority.rootPublic ELSE Next1]]

\* create_runtime_package and create_publisher_package copy the files they took.
CopiedMaterial(j) == [made |-> <<>>, files |-> j.held.authority]

\* The authority is the one the runtime package trusts.
SameTrust(j) ==
    IF tool = "artifacts" THEN j.held.authority.rootPublic = j.held.runtime.rootPublic
    ELSE /\ j.held.authority.rootPrivate = j.held.authority.rootPublic
         /\ \A n \in TrustFiles : j.held.authority[n] = j.held.runtime[n]

\* _reversal_material: the root signs the end of the lease that was taken.
ReversalMaterial(j) ==
    [made |-> <<Fresh(j.held.authority.rootPrivate, j.source, j.held.runtime.lease, "healthy")>>,
     files |-> [n \in {"reversal"} |-> Next1]]

\* create_reversal_package, before it signs.
MayReverse(j) == SameTrust(j) /\ ReversalTimeHolds(hour, j.held.runtime.lease)

\* create_healthy_status_package
StatusMaterial(j) ==
    [made |-> <<Fresh(j.held.runtime.rootPublic, j.source, j.held.runtime.credential, "healthy")>>,
     files |-> [n \in {"status"} |-> Next1]]

\* What the command can generate from what it holds, nothing when it refuses.
Materials(j) ==
    CASE j.kind = "authority" -> {AuthorityMaterial(j, c) : c \in Grounds}
      [] j.kind = "runtime" /\ tool = "artifacts" -> {BundleMaterial(j, c) : c \in Grounds}
      [] j.kind \in {"runtime", "publisher"} /\ tool = "publication" ->
           IF TrustHolds(j.held.authority) THEN {CopiedMaterial(j)} ELSE {}
      [] j.kind = "reversal" ->
           IF MayReverse(j) THEN {ReversalMaterial(j)} ELSE {}
      [] j.kind = "status" ->
           IF /\ TrustHolds(j.held.runtime)
              /\ issued[j.held.runtime.credential].from <= hour
              /\ hour + LeaseLife <= issued[j.held.runtime.credential].until
           THEN {StatusMaterial(j)} ELSE {}

ReadyToStage(t) == job[t] # Idle /\ job[t].phase = "inputs" /\ job[t].todo = <<>>

\* _open_safe_parent: the destination names nothing yet.
DestinationFree(j) == shelf[j.out] = NoPackage

\* _staging_directory and _write_file put the package beside it.
Stage(t, m) ==
    /\ ReadyToStage(t) /\ m \in Materials(job[t])
    /\ DestinationFree(job[t])
    /\ issued' = issued \o m.made
    /\ job' = [job EXCEPT ![t].staged = PackageOf(job[t].kind, job[t].source, m.files),
                          ![t].phase = "check", ![t].todo = CheckPasses(job[t].kind)]
    /\ UNCHANGED <<checkoutVars, tool, shelf, hour, jobs, moves, published, reported, leftover>>

\* The package a command last verified, and what that verification says.
Verified(j) ==
    IF "output" \in DOMAIN j.held THEN PackageOf(j.kind, j.source, j.held.output) ELSE j.staged

StagedHolds(j) ==
    LET files == Verified(j).files
        manifest == Verified(j).manifest
    IN  CASE j.kind = "authority" -> AuthorityHolds(files, manifest, j.source)
          [] j.kind = "runtime" -> RuntimeHolds(files, manifest, j.source)
          [] j.kind = "publisher" -> PublisherHolds(files, manifest, j.source)
          [] j.kind = "reversal" -> ReversalHolds(files, manifest, j.held.runtime, j.source)
          [] j.kind = "status" -> StatusHolds(files, manifest, j.held.runtime, j.source)

ReadyToPublish(t) == job[t] # Idle /\ job[t].phase = "check" /\ job[t].todo = <<>>

\* Faulty variant: a rename that replaces what it finds.
RenameOver(p) == TRUE

\* renameat2 with RENAME_NOREPLACE: the place is free at this very step.
NoReplace(p) == shelf[p] = NoPackage

\* _publish_directory_noreplace
Publish(t) ==
    /\ ReadyToPublish(t) /\ StagedHolds(job[t]) /\ NoReplace(job[t].out)
    /\ shelf' = [shelf EXCEPT ![job[t].out] = job[t].staged]
    /\ published' = published + 1
    /\ job' = [job EXCEPT ![t].phase = "final", ![t].todo = FinalPasses(job[t].kind)]
    /\ UNCHANGED <<checkoutVars, tool, issued, hour, jobs, moves, reported, leftover>>

\* The parent is synced and the command reports what it verified last.
Report(t) ==
    /\ job[t] # Idle /\ job[t].phase = "final" /\ job[t].todo = <<>>
    /\ StagedHolds(job[t])
    /\ reported' = reported \cup {Verified(job[t])}
    /\ job' = [job EXCEPT ![t] = Idle]
    /\ UNCHANGED <<checkoutVars, tool, shelf, issued, hour, jobs, moves, published, leftover>>

\* A refusal, or an operating-system error; after publishing, one of the final
\* sync or of the last verification, with the package in place.
CommandFails(t) ==
    /\ job[t] # Idle
    /\ \/ ReadyToStage(t) /\ (~DestinationFree(job[t]) \/ Materials(job[t]) = {})
       \/ ReadyToPublish(t) /\ (~StagedHolds(job[t]) \/ ~NoReplace(job[t].out))
       \/ job[t].phase = "final"
    /\ Abandon(t)

\* A kill leaves the staging directory behind.
KillCommand(t) ==
    /\ job[t] # Idle
    /\ leftover' = IF job[t].phase = "check" THEN leftover \cup {job[t].staged} ELSE leftover
    /\ job' = [job EXCEPT ![t] = Idle]
    /\ UNCHANGED <<checkoutVars, tool, shelf, issued, hour, jobs, moves, published, reported>>

(***************************************************************************)
(* Around the commands.                                                    *)
(***************************************************************************)
\* The operator renames a package.
MoveDirectory(p, q) ==
    /\ moves < MaxMoves /\ shelf[p] # NoPackage
    /\ q \in NewNames \cup {r \in Places : shelf[r] = NoPackage /\ Named(r)}
    /\ shelf' = [shelf EXCEPT ![p] = NoPackage, ![q] = shelf[p]]
    /\ moves' = moves + 1
    /\ UNCHANGED <<checkoutVars, tool, job, issued, hour, jobs, published, reported, leftover>>

HourPasses ==
    /\ moves < MaxMoves /\ moves' = moves + 1
    /\ hour' = hour + 1
    /\ UNCHANGED <<checkoutVars, tool, shelf, job, issued, jobs, published, reported, leftover>>

SourceMoves ==
    /\ \E c \in Commits : SwitchCommit(c)
    /\ moves < MaxMoves /\ moves' = moves + 1
    /\ UNCHANGED <<tool, shelf, job, issued, hour, jobs, published, reported, leftover>>

\* The material of an authority provisioned earlier.
EarlierMaterial(n, source, condition) ==
    [Fresh(n, source, n, condition) EXCEPT !.from = 0, !.until = LeaseLife]

EarlierAuthority(n) ==
    PackageOf("authority", issued[n].source, [f \in PayloadOf("authority") |-> n])

PackagesInit ==
    /\ CheckoutInit
    /\ tool \in {"artifacts", "publication"}
    /\ hour = 0 /\ jobs = 0 /\ moves = 0 /\ reported = {} /\ leftover = {}
    /\ job = [t \in Terminals |-> Idle]
    /\ \E k \in 0..Earlier : \E from \in [1..k -> Commits \X Grounds] :
         /\ published = k
         /\ issued = [n \in 1..k |-> EarlierMaterial(n, from[n][1], from[n][2])]
         /\ shelf = [p \in Places |-> IF p <= k THEN EarlierAuthority(p) ELSE NoPackage]

PackagesNext ==
    \/ HourPasses \/ SourceMoves
    \/ \E p, q \in Places : MoveDirectory(p, q)
    \/ \E t \in Terminals :
         \/ \E kind \in Kinds, out \in Places : \E at \in [InputsOf(kind) -> Places] :
              BeginCommand(t, kind, out, at)
         \/ PassBegins(t) \/ PassEnds(t) \/ PassFails(t)
         \/ ReadyToStage(t) /\ \E m \in Materials(job[t]) : Stage(t, m)
         \/ Publish(t) \/ Report(t) \/ CommandFails(t) \/ KillCommand(t)

PackagesSpec == PackagesInit /\ [][PackagesNext]_packageVars

(***************************************************************************)
(* Properties                                                              *)
(***************************************************************************)
\* A package in use says one thing: all of its trust comes from one authority,
\* issued for the source the package names; a reversal ends a lease of the
\* authority that signed it; and a private key is where it belongs.
Sound(package) ==
    LET kind == package.manifest.kind
        files == package.files
    IN  /\ package.manifest.files = files /\ DOMAIN files = PayloadOf(kind)
        /\ "rootPrivate" \in DOMAIN files => kind = "authority"
        /\ "leafPrivate" \in DOMAIN files => kind \in {"authority", "publisher"}
        /\ \A n \in DOMAIN files \ {"status"} :
             /\ kind \in {"authority", "publisher"} => files[n] = files.rootPublic
             /\ kind = "runtime" => issued[files[n]].root = files.rootPublic
        /\ tool = "publication" => \A n \in DOMAIN files : n = "status" \/ issued[files[n]].source = package.manifest.source
        /\ kind = "publisher" => StatusFits(files)
        /\ kind = "reversal" =>
             LET reversal == issued[files.reversal] IN
             /\ reversal.root = issued[reversal.names].root
             /\ ReversalTimeHolds(reversal.from, reversal.names)
             /\ tool = "publication" => issued[reversal.names].source = package.manifest.source

\* Whatever was moved, switched, killed or published meanwhile, every package
\* under a name is sound, none was ever replaced by another, and one that a
\* command reported is there.  About _publish_package, create_runtime_bundle
\* and the verifications on both sides of their staging.
PackagesHold ==
    /\ \A p \in Places : shelf[p] # NoPackage => Sound(shelf[p])
    /\ Cardinality({p \in Places : shelf[p] # NoPackage}) = published
    /\ \A package \in reported : \E p \in Places : shelf[p] = package
    /\ \A package \in leftover : "rootPrivate" \in DOMAIN package.files => package.manifest.kind = "authority"
==================================================================================
