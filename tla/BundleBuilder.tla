---- MODULE BundleBuilder ----
(***************************************************************************)
(* scripts/build_m4j_bundle.py: one invocation builds the application image *)
(* of one commit with the local Docker daemon and publishes a signed bundle *)
(* directory.  The daemon is not the builder's own: its execution profile   *)
(* can change under a build, its images can be tagged or removed by others, *)
(* and another invocation can publish to the same path first.               *)
(***************************************************************************)
EXTENDS SourceCheckout

CONSTANTS
    ReviewedProfile,  \* the daemon and BuildKit identity someone reviewed
    OtherProfile,     \* what it becomes when the daemon or a plugin is replaced
    TrustedKey,       \* the key deployments trust
    OtherKey,         \* a key they do not trust
    Nothing,          \* no file, no image, no record
    MaxBuilds         \* bound on the invocations of the builder

ASSUME BuilderAssumption ==
    /\ ReviewedProfile # OtherProfile
    /\ TrustedKey # OtherKey
    /\ MaxBuilds \in Nat

Profiles == {ReviewedProfile, OtherProfile}

\* An image is identified by its content: the revision label, the commit whose
\* files are really inside (Edited for a daemon that was not the reviewed one)
\* and the invocation label that makes every build's image its own.
Images == [revision : Commits, content : Commits \cup {Edited}, invocation : 0 .. MaxBuilds]

\* The two archives of a bundle: which commit the source archive names and
\* whose tree it holds, and which image the saved archive's index names and
\* whose config and layers it holds.
Sources == [commit : Commits, tree : Commits \cup {Edited}]
Archives == [index : Images, payload : Images \cup {Edited}]

\* A bundle directory: a plan-only one carries no image, no signature and is
\* not accepted.
Bundles == [accepted : BOOLEAN, source : Sources, image : Archives \cup {Nothing},
            profile : Profiles \cup {Nothing}, signer : {TrustedKey, OtherKey, Nothing}]

VARIABLES
    profile,   \* the live daemon's execution profile
    store,     \* its images
    tagged,    \* those someone gave a tag
    bundle,    \* the published bundle directory
    build,     \* the invocation in progress
    builds     \* invocations so far, the source of invocation labels

builderVars == <<profile, store, tagged, bundle, build, builds>>

NoBuild == [pc |-> "idle", planOnly |-> FALSE, commit |-> Nothing, key |-> Nothing,
            expected |-> Nothing, image |-> Nothing, archive |-> Nothing]

BuilderTypeOK ==
    /\ profile \in Profiles
    /\ store \subseteq Images /\ tagged \subseteq store
    /\ bundle \in Bundles \cup {Nothing}
    /\ build.pc \in {"idle", "boundary", "export", "build", "save", "verify", "recheck",
                    "publish", "sync"}
    /\ builds \in 0 .. MaxBuilds

BuilderInit ==
    /\ profile = ReviewedProfile
    /\ store = {} /\ tagged = {}
    /\ bundle = Nothing
    /\ build = NoBuild
    /\ builds = 0

----
(* What the invocation reads. *)

\* _builder_execution_profile through the closed boundary: the client, plugin,
\* socket, daemon and BuildKit nodes, compared as one value.
ProfileIs(expected) == profile = expected

\* _closed_docker_boundary: the staged client and plugin are exact copies of
\* the pinned ones, and the socket belongs to the daemon.
BoundaryOpens == ProfileIs(build.expected)

\* _require_docker_boundary_unchanged: the same identities after the build.
BoundaryUnchanged == ProfileIs(build.expected)

\* _inspect_image: the daemon still has the image, with the commit's revision
\* label and this invocation's label.
ImageInspects(i) == i \in store /\ i.revision = build.commit /\ i.invocation = builds

\* _build_and_save_image, the buildx call: what the daemon loads.
BuiltImage ==
    [revision |-> build.commit,
     content |-> IF profile = ReviewedProfile THEN build.commit ELSE Edited,
     invocation |-> builds]

\* _validate_source_archive_binding: the pax header names the commit, and the
\* members make up exactly the commit's tree.
SourceArchiveBound(source, c) == source.commit = c /\ source.tree = c

\* _verify_docker_archive_payloads: config and layers have the digests the
\* index gives them.
PayloadsVerify(archive) == archive.payload = archive.index

\* The config's labels and platform are those of the commit's build, and the
\* archive holds nothing that the config does not lead to.
LabelsHold(i, c) == i.revision = c

\* _validate_saved_image_archive: identity, payloads and labels.
ArchiveHolds(archive, i, c) ==
    archive.index = i /\ PayloadsVerify(archive) /\ LabelsHold(i, c)

\* _resolve_commit and _read_git_commit_binding: a reference becomes one commit
\* and that commit's tree, once.
CommitBinding(c) == [commit |-> c, tree |-> c]

\* _manifest with _sign_builder_attestation: the bundle this invocation signs.
BundleOf(b) ==
    [accepted |-> ~b.planOnly,
     source |-> CommitBinding(b.commit),
     image |-> b.archive,
     profile |-> IF b.planOnly THEN Nothing ELSE b.expected,
     signer |-> IF b.planOnly THEN Nothing ELSE b.key]

----
(* The steps of build_bundle. *)

\* _docker_invocation_image_ids and _cleanup_invocation_owned_image: an image
\* of this invocation goes, unless someone tagged it meanwhile.
ImagesOwned == {i \in store : i.invocation = builds /\ builds # 0}

StoreAfterCleanup == store \ (ImagesOwned \ tagged)

\* The exception path: own images are removed, then the private staging.  The
\* removal can fail as well, and the image stays.
FailBuild ==
    /\ build.pc \notin {"idle", "sync"}
    /\ store' \in {StoreAfterCleanup, store}
    /\ build' = NoBuild
    /\ UNCHANGED <<profile, tagged, bundle, builds>>

\* _validate_output_target, the signer and _resolve_commit: the path must be
\* free, and a reference is resolved once, to a commit.
StartBuild(c, planOnly, key, expected) ==
    /\ build.pc = "idle" /\ builds < MaxBuilds
    /\ bundle = Nothing
    /\ builds' = builds + 1
    /\ build' = [pc |-> IF planOnly THEN "export" ELSE "boundary", planOnly |-> planOnly,
                 commit |-> c, key |-> key, expected |-> expected, image |-> Nothing,
                 archive |-> Nothing]
    /\ UNCHANGED <<profile, store, tagged, bundle>>

OpenBoundary ==
    /\ build.pc = "boundary"
    /\ BoundaryOpens
    /\ build' = [build EXCEPT !.pc = "export"]
    /\ UNCHANGED <<profile, store, tagged, bundle, builds>>

\* _export_source and the bindings: git archive of the commit, never of the
\* worktree; its topology and base image hold, and the running helper is the
\* archived one.
ExportSource ==
    /\ build.pc = "export"
    /\ TopologyHolds(build.commit) /\ HelperIsArchived(build.commit)
    /\ SourceArchiveBound(BundleOf(build).source, build.commit)
    /\ build' = [build EXCEPT !.pc = IF build.planOnly THEN "publish" ELSE "build"]
    /\ UNCHANGED <<profile, store, tagged, bundle, builds>>

BuildImage ==
    /\ build.pc = "build"
    /\ store' = store \cup {BuiltImage}
    /\ build' = [build EXCEPT !.pc = "save", !.image = BuiltImage]
    /\ UNCHANGED <<profile, tagged, bundle, builds>>

\* The image is inspected and saved by its id; an interrupted save leaves other
\* payloads behind.
SaveImage(payload) ==
    /\ build.pc = "save"
    /\ ImageInspects(build.image)
    /\ build' = [build EXCEPT !.pc = "verify",
                  !.archive = [index |-> build.image, payload |-> payload]]
    /\ UNCHANGED <<profile, store, tagged, bundle, builds>>

\* _canonicalize_saved_image_archive and the second validation: the archive is
\* rewritten to its reachable members, read back, and the image inspected again.
VerifyArchive ==
    /\ build.pc = "verify"
    /\ ArchiveHolds(build.archive, build.image, build.commit) /\ ImageInspects(build.image)
    /\ build' = [build EXCEPT !.pc = "recheck"]
    /\ UNCHANGED <<profile, store, tagged, bundle, builds>>

\* The last look at the daemon and the helper, after the image was saved.
TrustUnchanged == BoundaryUnchanged /\ HelperIsArchived(build.commit)

RecheckBuilder ==
    /\ build.pc = "recheck"
    /\ TrustUnchanged
    /\ build' = [build EXCEPT !.pc = "publish"]
    /\ UNCHANGED <<profile, store, tagged, bundle, builds>>

\* _publish_directory_noreplace: an atomic rename that refuses an existing path.
PathIsFree == bundle = Nothing

PublishBundle ==
    /\ build.pc = "publish"
    /\ PathIsFree
    /\ bundle' = BundleOf(build)
    /\ build' = [build EXCEPT !.pc = "sync"]
    /\ UNCHANGED <<profile, store, tagged, builds>>

\* The parent's fsync: when it fails the caller is told so, and nothing of a
\* published bundle is taken back.
FinishBuild ==
    /\ build.pc = "sync"
    /\ build' = NoBuild
    /\ UNCHANGED <<profile, store, tagged, bundle, builds>>

\* The process is killed: no handler runs, the staging and the image stay.
KillBuild ==
    /\ build.pc # "idle"
    /\ build' = NoBuild
    /\ UNCHANGED <<profile, store, tagged, bundle, builds>>

----
(* What others do to the daemon and the path. *)

ReplaceDaemon ==
    /\ profile = ReviewedProfile
    /\ profile' = OtherProfile
    /\ UNCHANGED <<store, tagged, bundle, build, builds>>

TagImage(i) ==
    /\ i \in store \ tagged
    /\ tagged' = tagged \cup {i}
    /\ UNCHANGED <<profile, store, bundle, build, builds>>

PruneImages ==
    /\ store # tagged
    /\ store' = tagged
    /\ UNCHANGED <<profile, tagged, bundle, build, builds>>

\* Another invocation's bundle, with invocation label 0, takes the free path,
\* or the directory at the path is moved away.
SwapBundle(b) ==
    /\ bundle' = b
    /\ UNCHANGED <<profile, store, tagged, build, builds>>
====
