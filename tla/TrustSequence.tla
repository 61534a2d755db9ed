----------------------------- MODULE TrustSequence -----------------------------
(***************************************************************************)
(* Workload identity: the administration of the trust bundle, and the      *)
(* verification of credentials against it.                                 *)
(*                                                                         *)
(* Administration keeps the signed trust bundle with its sequence number   *)
(* and revocations, and one published credential file per peer.            *)
(* rotate_credential replaces two files, one after the other;              *)
(* revoke_credential replaces one.  An operator may also put an earlier    *)
(* bundle file back.                                                       *)
(*                                                                         *)
(* Each verification reads the bundle file, and only then enters the       *)
(* transaction that orders it against the highest sequence any verifier    *)
(* on the same state directory has admitted.  The directory holds a stable *)
(* lock file and a checkpoint that is replaced through a temporary file.   *)
(* The threads of a verifier share its in-process lock and memory.         *)
(***************************************************************************)
EXTENDS Naturals

CONSTANTS
    Peers,         \* the published credential files, one per role
    Credentials,   \* signed credentials, told apart by their credential_id
    FirstOf,       \* the credential initialize() publishes for each peer
    NoRotation,
    MaxClock       \* bound: publications after initialisation

ASSUME AdminAssumption ==
    /\ FirstOf \in [Peers -> Credentials]
    /\ \A p, q \in Peers : FirstOf[p] = FirstOf[q] => p = q
    /\ NoRotation \notin [peer : Peers, cred : Credentials]
    /\ MaxClock \in Nat

VARIABLES
    bundle,      \* the trust bundle file
    credFile,    \* the credential file of each peer
    rotation,    \* the rotation whose bundle is out and whose credential is not
    clock,       \* administration time: one instant per publication
    issued,      \* history: the credentials that were ever in a file
    published,   \* history: every bundle that was ever in the file
    latest,      \* history: the bundle administration published last
    forked       \* history: it published on top of a bundle that was put back

adminVars ==
    <<bundle, credFile, rotation, clock, issued, published, latest, forked>>

Revocations == [cred : Credentials, at : Nat]

\* `issued` stands for bundle_id and issued_at: no two publications share it.
Bundles == [seq : Nat \ {0}, issued : Nat, revoked : SUBSET Revocations]

AdminTypeOK ==
    /\ bundle \in Bundles
    /\ credFile \in [Peers -> Credentials]
    /\ rotation \in [peer : Peers, cred : Credentials] \cup {NoRotation}
    /\ clock \in Nat
    /\ issued \subseteq Credentials
    /\ published \subseteq Bundles
    /\ latest \in Bundles
    /\ forked \in BOOLEAN

FirstBundle == [seq |-> 1, issued |-> 0, revoked |-> {}]

AdminInit ==
    /\ bundle = FirstBundle
    /\ credFile = FirstOf
    /\ rotation = NoRotation
    /\ clock = 1
    /\ issued = {FirstOf[p] : p \in Peers}
    /\ published = {FirstBundle}
    /\ latest = FirstBundle
    /\ forked = FALSE

AlreadyRevoked(c) == \E r \in bundle.revoked : r.cred = c

\* Faulty variant: revoking a second time moves the time of the revocation.
NextBundleRestamped(c) ==
    [seq     |-> bundle.seq + 1,
     issued  |-> clock,
     revoked |-> {r \in bundle.revoked : r.cred # c}
                     \cup {[cred |-> c, at |-> clock]}]

(***************************************************************************)
(* _next_bundle: one more than the sequence in the file, and c among the   *)
(* revocations.  A revocation that is already there keeps its time.        *)
(***************************************************************************)
NextBundle(c) ==
    [seq     |-> bundle.seq + 1,
     issued  |-> clock,
     revoked |-> IF AlreadyRevoked(c)
                 THEN bundle.revoked
                 ELSE bundle.revoked \cup {[cred |-> c, at |-> clock]}]

(***************************************************************************)
(* Under the publication lock: read the bundle file, check it against      *)
(* expected_sequence when the operator gave one (pinned), replace it.      *)
(***************************************************************************)
Publish(c, pinned) ==
    /\ rotation = NoRotation
    /\ clock <= MaxClock
    /\ pinned => bundle.seq = latest.seq
    /\ bundle' = NextBundle(c)
    /\ clock' = clock + 1
    /\ published' = published \cup {bundle'}
    /\ latest' = bundle'
    /\ forked' = (forked \/ bundle # latest)

\* rotate_credential up to its first replace: a new bundle, the old credential.
RotateBundle(p, c, pinned) ==
    /\ c \notin issued
    /\ Publish(credFile[p], pinned)
    /\ rotation' = [peer |-> p, cred |-> c]
    /\ UNCHANGED <<credFile, issued>>

\* Its second replace.
RotateCredential ==
    /\ rotation # NoRotation
    /\ credFile' = [credFile EXCEPT ![rotation.peer] = rotation.cred]
    /\ issued' = issued \cup {rotation.cred}
    /\ rotation' = NoRotation
    /\ UNCHANGED <<bundle, clock, published, latest, forked>>

\* The administration process dies, or fails, between the two.
RotationCut ==
    /\ rotation # NoRotation
    /\ rotation' = NoRotation
    /\ UNCHANGED <<bundle, credFile, clock, issued, published, latest, forked>>

RevokeCredential(p, pinned) ==
    /\ ~AlreadyRevoked(credFile[p])
    /\ Publish(credFile[p], pinned)
    /\ UNCHANGED <<credFile, rotation, issued>>

\* The operator puts an earlier bundle file back.
RestoreBundle(b) ==
    /\ b \in published \ {bundle}
    /\ bundle' = b
    /\ UNCHANGED <<credFile, rotation, clock, issued, published, latest, forked>>

AdminNext ==
    \/ \E p \in Peers, c \in Credentials, pinned \in BOOLEAN :
          RotateBundle(p, c, pinned)
    \/ RotateCredential
    \/ RotationCut
    \/ \E p \in Peers, pinned \in BOOLEAN : RevokeCredential(p, pinned)
    \/ \E b \in published : RestoreBundle(b)

--------------------------------------------------------------------------------
(***************************************************************************)
(* Verification.                                                           *)
(***************************************************************************)
CONSTANTS
    Threads,      \* threads that verify credentials
    Verifiers,    \* WorkloadIdentityVerifier instances on one state directory
    VerifierOf,   \* the verifier each thread uses
    NoThread,
    NoBundle,
    NoQuestion,
    MaxFaults     \* bound: crashes and failed reads, writes and unlocks

Modes == {"current", "historical"}

\* A credential, to be valid now or at a retained time of admission (`at` is
\* 0 and unused when mode is "current").
Questions == [cred : Credentials, mode : Modes, at : Nat]

ASSUME SequenceAssumption ==
    /\ VerifierOf \in [Threads -> Verifiers]
    /\ NoThread \notin Threads
    /\ NoBundle \notin Bundles
    /\ NoQuestion \notin Questions
    /\ MaxFaults \in Nat

VARIABLES
    pc,           \* where each thread is
    held,         \* the bundle it read
    asked,        \* the question it last accepted
    high,         \* the highest bundle admitted, in each verifier's memory
    poisoned,     \* verifiers that refuse everything
    checkpoint,   \* the checkpoint file: the highest bundle, or NoBundle
    lockFile,     \* the stable lock file exists
    temp,         \* a temporary checkpoint file exists
    owner,        \* the thread that holds the file lock
    admitted,     \* history: the bundles that were admitted
    faults

storeVars == <<high, poisoned, checkpoint, lockFile, temp, owner, admitted, faults>>
threadVars == <<pc, asked, held>>
vars == <<adminVars, threadVars, storeVars>>

Steps == {"idle", "loaded", "create", "lock", "locked", "write",
          "replaced", "admitted", "accepted"}

TypeOK ==
    /\ AdminTypeOK
    /\ pc \in [Threads -> Steps]
    /\ asked \in [Threads -> Questions \cup {NoQuestion}]
    /\ held \in [Threads -> Bundles \cup {NoBundle}]
    /\ high \in [Verifiers -> Bundles \cup {NoBundle}]
    /\ poisoned \subseteq Verifiers
    /\ checkpoint \in Bundles \cup {NoBundle}
    /\ lockFile \in BOOLEAN
    /\ temp \in BOOLEAN
    /\ owner \in Threads \cup {NoThread}
    /\ admitted \subseteq Bundles
    /\ faults \in 0..MaxFaults

Init ==
    /\ AdminInit
    /\ pc = [t \in Threads |-> "idle"]
    /\ asked = [t \in Threads |-> NoQuestion]
    /\ held = [t \in Threads |-> NoBundle]
    /\ high = [v \in Verifiers |-> NoBundle]
    /\ poisoned = {}
    /\ checkpoint = NoBundle
    /\ lockFile = FALSE
    /\ temp = FALSE
    /\ owner = NoThread
    /\ admitted = {}
    /\ faults = 0

--------------------------------------------------------------------------------
Goto(t, l) == pc' = [pc EXCEPT ![t] = l]

\* The verification ends, and the file lock is freed if the thread has it.
Release(t) ==
    /\ held' = [held EXCEPT ![t] = NoBundle]
    /\ owner' = IF owner = t THEN NoThread ELSE owner

\* It ends with an error.
Fail(t) ==
    /\ Goto(t, "idle")
    /\ Release(t)
    /\ UNCHANGED asked

Fault == faults < MaxFaults /\ faults' = faults + 1

\* A bundle that is behind h, or another bundle with its sequence number.
RolledBack(b, h) == h # NoBundle /\ b.seq < h.seq
Equivocated(b, h) == h # NoBundle /\ b.seq = h.seq /\ b # h
Behind(b, h) == RolledBack(b, h) \/ Equivocated(b, h)

\* _trusted_bundle reads the file before any lock is taken.  (A bundle that is
\* missing, out of date or not rooted in configured trust ends it right here.)
LoadBundle(t) ==
    /\ pc[t] \in {"idle", "accepted"}
    /\ held' = [held EXCEPT ![t] = bundle]
    /\ asked' = [asked EXCEPT ![t] = NoQuestion]
    /\ Goto(t, "loaded")
    /\ UNCHANGED storeVars

InTransaction == {"create", "lock", "locked", "write", "replaced", "admitted"}

\* self._lock and the store's _thread_lock, both held up to the verdict.
ThreadLockFree(v) == \A t \in Threads : VerifierOf[t] = v => pc[t] \notin InTransaction

\* _classify_layout: an empty directory may be initialised, one with both files
\* may be used, and anything between the two is refused.
LayoutEmpty == checkpoint = NoBundle /\ ~lockFile
LayoutReady == checkpoint # NoBundle /\ lockFile

\* In-process ordering, the poison flag and the layout, before the file lock.
EnterTransaction(t) ==
    LET v == VerifierOf[t] IN
    /\ pc[t] = "loaded"
    /\ ThreadLockFree(v)
    /\ ~Behind(held[t], high[v])
    /\ v \notin poisoned
    /\ \/ LayoutEmpty /\ Goto(t, "create")
       \/ LayoutReady /\ Goto(t, "lock")
    /\ UNCHANGED <<asked, held, storeVars>>

RefuseEntry(t) ==
    LET v == VerifierOf[t] IN
    /\ pc[t] = "loaded"
    /\ ThreadLockFree(v)
    /\ \/ Behind(held[t], high[v])
       \/ v \in poisoned
       \/ ~LayoutEmpty /\ ~LayoutReady
    /\ Fail(t)
    /\ UNCHANGED <<high, poisoned, checkpoint, lockFile, temp, admitted, faults>>

\* _open_lock in a directory seen empty: O_EXCL lets one creator through.
CreateLock(t) ==
    /\ pc[t] = "create"
    /\ ~lockFile
    /\ lockFile' = TRUE
    /\ Goto(t, "lock")
    /\ UNCHANGED <<asked, held, high, poisoned, checkpoint, temp, owner,
                   admitted, faults>>

LoseCreation(t) ==
    /\ pc[t] = "create"
    /\ lockFile
    /\ Fail(t)
    /\ UNCHANGED <<high, poisoned, checkpoint, lockFile, temp, admitted, faults>>

AcquireLock(t) ==
    /\ pc[t] = "lock"
    /\ owner = NoThread
    /\ owner' = t
    /\ Goto(t, "locked")
    /\ UNCHANGED <<asked, held, high, poisoned, checkpoint, lockFile, temp,
                   admitted, faults>>

LockTimeout(t) ==
    /\ pc[t] = "lock"
    /\ owner # NoThread
    /\ Fail(t)
    /\ UNCHANGED <<high, poisoned, checkpoint, lockFile, temp, admitted, faults>>

\* Faulty variants: the directory entries are not checked under the lock; an
\* equal sequence number is enough; only the verifier's memory is consulted.
EntriesUnchecked == TRUE
OrderedBySequence(t) == ~RolledBack(held[t], checkpoint)
OrderedInProcess(t) == ~Behind(held[t], high[VerifierOf[t]])

\* _require_entries: no file but the lock and, unless bootstrapping, the
\* checkpoint.
EntriesExpected == ~temp

\* The bundle is ordered after the checkpoint and the verifier's memory.
Ordered(t) ==
    /\ ~Behind(held[t], checkpoint)
    /\ ~Behind(held[t], high[VerifierOf[t]])

Refused(t) == ~EntriesExpected \/ ~Ordered(t)

\* There is no checkpoint yet, or the bundle is newer.
Advances(t) == checkpoint # NoBundle => held[t].seq > checkpoint.seq

\* The bundle advances the checkpoint: _write_locked creates its temporary file.
StartWrite(t) ==
    /\ pc[t] = "locked"
    /\ ~Refused(t)
    /\ Advances(t)
    /\ temp' = TRUE
    /\ Goto(t, "write")
    /\ UNCHANGED <<asked, held, high, poisoned, checkpoint, lockFile, owner,
                   admitted, faults>>

\* The bundle is the one of the checkpoint.
AdmitKnown(t) ==
    /\ pc[t] = "locked"
    /\ ~Refused(t)
    /\ ~Advances(t)
    /\ high' = [high EXCEPT ![VerifierOf[t]] = held[t]]
    /\ admitted' = admitted \cup {held[t]}
    /\ Goto(t, "admitted")
    /\ UNCHANGED <<asked, held, poisoned, checkpoint, lockFile, temp, owner,
                   faults>>

RefuseBundle(t) ==
    /\ pc[t] = "locked"
    /\ Refused(t)
    /\ Fail(t)
    /\ UNCHANGED <<high, poisoned, checkpoint, lockFile, temp, admitted, faults>>

\* os.replace: the temporary file becomes the checkpoint.
ReplaceCheckpoint(t) ==
    /\ pc[t] = "write"
    /\ checkpoint' = held[t]
    /\ temp' = FALSE
    /\ Goto(t, "replaced")
    /\ UNCHANGED <<asked, held, high, poisoned, lockFile, owner, admitted,
                   faults>>

\* The directory is synced, the read-back agrees and the entries are as expected.
AdmitWritten(t) ==
    /\ pc[t] = "replaced"
    /\ high' = [high EXCEPT ![VerifierOf[t]] = held[t]]
    /\ admitted' = admitted \cup {held[t]}
    /\ Goto(t, "admitted")
    /\ UNCHANGED <<asked, held, poisoned, checkpoint, lockFile, temp, owner,
                   faults>>

\* A read, a write, the sync or the read-back fails: the instance is poisoned,
\* and a temporary file that was not renamed is removed.
StoreFails(t) ==
    /\ pc[t] \in {"locked", "write", "replaced"}
    /\ EntriesExpected \/ pc[t] # "locked"
    /\ Fault
    /\ poisoned' = poisoned \cup {VerifierOf[t]}
    /\ temp' = IF pc[t] = "write" THEN FALSE ELSE temp
    /\ Fail(t)
    /\ UNCHANGED <<high, checkpoint, lockFile, admitted>>

\* The revocation check: a credential presented now is denied by any listing,
\* a retained one by a listing that is not later than its admission.
Revoked(b, q) ==
    \E r \in b.revoked : r.cred = q.cred /\ (q.mode = "current" \/ r.at <= q.at)

\* What may be asked: any credential ever published, to be valid now or at a
\* time that is not in the future.  Nothing before the verdict depends on it.
Presentable ==
    [cred : issued, mode : {"current"}, at : {0}]
        \cup [cred : issued, mode : {"historical"}, at : 0..clock]

\* The verdict, under the lock.  The other checks (issuer, window, role,
\* subject, actor, audience) can only reject.  A failed unlock poisons.
Accept(t, q) ==
    /\ pc[t] = "admitted"
    /\ ~Revoked(held[t], q)
    /\ Goto(t, "accepted")
    /\ asked' = [asked EXCEPT ![t] = q]
    /\ Release(t)
    /\ UNCHANGED <<high, checkpoint, lockFile, temp, admitted>>

Reject(t) ==
    /\ pc[t] = "admitted"
    /\ Fail(t)
    /\ UNCHANGED <<high, checkpoint, lockFile, temp, admitted>>

Decide(t) ==
    /\ \/ \E q \in Presentable : Accept(t, q)
       \/ Reject(t)
    /\ \/ UNCHANGED <<poisoned, faults>>
       \/ Fault /\ poisoned' = poisoned \cup {VerifierOf[t]}

\* The verifier's process dies and is started again: its memory is gone, the
\* kernel frees its lock, and the files stay as they are.
Crash(v) ==
    /\ Fault
    /\ pc' = [t \in Threads |-> IF VerifierOf[t] = v THEN "idle" ELSE pc[t]]
    /\ asked' = [t \in Threads |-> IF VerifierOf[t] = v THEN NoQuestion ELSE asked[t]]
    /\ held' = [t \in Threads |-> IF VerifierOf[t] = v THEN NoBundle ELSE held[t]]
    /\ high' = [high EXCEPT ![v] = NoBundle]
    /\ poisoned' = poisoned \ {v}
    /\ owner' = IF owner # NoThread /\ VerifierOf[owner] = v THEN NoThread ELSE owner
    /\ UNCHANGED <<checkpoint, lockFile, temp, admitted>>

ThreadStep(t) ==
    \/ LoadBundle(t)
    \/ EnterTransaction(t)
    \/ RefuseEntry(t)
    \/ CreateLock(t)
    \/ LoseCreation(t)
    \/ AcquireLock(t)
    \/ LockTimeout(t)
    \/ StartWrite(t)
    \/ AdmitKnown(t)
    \/ RefuseBundle(t)
    \/ ReplaceCheckpoint(t)
    \/ AdmitWritten(t)
    \/ StoreFails(t)
    \/ Decide(t)

Next ==
    \/ AdminNext /\ UNCHANGED <<threadVars, storeVars>>
    \/ (\E t \in Threads : ThreadStep(t)) /\ UNCHANGED adminVars
    \/ (\E v \in Verifiers : Crash(v)) /\ UNCHANGED adminVars

Spec == Init /\ [][Next]_vars

--------------------------------------------------------------------------------
(***************************************************************************)
(* Admission never goes back: a bundle is admitted only when every bundle  *)
(* admitted before, by any verifier and in any earlier process, has a      *)
(* lower sequence number or is that very bundle.  The bundle is read       *)
(* before the lock, so a newer one may have been admitted in between.      *)
(***************************************************************************)
AdmissionInOrder ==
    [][\A b \in admitted' \ admitted :
          \A a \in admitted : a.seq < b.seq]_vars

(***************************************************************************)
(* What a verifier relies on has reached the disk: while a verdict is      *)
(* open, the bundle it is taken under is the checkpoint, so no concurrent  *)
(* verifier can admit a newer revocation before the verdict is out.        *)
(***************************************************************************)
VerdictUnderCheckpoint ==
    \A t \in Threads : pc[t] = "admitted" => checkpoint = held[t] /\ owner = t

(***************************************************************************)
(* Revocation is permanent: unless administration published on top of a    *)
(* bundle that was put back, no verification accepts a credential that     *)
(* some bundle admitted earlier denies it; a retained admission is judged  *)
(* by the time of the first revocation, however often it is repeated.      *)
(***************************************************************************)
RevocationIsPermanent ==
    [][\A t \in Threads :
          pc[t] = "admitted" /\ pc'[t] = "accepted" /\ ~forked =>
             \A b \in admitted : ~Revoked(b, asked'[t])]_vars

(***************************************************************************)
(* The directory is unusable: a temporary file, or a lock file without a   *)
(* checkpoint, that no running thread accounts for.                        *)
(***************************************************************************)
Wedged ==
    \/ temp /\ \A t \in Threads : pc[t] # "write"
    \/ /\ lockFile /\ checkpoint = NoBundle
       /\ \A t \in Threads : pc[t] \notin {"lock", "locked", "write"}

(***************************************************************************)
(* Only a crash or a failed write wedges the directory, never verifiers    *)
(* that race to initialise or advance it; and once wedged it stays so: the *)
(* code neither repairs it nor initialises it again, and nothing is        *)
(* admitted any more.                                                      *)
(***************************************************************************)
WedgedForGood ==
    [][/\ Wedged' => faults' > 0
       /\ Wedged => Wedged' /\ admitted' = admitted]_vars

================================================================================
