-------------------------- MODULE TrustSequenceProofs --------------------------
(***************************************************************************)
(* Proofs about workload identity: TrustSequence, for any sets of peers,   *)
(* credentials, threads and verifiers and any number of publications and   *)
(* faults, and SpireMtls, for any callers, lifetimes and periods.          *)
(***************************************************************************)
EXTENDS TrustSequence, SpireMtls, FiniteSetTheorems, TLAPS

(***************************************************************************)
(* The inductive invariant.  The file lock serialises the threads from     *)
(* their check of the checkpoint to their verdict; what was admitted is    *)
(* at or below the checkpoint; and as long as administration builds on its *)
(* latest bundle, the revocations of published bundles grow with their     *)
(* sequence numbers.                                                       *)
(***************************************************************************)
Holding == {"locked", "write", "replaced", "admitted"}

LockHeld == \A t \in Threads : pc[t] \in Holding => owner = t

BundlesPublished ==
    /\ bundle \in published
    /\ latest \in published
    /\ \A t \in Threads : pc[t] \notin {"idle", "accepted"} => held[t] \in published
    /\ checkpoint # NoBundle => checkpoint \in published

AtOrBelow(b) == checkpoint # NoBundle /\ (b.seq < checkpoint.seq \/ b = checkpoint)

AdmittedBelow == admitted \subseteq published /\ \A b \in admitted : AtOrBelow(b)

WritesAdvance == \A t \in Threads : pc[t] = "write" => Advances(t)

WrittenIsHeld ==
    \A t \in Threads : pc[t] \in {"replaced", "admitted"} => checkpoint = held[t]

RevocationsGrow ==
    ~forked =>
        /\ \A b \in published : b.seq <= latest.seq
        /\ \A a, b \in published : a.seq <= b.seq => a.revoked \subseteq b.revoked

SeqInv ==
    /\ TypeOK
    /\ LockHeld
    /\ BundlesPublished
    /\ AdmittedBelow
    /\ WritesAdvance
    /\ WrittenIsHeld
    /\ RevocationsGrow

--------------------------------------------------------------------------------
LEMMA FirstBundleType == FirstBundle \in Bundles
BY DEF FirstBundle, Bundles

LEMMA InitSeqInv == Init => SeqInv
<1> SUFFICES ASSUME Init PROVE SeqInv
  OBVIOUS
<1>1. AdminTypeOK
  BY FirstBundleType, AdminAssumption DEF Init, AdminInit, AdminTypeOK
<1>2. TypeOK
  <2>1. pc \in [Threads -> Steps]
    BY DEF Init, Steps
  <2>2. /\ asked \in [Threads -> Questions \cup {NoQuestion}]
        /\ held \in [Threads -> Bundles \cup {NoBundle}]
        /\ high \in [Verifiers -> Bundles \cup {NoBundle}]
    BY DEF Init
  <2>3. /\ checkpoint \in Bundles \cup {NoBundle}
        /\ owner \in Threads \cup {NoThread}
    BY DEF Init
  <2>4. poisoned \subseteq Verifiers /\ admitted \subseteq Bundles
    BY DEF Init
  <2>5. lockFile \in BOOLEAN /\ temp \in BOOLEAN
    BY DEF Init
  <2>6. faults \in 0..MaxFaults
    BY SequenceAssumption DEF Init
  <2>7. QED
    BY <1>1, <2>1, <2>2, <2>3, <2>4, <2>5, <2>6 DEF TypeOK
<1>3. LockHeld /\ BundlesPublished /\ AdmittedBelow /\ WritesAdvance /\ WrittenIsHeld
  BY DEF Init, AdminInit, LockHeld, Holding, BundlesPublished, AdmittedBelow,
         WritesAdvance, WrittenIsHeld
<1>4. RevocationsGrow
  BY DEF Init, AdminInit, RevocationsGrow, FirstBundle
<1>5. QED
  BY <1>2, <1>3, <1>4 DEF SeqInv

(***************************************************************************)
(* A published bundle keeps the revocations of the one it replaces.        *)
(***************************************************************************)
LEMMA NextBundleFacts ==
    ASSUME AdminTypeOK, NEW c \in Credentials
    PROVE  /\ NextBundle(c) \in Bundles
           /\ NextBundle(c).seq = bundle.seq + 1
           /\ bundle.revoked \subseteq NextBundle(c).revoked
<1>1. bundle \in Bundles /\ clock \in Nat
  BY DEF AdminTypeOK
<1>2. bundle.seq + 1 \in Nat \ {0} /\ bundle.revoked \subseteq Revocations
  BY <1>1 DEF Bundles
<1>3. [cred |-> c, at |-> clock] \in Revocations
  BY <1>1 DEF Revocations
<1>4. QED
  BY <1>1, <1>2, <1>3 DEF NextBundle, Bundles

LEMMA PublishStep ==
    ASSUME SeqInv, NEW c \in Credentials, NEW pinned \in BOOLEAN, Publish(c, pinned)
    PROVE  /\ bundle' \in Bundles /\ clock' \in Nat /\ published' \subseteq Bundles
           /\ latest' \in Bundles /\ forked' \in BOOLEAN
           /\ published \subseteq published' /\ bundle' \in published'
           /\ latest' \in published'
           /\ RevocationsGrow'
<1>1. AdminTypeOK
  BY DEF SeqInv, TypeOK
<1>2. /\ bundle' \in Bundles
      /\ bundle'.seq = bundle.seq + 1
      /\ bundle.revoked \subseteq bundle'.revoked
  BY <1>1, NextBundleFacts DEF Publish
<1>3. /\ clock' \in Nat /\ published' = published \cup {bundle'} /\ latest' = bundle'
      /\ forked' = (forked \/ bundle # latest)
  BY <1>1 DEF Publish, AdminTypeOK
<1>4. RevocationsGrow'
  <2> SUFFICES ASSUME ~forked'
      PROVE  /\ \A b \in published' : b.seq <= latest'.seq
             /\ \A a, b \in published' : a.seq <= b.seq => a.revoked \subseteq b.revoked
    BY DEF RevocationsGrow
  <2>1. ~forked /\ bundle = latest
    BY <1>3
  <2>2. /\ \A b \in published : b.seq <= bundle.seq
        /\ \A a, b \in published : a.seq <= b.seq => a.revoked \subseteq b.revoked
        /\ bundle \in published
    BY <2>1 DEF SeqInv, RevocationsGrow, BundlesPublished
  <2>3. \A b \in published : b.seq \in Nat
    BY <1>1 DEF AdminTypeOK, Bundles
  <2>4. bundle.seq \in Nat
    BY <2>2, <2>3
  <2>5. \A b \in published : b.seq < bundle'.seq /\ b.revoked \subseteq bundle'.revoked
    <3> TAKE b \in published
    <3>1. b.seq <= bundle.seq /\ b.revoked \subseteq bundle.revoked
      BY <2>2
    <3>2. QED
      BY <3>1, <1>2, <2>3, <2>4
  <2>6. \A b \in published' : b.seq <= latest'.seq
    BY <1>2, <1>3, <2>3, <2>4, <2>5
  <2>7. \A a, b \in published' : a.seq <= b.seq => a.revoked \subseteq b.revoked
    <3> TAKE a, b \in published'
    <3>1. CASE b = bundle'
      BY <3>1, <1>3, <2>5
    <3>2. CASE b # bundle' /\ a = bundle'
      <4>1. b \in published
        BY <3>2, <1>3
      <4>2. b.seq < a.seq /\ b.seq \in Nat /\ a.seq \in Nat
        BY <4>1, <3>2, <2>5, <2>3, <2>4, <1>2
      <4>3. QED
        BY <4>2
    <3>3. CASE b # bundle' /\ a # bundle'
      BY <3>3, <1>3, <2>2
    <3>4. QED
      BY <3>1, <3>2, <3>3
  <2>8. QED
    BY <2>6, <2>7
<1>5. forked' \in BOOLEAN
  BY <1>3
<1>6. published' \subseteq Bundles
  BY <1>1, <1>2, <1>3 DEF AdminTypeOK
<1>7. QED
  BY <1>2, <1>3, <1>4, <1>5, <1>6

LEMMA AdminStepInv ==
    ASSUME SeqInv, AdminNext, UNCHANGED <<threadVars, storeVars>>
    PROVE  SeqInv'
<1> USE DEF SeqInv
<1>1. AdminTypeOK' /\ published \subseteq published' /\ bundle' \in published'
      /\ latest' \in published' /\ RevocationsGrow'
  <2>0. AdminTypeOK /\ bundle \in published /\ latest \in published
    BY DEF TypeOK, BundlesPublished
  <2>1. ASSUME NEW p \in Peers, NEW c \in Credentials, NEW pinned \in BOOLEAN,
               RotateBundle(p, c, pinned)
        PROVE  AdminTypeOK' /\ published \subseteq published' /\ bundle' \in published'
               /\ latest' \in published' /\ RevocationsGrow'
    <3>1. credFile[p] \in Credentials
      BY <2>0 DEF AdminTypeOK
    <3>2. Publish(credFile[p], pinned)
      BY <2>1 DEF RotateBundle
    <3>3. credFile' = credFile /\ issued' = issued
          /\ rotation' \in [peer : Peers, cred : Credentials]
      BY <2>1 DEF RotateBundle
    <3>4. QED
      BY <2>0, <3>1, <3>2, <3>3, PublishStep DEF AdminTypeOK
  <2>2. ASSUME NEW p \in Peers, NEW pinned \in BOOLEAN, RevokeCredential(p, pinned)
        PROVE  AdminTypeOK' /\ published \subseteq published' /\ bundle' \in published'
               /\ latest' \in published' /\ RevocationsGrow'
    <3>1. credFile[p] \in Credentials
      BY <2>0 DEF AdminTypeOK
    <3>2. Publish(credFile[p], pinned)
      BY <2>2 DEF RevokeCredential
    <3>3. credFile' = credFile /\ issued' = issued /\ rotation' = rotation
      BY <2>2 DEF RevokeCredential
    <3>4. QED
      BY <2>0, <3>1, <3>2, <3>3, PublishStep DEF AdminTypeOK
  <2>3. CASE RotateCredential
    <3>1. rotation \in [peer : Peers, cred : Credentials]
      BY <2>3, <2>0 DEF RotateCredential, AdminTypeOK
    <3>2. QED
      BY <2>3, <2>0, <3>1 DEF RotateCredential, AdminTypeOK, RevocationsGrow
  <2>4. CASE RotationCut
    BY <2>4, <2>0 DEF RotationCut, AdminTypeOK, RevocationsGrow
  <2>5. ASSUME NEW b \in published, RestoreBundle(b)
        PROVE  AdminTypeOK' /\ published \subseteq published' /\ bundle' \in published'
               /\ latest' \in published' /\ RevocationsGrow'
    BY <2>5, <2>0 DEF RestoreBundle, AdminTypeOK, RevocationsGrow
  <2>6. QED
    BY <2>1, <2>2, <2>3, <2>4, <2>5 DEF AdminNext
<1>2. TypeOK'
  BY <1>1 DEF TypeOK, threadVars, storeVars
<1>3. LockHeld' /\ WritesAdvance' /\ WrittenIsHeld'
  BY DEF LockHeld, WritesAdvance, Advances, WrittenIsHeld, threadVars, storeVars
<1>4. BundlesPublished' /\ AdmittedBelow'
  BY <1>1 DEF BundlesPublished, AdmittedBelow, AtOrBelow, threadVars, storeVars
<1>5. QED
  BY <1>1, <1>2, <1>3, <1>4

(***************************************************************************)
(* A verification that ends, whatever its verdict, frees the lock and      *)
(* leaves the checkpoint and what was admitted alone.                      *)
(***************************************************************************)
LEMMA ReleaseInv ==
    ASSUME SeqInv, NEW t \in Threads, NEW l \in {"idle", "accepted"},
           Goto(t, l), Release(t),
           asked' \in [Threads -> Questions \cup {NoQuestion}],
           poisoned' \subseteq Verifiers, faults' \in 0..MaxFaults, temp' \in BOOLEAN,
           UNCHANGED <<adminVars, high, checkpoint, lockFile, admitted>>
    PROVE  SeqInv'
<1> USE DEF SeqInv, Goto, Release
<1>1. TypeOK'
  <2>1. pc' \in [Threads -> Steps]
    BY DEF TypeOK, Steps
  <2>2. held' \in [Threads -> Bundles \cup {NoBundle}]
    BY DEF TypeOK
  <2>3. owner' \in Threads \cup {NoThread}
    BY DEF TypeOK
  <2>4. AdminTypeOK'
    BY DEF TypeOK, AdminTypeOK, adminVars
  <2>5. QED
    BY <2>1, <2>2, <2>3, <2>4 DEF TypeOK
<1>2. /\ pc'[t] = l
      /\ \A u \in Threads : u # t => pc'[u] = pc[u] /\ held'[u] = held[u]
  BY DEF TypeOK
<1>3. LockHeld'
  BY <1>2 DEF LockHeld, Holding
<1>4. BundlesPublished'
  BY <1>2 DEF BundlesPublished, adminVars
<1>5. AdmittedBelow' /\ RevocationsGrow'
  BY DEF AdmittedBelow, AtOrBelow, RevocationsGrow, adminVars
<1>6. WritesAdvance' /\ WrittenIsHeld'
  BY <1>2 DEF WritesAdvance, Advances, WrittenIsHeld
<1>7. QED
  BY <1>1, <1>3, <1>4, <1>5, <1>6

LEMMA FailInv ==
    ASSUME SeqInv, NEW t \in Threads, Fail(t),
           poisoned' \subseteq Verifiers, faults' \in 0..MaxFaults, temp' \in BOOLEAN,
           UNCHANGED <<adminVars, high, checkpoint, lockFile, admitted>>
    PROVE  SeqInv'
<1>1. asked' \in [Threads -> Questions \cup {NoQuestion}]
  BY DEF Fail, SeqInv, TypeOK
<1>2. QED
  BY <1>1, ReleaseInv DEF Fail

(***************************************************************************)
(* A step of one thread that neither writes the checkpoint nor admits.     *)
(***************************************************************************)
LEMMA MoveInv ==
    ASSUME SeqInv, NEW t \in Threads, NEW l \in Steps, Goto(t, l),
           l \in Holding => owner' = t,
           l # "idle" /\ l # "accepted" => held'[t] \in published,
           l = "write" => Advances(t)',
           l \in {"replaced", "admitted"} => checkpoint = held'[t],
           \A u \in Threads : u # t => held'[u] = held[u],
           owner' = owner \/ owner = NoThread,
           held' \in [Threads -> Bundles \cup {NoBundle}],
           asked' \in [Threads -> Questions \cup {NoQuestion}],
           high' \in [Verifiers -> Bundles \cup {NoBundle}],
           owner' \in Threads \cup {NoThread},
           lockFile' \in BOOLEAN, temp' \in BOOLEAN,
           admitted' \subseteq published, \A b \in admitted' : AtOrBelow(b),
           UNCHANGED <<adminVars, poisoned, checkpoint, faults>>
    PROVE  SeqInv'
<1> USE DEF SeqInv, Goto
<1>1. TypeOK'
  <2>1. pc' \in [Threads -> Steps]
    BY DEF TypeOK
  <2>2. AdminTypeOK'
    BY DEF TypeOK, AdminTypeOK, adminVars
  <2>3. admitted' \subseteq Bundles
    BY DEF TypeOK, AdminTypeOK
  <2>4. poisoned' \subseteq Verifiers /\ checkpoint' \in Bundles \cup {NoBundle}
        /\ faults' \in 0..MaxFaults
    BY DEF TypeOK
  <2>5. QED
    BY <2>1, <2>2, <2>3, <2>4 DEF TypeOK
<1>2. /\ pc'[t] = l
      /\ \A u \in Threads : u # t => pc'[u] = pc[u]
  BY DEF TypeOK
<1>3. LockHeld'
  <2> SUFFICES ASSUME NEW u \in Threads, pc'[u] \in Holding PROVE owner' = u
    BY DEF LockHeld
  <2>1. CASE u = t
    BY <2>1, <1>2
  <2>2. CASE u # t
    <3>1. owner = u
      BY <2>2, <1>2 DEF LockHeld
    <3>2. owner # NoThread
      BY <3>1, SequenceAssumption
    <3>3. QED
      BY <3>1, <3>2
  <2>3. QED
    BY <2>1, <2>2
<1>4. BundlesPublished'
  <2>1. \A u \in Threads : pc'[u] \notin {"idle", "accepted"} => held'[u] \in published
    BY <1>2 DEF BundlesPublished
  <2>2. QED
    BY <2>1 DEF BundlesPublished, adminVars
<1>5. AdmittedBelow' /\ RevocationsGrow'
  BY DEF AdmittedBelow, AtOrBelow, RevocationsGrow, adminVars
<1>6. WritesAdvance'
  BY <1>2 DEF WritesAdvance, Advances
<1>7. WrittenIsHeld'
  BY <1>2 DEF WrittenIsHeld
<1>8. QED
  BY <1>1, <1>3, <1>4, <1>5, <1>6, <1>7

(***************************************************************************)
(* Replacing the checkpoint: the writer holds the lock, so no other thread *)
(* relies on the one that is replaced.                                     *)
(***************************************************************************)
LEMMA ReplaceInv ==
    ASSUME SeqInv, NEW t \in Threads, ReplaceCheckpoint(t), UNCHANGED adminVars
    PROVE  SeqInv'
<1> USE DEF SeqInv, Goto, ReplaceCheckpoint
<1>1. /\ pc[t] = "write" /\ owner = t /\ Advances(t)
      /\ held[t] \in published /\ held[t] \in Bundles
  BY DEF LockHeld, Holding, WritesAdvance, BundlesPublished, TypeOK, AdminTypeOK
<1>2. \A u \in Threads : u # t => pc[u] \notin Holding
  BY <1>1 DEF LockHeld
<1>3. /\ pc'[t] = "replaced"
      /\ \A u \in Threads : u # t => pc'[u] = pc[u]
  BY DEF TypeOK
<1>4. TypeOK'
  <2>1. pc' \in [Threads -> Steps]
    BY DEF TypeOK, Steps
  <2>2. AdminTypeOK'
    BY DEF TypeOK, AdminTypeOK, adminVars
  <2>3. checkpoint' \in Bundles \cup {NoBundle}
    BY <1>1
  <2>4. temp' \in BOOLEAN
    OBVIOUS
  <2>5. QED
    BY <2>1, <2>2, <2>3, <2>4 DEF TypeOK
<1>5. LockHeld'
  BY <1>1, <1>2, <1>3 DEF LockHeld, Holding
<1>6. BundlesPublished'
  BY <1>1, <1>3 DEF BundlesPublished, adminVars
<1>7. AdmittedBelow'
  <2>1. held[t] # NoBundle
    BY <1>1, SequenceAssumption
  <2>2. ASSUME NEW b \in admitted PROVE b.seq < held[t].seq
    <3>1. checkpoint # NoBundle /\ (b.seq < checkpoint.seq \/ b = checkpoint)
      BY DEF AdmittedBelow, AtOrBelow
    <3>2. checkpoint.seq < held[t].seq
      BY <1>1, <3>1 DEF Advances, TypeOK, Bundles
    <3>3. b.seq \in Nat /\ checkpoint.seq \in Nat /\ held[t].seq \in Nat
      BY <1>1, <3>1 DEF TypeOK, Bundles
    <3>4. QED
      BY <3>1, <3>2, <3>3
  <2>3. QED
    BY <2>1, <2>2 DEF AdmittedBelow, AtOrBelow, adminVars
<1>8. WritesAdvance' /\ WrittenIsHeld'
  BY <1>2, <1>3 DEF WritesAdvance, WrittenIsHeld, Holding
<1>9. RevocationsGrow'
  BY DEF RevocationsGrow, adminVars
<1>10. QED
  BY <1>4, <1>5, <1>6, <1>7, <1>8, <1>9

LEMMA CrashInv ==
    ASSUME SeqInv, NEW v \in Verifiers, Crash(v), UNCHANGED adminVars
    PROVE  SeqInv'
<1> USE DEF SeqInv, Crash
<1>1. \A u \in Threads :
         pc'[u] # "idle" => pc'[u] = pc[u] /\ held'[u] = held[u] /\ VerifierOf[u] # v
  OBVIOUS
<1>2. TypeOK'
  <2>1. pc' \in [Threads -> Steps]
    BY DEF TypeOK, Steps
  <2>2. held' \in [Threads -> Bundles \cup {NoBundle}]
    BY DEF TypeOK
  <2>3. asked' \in [Threads -> Questions \cup {NoQuestion}]
    BY DEF TypeOK
  <2>4. high' \in [Verifiers -> Bundles \cup {NoBundle}]
    BY DEF TypeOK
  <2>5. owner' \in Threads \cup {NoThread} /\ poisoned' \subseteq Verifiers
    BY DEF TypeOK
  <2>6. faults' \in 0..MaxFaults
    BY SequenceAssumption DEF TypeOK, Fault
  <2>7. AdminTypeOK'
    BY DEF TypeOK, AdminTypeOK, adminVars
  <2>8. QED
    BY <2>1, <2>2, <2>3, <2>4, <2>5, <2>6, <2>7 DEF TypeOK
<1>3. LockHeld'
  <2> SUFFICES ASSUME NEW u \in Threads, pc'[u] \in Holding PROVE owner' = u
    BY DEF LockHeld
  <2>1. pc[u] \in Holding /\ VerifierOf[u] # v
    BY <1>1 DEF Holding
  <2>2. owner = u
    BY <2>1 DEF LockHeld
  <2>3. QED
    BY <2>1, <2>2
<1>4. BundlesPublished'
  BY <1>1 DEF BundlesPublished, adminVars
<1>5. AdmittedBelow' /\ RevocationsGrow'
  BY DEF AdmittedBelow, AtOrBelow, RevocationsGrow, adminVars
<1>6. WritesAdvance' /\ WrittenIsHeld'
  BY <1>1 DEF WritesAdvance, Advances, WrittenIsHeld
<1>7. QED
  BY <1>2, <1>3, <1>4, <1>5, <1>6

(***************************************************************************)
(* A bundle that passes the ordering check without advancing the           *)
(* checkpoint is the checkpoint.                                           *)
(***************************************************************************)
LEMMA KnownIsCheckpoint ==
    ASSUME SeqInv, NEW t \in Threads, pc[t] = "locked", Ordered(t), ~Advances(t)
    PROVE  checkpoint = held[t] /\ checkpoint # NoBundle
<1>1. checkpoint # NoBundle /\ ~(held[t].seq > checkpoint.seq)
  BY DEF Advances
<1>2. held[t] \in Bundles /\ checkpoint \in Bundles
  BY <1>1 DEF SeqInv, TypeOK, AdminTypeOK, BundlesPublished
<1>3. held[t].seq \in Nat /\ checkpoint.seq \in Nat
  BY <1>2 DEF Bundles
<1>4. held[t].seq = checkpoint.seq
  BY <1>1, <1>3 DEF Ordered, Behind, RolledBack
<1>5. QED
  BY <1>1, <1>4 DEF Ordered, Behind, Equivocated

LEMMA ThreadStepInv ==
    ASSUME SeqInv, NEW t \in Threads, ThreadStep(t), UNCHANGED adminVars
    PROVE  SeqInv'
<1>0. /\ TypeOK /\ AdminTypeOK
      /\ pc[t] \notin {"idle", "accepted"} => held[t] \in published
      /\ admitted \subseteq published /\ \A b \in admitted : AtOrBelow(b)
      /\ pc[t] \in Holding => owner = t
  BY DEF SeqInv, TypeOK, BundlesPublished, AdmittedBelow, LockHeld
<1>1. CASE LoadBundle(t)
  <2>1. held'[t] = bundle /\ bundle \in published /\ bundle \in Bundles
    BY <1>1, <1>0 DEF LoadBundle, TypeOK, AdminTypeOK, SeqInv, BundlesPublished
  <2>2. held' \in [Threads -> Bundles \cup {NoBundle}]
        /\ asked' \in [Threads -> Questions \cup {NoQuestion}]
    BY <1>1, <1>0, <2>1 DEF LoadBundle, TypeOK
  <2>3. \A u \in Threads : u # t => held'[u] = held[u]
    BY <1>1, <1>0 DEF LoadBundle, TypeOK
  <2>4. Goto(t, "loaded") /\ UNCHANGED storeVars
    BY <1>1 DEF LoadBundle
  <2>5. QED
    BY <1>0, <2>1, <2>2, <2>3, <2>4, MoveInv DEF storeVars, Steps, Holding, TypeOK
<1>2. CASE EnterTransaction(t)
  <2>1. /\ Goto(t, "create") \/ Goto(t, "lock")
        /\ pc[t] = "loaded"
        /\ UNCHANGED <<asked, held, storeVars>>
    BY <1>2 DEF EnterTransaction
  <2>2. CASE Goto(t, "create")
    BY <1>0, <2>1, <2>2, MoveInv DEF storeVars, Steps, Holding, TypeOK
  <2>3. CASE Goto(t, "lock")
    BY <1>0, <2>1, <2>3, MoveInv DEF storeVars, Steps, Holding, TypeOK
  <2>4. QED
    BY <2>1, <2>2, <2>3
<1>3. CASE CreateLock(t)
  BY <1>0, <1>3, MoveInv DEF CreateLock, Steps, Holding, TypeOK
<1>4. CASE AcquireLock(t)
  BY <1>0, <1>4, MoveInv DEF AcquireLock, Steps, Holding, TypeOK
<1>5. CASE StartWrite(t)
  BY <1>0, <1>5, MoveInv DEF StartWrite, Advances, Steps, Holding, TypeOK
<1>6. CASE AdmitKnown(t)
  <2>1. checkpoint = held[t] /\ checkpoint # NoBundle
    BY <1>6, KnownIsCheckpoint DEF AdmitKnown, Refused
  <2>2. held[t] \in published /\ owner = t /\ held[t] \in Bundles
    BY <1>0, <1>6 DEF AdmitKnown, Holding, AdminTypeOK
  <2>3. admitted' \subseteq published /\ \A b \in admitted' : AtOrBelow(b)
    BY <1>0, <1>6, <2>1, <2>2 DEF AdmitKnown, AtOrBelow
  <2>4. high' \in [Verifiers -> Bundles \cup {NoBundle}]
    BY <1>0, <1>6, <2>2 DEF AdmitKnown, TypeOK
  <2>5. QED
    BY <1>0, <1>6, <2>1, <2>2, <2>3, <2>4, MoveInv
       DEF AdmitKnown, Steps, Holding, TypeOK
<1>7. CASE AdmitWritten(t)
  <2>1. held[t] \in published /\ owner = t /\ held[t] \in Bundles
    BY <1>0, <1>7 DEF AdmitWritten, Holding, AdminTypeOK
  <2>2. checkpoint = held[t] /\ checkpoint # NoBundle
    BY <1>7, <2>1, SequenceAssumption DEF AdmitWritten, SeqInv, WrittenIsHeld
  <2>3. admitted' \subseteq published /\ \A b \in admitted' : AtOrBelow(b)
    BY <1>0, <1>7, <2>1, <2>2 DEF AdmitWritten, AtOrBelow
  <2>4. high' \in [Verifiers -> Bundles \cup {NoBundle}]
    BY <1>0, <1>7, <2>1 DEF AdmitWritten, TypeOK
  <2>5. QED
    BY <1>0, <1>7, <2>1, <2>2, <2>3, <2>4, MoveInv
       DEF AdmitWritten, Steps, Holding, TypeOK
<1>8. CASE ReplaceCheckpoint(t)
  BY <1>8, ReplaceInv
<1>9. CASE RefuseEntry(t) \/ LoseCreation(t) \/ LockTimeout(t) \/ RefuseBundle(t)
  <2>1. Fail(t) /\ UNCHANGED <<high, poisoned, checkpoint, lockFile, temp, admitted,
                               faults>>
    BY <1>9 DEF RefuseEntry, LoseCreation, LockTimeout, RefuseBundle
  <2>2. QED
    BY <1>0, <2>1, FailInv DEF TypeOK
<1>10. CASE StoreFails(t)
  <2>1. poisoned' \subseteq Verifiers
    BY <1>0, <1>10, SequenceAssumption DEF StoreFails, TypeOK
  <2>2. faults' \in 0..MaxFaults
    BY <1>0, <1>10, SequenceAssumption DEF StoreFails, Fault, TypeOK
  <2>3. temp' \in BOOLEAN
    BY <1>0, <1>10 DEF StoreFails, TypeOK
  <2>4. Fail(t) /\ UNCHANGED <<high, checkpoint, lockFile, admitted>>
    BY <1>10 DEF StoreFails
  <2>5. QED
    BY <2>1, <2>2, <2>3, <2>4, FailInv
<1>11. CASE Decide(t)
  <2>1. poisoned' \subseteq Verifiers
    BY <1>0, <1>11, SequenceAssumption DEF Decide, TypeOK
  <2>2. faults' \in 0..MaxFaults
    BY <1>0, <1>11, SequenceAssumption DEF Decide, Fault, TypeOK
  <2>3. ASSUME NEW q \in Presentable, Accept(t, q) PROVE SeqInv'
    <3>1. q \in Questions
      BY <1>0 DEF Presentable, Questions, Modes, AdminTypeOK
    <3>2. asked' \in [Threads -> Questions \cup {NoQuestion}]
      BY <1>0, <2>3, <3>1 DEF Accept, TypeOK
    <3>3. /\ Goto(t, "accepted") /\ Release(t) /\ temp' \in BOOLEAN
          /\ UNCHANGED <<high, checkpoint, lockFile, admitted>>
      BY <1>0, <2>3 DEF Accept, TypeOK
    <3>4. QED
      BY <2>1, <2>2, <3>2, <3>3, ReleaseInv
  <2>4. CASE Reject(t)
    <3>1. Fail(t) /\ temp' \in BOOLEAN /\ UNCHANGED <<high, checkpoint, lockFile, admitted>>
      BY <1>0, <2>4 DEF Reject, TypeOK
    <3>2. QED
      BY <2>1, <2>2, <3>1, FailInv
  <2>5. QED
    BY <1>11, <2>3, <2>4 DEF Decide
<1>12. QED
  BY <1>1, <1>2, <1>3, <1>4, <1>5, <1>6, <1>7, <1>8, <1>9, <1>10, <1>11
     DEF ThreadStep

LEMMA StepInv ==
    ASSUME SeqInv, [Next]_vars
    PROVE  SeqInv'
<1>1. CASE AdminNext /\ UNCHANGED <<threadVars, storeVars>>
  BY <1>1, AdminStepInv
<1>2. CASE (\E t \in Threads : ThreadStep(t)) /\ UNCHANGED adminVars
  BY <1>2, ThreadStepInv
<1>3. CASE (\E v \in Verifiers : Crash(v)) /\ UNCHANGED adminVars
  BY <1>3, CrashInv
<1>4. CASE UNCHANGED vars
  BY <1>4 DEF vars, adminVars, threadVars, storeVars, SeqInv, TypeOK, AdminTypeOK,
              LockHeld, BundlesPublished, AdmittedBelow, AtOrBelow, WritesAdvance,
              Advances, WrittenIsHeld, RevocationsGrow
<1>5. QED
  BY <1>1, <1>2, <1>3, <1>4 DEF Next

(***************************************************************************)
(* The state of verification and administration is well typed and in order *)
(* at all times.                                                           *)
(***************************************************************************)
THEOREM SequenceInvariant == Spec => []SeqInv
<1>1. QED
  BY InitSeqInv, StepInv, PTL DEF Spec

(***************************************************************************)
(* While a verdict is open it is taken under the checkpoint and the lock.  *)
(***************************************************************************)
THEOREM VerdictsUnderCheckpoint == Spec => []VerdictUnderCheckpoint
<1>1. SeqInv => VerdictUnderCheckpoint
  BY DEF SeqInv, LockHeld, Holding, WrittenIsHeld, VerdictUnderCheckpoint
<1>2. QED
  BY <1>1, SequenceInvariant, PTL

(***************************************************************************)
(* Only AdmitKnown and AdmitWritten admit, and both admit the checkpoint.  *)
(***************************************************************************)
LEMMA AdmissionStep ==
    ASSUME SeqInv, [Next]_vars, NEW b \in admitted' \ admitted
    PROVE  b = checkpoint
<1>1. admitted' # admitted
  OBVIOUS
<1>2. PICK t \in Threads : AdmitKnown(t) \/ AdmitWritten(t)
  <2>1. ~(AdminNext /\ UNCHANGED <<threadVars, storeVars>>) /\ ~(UNCHANGED vars)
    BY <1>1 DEF storeVars, vars
  <2>2. ~(\E v \in Verifiers : Crash(v))
    BY <1>1 DEF Crash
  <2>3. PICK t \in Threads : ThreadStep(t)
    BY <2>1, <2>2 DEF Next
  <2>4. QED
    BY <1>1, <2>3
       DEF ThreadStep, LoadBundle, EnterTransaction, RefuseEntry, CreateLock,
           LoseCreation, AcquireLock, LockTimeout, StartWrite, RefuseBundle,
           ReplaceCheckpoint, StoreFails, Decide, Accept, Reject, storeVars
<1>3. b = held[t]
  BY <1>2 DEF AdmitKnown, AdmitWritten
<1>4. CASE AdmitKnown(t)
  BY <1>3, <1>4, KnownIsCheckpoint DEF AdmitKnown, Refused
<1>5. CASE AdmitWritten(t)
  BY <1>3, <1>5 DEF AdmitWritten, SeqInv, WrittenIsHeld
<1>6. QED
  BY <1>2, <1>4, <1>5

(***************************************************************************)
(* The order of admission, for any number of verifiers, crashes and        *)
(* restored bundle files.                                                  *)
(***************************************************************************)
THEOREM AdmissionOrder == Spec => AdmissionInOrder
<1>1. ASSUME SeqInv, [Next]_vars
      PROVE  \A b \in admitted' \ admitted : \A a \in admitted : a.seq < b.seq
  <2> SUFFICES ASSUME NEW b \in admitted' \ admitted, NEW a \in admitted
               PROVE  a.seq < b.seq
    OBVIOUS
  <2>1. b = checkpoint /\ a # b
    BY <1>1, AdmissionStep
  <2>2. AtOrBelow(a)
    BY <1>1 DEF SeqInv, AdmittedBelow
  <2>3. QED
    BY <2>1, <2>2 DEF AtOrBelow
<1>2. QED
  BY <1>1, SequenceInvariant, PTL DEF Spec, AdmissionInOrder

(***************************************************************************)
(* No verification accepts what an admitted bundle denies, for any number  *)
(* of revocations, rotations cut short, verifiers and crashes.             *)
(***************************************************************************)
THEOREM PermanentRevocation == Spec => RevocationIsPermanent
<1>1. ASSUME SeqInv, [Next]_vars
      PROVE  \A t \in Threads :
                pc[t] = "admitted" /\ pc'[t] = "accepted" /\ ~forked =>
                   \A b \in admitted : ~Revoked(b, asked'[t])
  <2> SUFFICES ASSUME NEW t \in Threads, pc[t] = "admitted", pc'[t] = "accepted",
                      ~forked, NEW b \in admitted, Revoked(b, asked'[t])
               PROVE  FALSE
    OBVIOUS
  <2>1. PICK u \in Threads : ThreadStep(u)
    <3>1. ~(AdminNext /\ UNCHANGED <<threadVars, storeVars>>) /\ ~(UNCHANGED vars)
      BY DEF threadVars, vars
    <3>2. ~(\E v \in Verifiers : Crash(v))
      BY DEF Crash
    <3>3. QED
      BY <1>1, <3>1, <3>2 DEF Next
  <2>2. pc \in [Threads -> Steps]
    BY <1>1 DEF SeqInv, TypeOK
  <2>3. u = t /\ Decide(t)
    BY <2>1, <2>2
       DEF ThreadStep, LoadBundle, EnterTransaction, RefuseEntry, CreateLock,
           LoseCreation, AcquireLock, LockTimeout, StartWrite, RefuseBundle,
           AdmitKnown, AdmitWritten, ReplaceCheckpoint, StoreFails, Decide, Accept,
           Reject, Fail, Goto
  <2>4. PICK q \in Presentable : Accept(t, q)
    BY <2>2, <2>3 DEF Decide, Reject, Fail, Goto
  <2>5. asked'[t] = q /\ ~Revoked(held[t], q)
    BY <1>1, <2>4 DEF Accept, SeqInv, TypeOK
  <2>6. checkpoint = held[t] /\ checkpoint \in published /\ b \in published
    BY <1>1 DEF SeqInv, WrittenIsHeld, AdmittedBelow, AtOrBelow, BundlesPublished
  <2>7. b.seq <= checkpoint.seq
    <3>1. b.seq \in Nat /\ checkpoint.seq \in Nat
      BY <1>1, <2>6 DEF SeqInv, TypeOK, AdminTypeOK, Bundles
    <3>2. b.seq < checkpoint.seq \/ b = checkpoint
      BY <1>1 DEF SeqInv, AdmittedBelow, AtOrBelow
    <3>3. QED
      BY <3>1, <3>2
  <2>8. b.revoked \subseteq held[t].revoked
    BY <1>1, <2>6, <2>7 DEF SeqInv, RevocationsGrow
  <2>9. QED
    BY <2>5, <2>8 DEF Revoked
<1>2. QED
  BY <1>1, SequenceInvariant, PTL DEF Spec, RevocationIsPermanent

(***************************************************************************)
(* What wedges the state directory.  Besides SeqInv: the lock has an owner *)
(* only while a thread is in the part of the transaction that needs it, a  *)
(* replaced checkpoint leaves no temporary file, and a verifier remembers  *)
(* only what was admitted.  So as long as nothing crashed or failed, every *)
(* file that is not yet in place belongs to a thread that is still at it.  *)
(***************************************************************************)
WedgeInv ==
    /\ owner # NoThread => pc[owner] \in Holding
    /\ \A t \in Threads : pc[t] = "replaced" => ~temp
    /\ \A v \in Verifiers : high[v] # NoBundle => high[v] \in admitted
    /\ faults = 0 => ~Wedged

\* The threads a file of the directory may belong to.
Initializing == {"lock", "locked", "write"}

\* A step of one thread: all that the other threads see of it.
LEMMA ThreadFrame ==
    ASSUME SeqInv, NEW t \in Threads, ThreadStep(t)
    PROVE  \A u \in Threads : u # t => pc'[u] = pc[u]
BY DEF SeqInv, TypeOK, ThreadStep, LoadBundle, EnterTransaction, RefuseEntry, CreateLock,
       LoseCreation, AcquireLock, LockTimeout, StartWrite, RefuseBundle, AdmitKnown,
       AdmitWritten, ReplaceCheckpoint, StoreFails, Decide, Accept, Reject, Fail, Goto

\* A thread that ends its verification, or moves without touching a file, the lock or
\* what was admitted.
LEMMA EndKeepsWedgeInv ==
    ASSUME SeqInv, WedgeInv, NEW t \in Threads, NEW l \in {"idle", "accepted"},
           Goto(t, l), Release(t), temp' \in BOOLEAN, temp' => temp,
           UNCHANGED <<high, admitted>>,
           faults' = 0 => ~Wedged'
    PROVE  WedgeInv'
<1>1. pc \in [Threads -> Steps] /\ owner \in Threads \cup {NoThread}
  BY DEF SeqInv, TypeOK
<1>2. pc'[t] = l /\ \A u \in Threads : u # t => pc'[u] = pc[u]
  BY <1>1 DEF Goto
<1>3. owner' # NoThread => pc'[owner'] \in Holding
  BY <1>1, <1>2 DEF Release, WedgeInv
<1>4. \A u \in Threads : pc'[u] = "replaced" => ~temp'
  BY <1>2 DEF WedgeInv
<1>5. QED
  BY <1>3, <1>4 DEF WedgeInv

\* A refusal leaves a directory that was not wedged unwedged, unless the thread that
\* gives up was the one the files belong to.
LEMMA RefusalsDoNotWedge ==
    ASSUME SeqInv, WedgeInv, NEW t \in Threads, faults = 0,
           \A u \in Threads : u # t => pc'[u] = pc[u],
           UNCHANGED <<lockFile, checkpoint, temp>>,
           pc[t] # "write",
           pc[t] \in Initializing /\ lockFile /\ checkpoint = NoBundle =>
              \E u \in Threads : u # t /\ pc[u] \in Initializing
    PROVE  ~Wedged'
<1>1. ~Wedged
  BY DEF WedgeInv
<1>2. temp' => \E u \in Threads : pc'[u] = "write"
  BY <1>1 DEF Wedged
<1>3. lockFile' /\ checkpoint' = NoBundle => \E u \in Threads : pc'[u] \in Initializing
  BY <1>1 DEF Wedged, Initializing
<1>4. QED
  BY <1>2, <1>3 DEF Wedged, Initializing

LEMMA WedgeFailStep ==
    ASSUME SeqInv, WedgeInv, NEW t \in Threads,
           RefuseEntry(t) \/ LoseCreation(t) \/ LockTimeout(t) \/ RefuseBundle(t)
    PROVE  WedgeInv'
<1>1. /\ Goto(t, "idle") /\ Release(t)
      /\ UNCHANGED <<high, poisoned, checkpoint, lockFile, temp, admitted, faults>>
  BY DEF RefuseEntry, LoseCreation, LockTimeout, RefuseBundle, Fail
<1>2. \A u \in Threads : u # t => pc'[u] = pc[u]
  BY <1>1 DEF Goto, SeqInv, TypeOK
<1>3. ASSUME faults' = 0 PROVE ~Wedged'
  <2>1. faults = 0 /\ ~Wedged
    BY <1>1, <1>3 DEF WedgeInv
  <2>2. pc[t] # "write"
    BY DEF RefuseEntry, LoseCreation, LockTimeout, RefuseBundle
  <2>3. ASSUME pc[t] \in Initializing, lockFile, checkpoint = NoBundle
        PROVE  \E u \in Threads : u # t /\ pc[u] \in Initializing
    <3>1. CASE LockTimeout(t)
      <4>1. owner \in Threads /\ pc[t] = "lock" /\ owner # NoThread
        BY <3>1 DEF LockTimeout, SeqInv, TypeOK
      <4>2. pc[owner] \in Holding /\ owner # t
        BY <4>1 DEF WedgeInv, Holding
      <4>3. pc[owner] \notin {"replaced", "admitted"}
        <5>1. pc[owner] \in {"replaced", "admitted"} =>
                 held[owner] \in published /\ checkpoint = held[owner]
          BY <4>1 DEF SeqInv, BundlesPublished, WrittenIsHeld
        <5>2. published \subseteq Bundles
          BY DEF SeqInv, TypeOK, AdminTypeOK
        <5>3. QED
          BY <2>3, <5>1, <5>2, SequenceAssumption
      <4>4. QED
        BY <4>1, <4>2, <4>3 DEF Holding, Initializing
    <3>2. CASE RefuseBundle(t)
      <4>1. pc[t] = "locked" /\ Refused(t) /\ owner = t
        BY <3>2 DEF RefuseBundle, SeqInv, LockHeld, Holding
      <4>2. ~temp
        <5>1. \A u \in Threads : pc[u] = "write" => u = t
          BY <4>1 DEF SeqInv, LockHeld, Holding
        <5>2. \A u \in Threads : pc[u] # "write"
          BY <4>1, <5>1
        <5>3. QED
          BY <2>1, <5>2 DEF Wedged
      <4>3. high[VerifierOf[t]] = NoBundle
        <5>1. VerifierOf[t] \in Verifiers
          BY SequenceAssumption
        <5>2. admitted = {}
          BY <2>3 DEF SeqInv, AdmittedBelow, AtOrBelow
        <5>3. QED
          BY <5>1, <5>2 DEF WedgeInv
      <4>4. Ordered(t)
        BY <2>3, <4>3 DEF Ordered, Behind, RolledBack, Equivocated
      <4>5. QED
        BY <4>1, <4>2, <4>4 DEF Refused, EntriesExpected
    <3>3. CASE RefuseEntry(t) \/ LoseCreation(t)
      BY <2>3, <3>3 DEF RefuseEntry, LoseCreation, Initializing
    <3>4. QED
      BY <3>1, <3>2, <3>3
  <2>4. QED
    BY <1>1, <1>2, <2>1, <2>2, <2>3, RefusalsDoNotWedge
<1>4. temp' \in BOOLEAN /\ (temp' => temp)
  BY <1>1 DEF SeqInv, TypeOK
<1>5. QED
  BY <1>1, <1>3, <1>4, EndKeepsWedgeInv

LEMMA WedgeThreadStep ==
    ASSUME SeqInv, WedgeInv, NEW t \in Threads, ThreadStep(t)
    PROVE  WedgeInv'
<1>0. /\ pc \in [Threads -> Steps] /\ owner \in Threads \cup {NoThread}
      /\ faults \in Nat /\ temp \in BOOLEAN /\ lockFile \in BOOLEAN
      /\ VerifierOf[t] \in Verifiers /\ high \in [Verifiers -> Bundles \cup {NoBundle}]
      /\ \A u \in Threads : u # t => pc'[u] = pc[u]
  BY SequenceAssumption, ThreadFrame DEF SeqInv, TypeOK
<1>1. CASE RefuseEntry(t) \/ LoseCreation(t) \/ LockTimeout(t) \/ RefuseBundle(t)
  BY <1>1, WedgeFailStep
<1>2. CASE LoadBundle(t) \/ EnterTransaction(t)
  <2>1. /\ UNCHANGED storeVars /\ pc[t] \in {"idle", "accepted", "loaded"}
        /\ pc'[t] \in {"loaded", "create", "lock"}
    BY <1>0, <1>2 DEF LoadBundle, EnterTransaction, Goto
  <2>2. owner' # NoThread => pc'[owner'] \in Holding
    BY <1>0, <2>1 DEF WedgeInv, Holding, storeVars
  <2>3. faults' = 0 => ~Wedged'
    BY <1>0, <2>1, RefusalsDoNotWedge DEF storeVars, Initializing
  <2>4. QED
    BY <1>0, <2>1, <2>2, <2>3 DEF WedgeInv, storeVars
<1>3. CASE CreateLock(t) \/ AcquireLock(t)
  <2>1. /\ UNCHANGED <<high, poisoned, checkpoint, temp, admitted, faults>>
        /\ pc[t] \in {"create", "lock"} /\ pc'[t] \in {"lock", "locked"}
        /\ \/ owner' = owner /\ pc'[t] = "lock" /\ pc[t] = "create"
           \/ owner' = t /\ pc'[t] = "locked"
    BY <1>0, <1>3 DEF CreateLock, AcquireLock, Goto
  <2>2. owner' # NoThread => pc'[owner'] \in Holding
    BY <1>0, <2>1 DEF WedgeInv, Holding
  <2>3. faults' = 0 => ~Wedged'
    BY <1>0, <2>1 DEF WedgeInv, Wedged
  <2>4. QED
    BY <1>0, <2>1, <2>2, <2>3 DEF WedgeInv
<1>4. CASE StartWrite(t)
  <2>1. /\ UNCHANGED <<high, poisoned, checkpoint, lockFile, owner, admitted, faults>>
        /\ pc[t] = "locked" /\ pc'[t] = "write" /\ owner = t
    BY <1>0, <1>4 DEF StartWrite, Goto, SeqInv, LockHeld, Holding
  <2>2. \A u \in Threads : pc'[u] # "replaced"
    BY <1>0, <2>1 DEF SeqInv, LockHeld, Holding
  <2>3. ~Wedged'
    BY <1>0, <2>1 DEF Wedged
  <2>4. QED
    BY <1>0, <2>1, <2>2, <2>3 DEF WedgeInv, Holding
<1>5. CASE AdmitKnown(t) \/ AdmitWritten(t)
  <2>1. /\ UNCHANGED <<poisoned, checkpoint, lockFile, temp, owner, faults>>
        /\ pc[t] \in {"locked", "replaced"} /\ pc'[t] = "admitted" /\ owner = t
        /\ high' = [high EXCEPT ![VerifierOf[t]] = held[t]]
        /\ admitted' = admitted \cup {held[t]}
    BY <1>0, <1>5 DEF AdmitKnown, AdmitWritten, Goto, SeqInv, LockHeld, Holding
  <2>2. checkpoint # NoBundle
    <3>1. CASE AdmitKnown(t)
      BY <3>1, KnownIsCheckpoint DEF AdmitKnown, Refused
    <3>2. CASE AdmitWritten(t)
      <4>1. checkpoint = held[t] /\ held[t] \in published
        BY <3>2 DEF AdmitWritten, SeqInv, WrittenIsHeld, BundlesPublished
      <4>2. QED
        BY <4>1, SequenceAssumption DEF SeqInv, TypeOK, AdminTypeOK
    <3>3. QED
      BY <1>5, <3>1, <3>2
  <2>3. faults' = 0 => ~Wedged'
    BY <1>0, <2>1, <2>2, RefusalsDoNotWedge
  <2>4. \A v \in Verifiers : high'[v] # NoBundle => high'[v] \in admitted'
    BY <1>0, <2>1 DEF WedgeInv
  <2>5. QED
    BY <1>0, <2>1, <2>3, <2>4 DEF WedgeInv, Holding
<1>6. CASE ReplaceCheckpoint(t)
  <2>1. /\ UNCHANGED <<high, poisoned, lockFile, owner, admitted, faults>>
        /\ pc[t] = "write" /\ pc'[t] = "replaced" /\ owner = t /\ temp' = FALSE
        /\ checkpoint' = held[t] /\ held[t] \in published
    BY <1>0, <1>6 DEF ReplaceCheckpoint, Goto, SeqInv, LockHeld, Holding, BundlesPublished
  <2>2. checkpoint' # NoBundle
    BY <2>1, SequenceAssumption DEF SeqInv, TypeOK, AdminTypeOK
  <2>3. ~Wedged'
    BY <2>1, <2>2 DEF Wedged
  <2>4. QED
    BY <1>0, <2>1, <2>3 DEF WedgeInv, Holding
<1>7. CASE StoreFails(t)
  <2>1. /\ Goto(t, "idle") /\ Release(t) /\ UNCHANGED <<high, admitted>>
        /\ temp' \in BOOLEAN /\ (temp' => temp) /\ faults' = faults + 1
    BY <1>0, <1>7 DEF StoreFails, Fail, Fault
  <2>2. faults' # 0
    BY <1>0, <2>1
  <2>3. QED
    BY <2>1, <2>2, EndKeepsWedgeInv
<1>8. CASE Decide(t)
  <2>1. PICK l \in {"idle", "accepted"} :
          /\ Goto(t, l) /\ Release(t)
          /\ UNCHANGED <<high, checkpoint, lockFile, temp, admitted>>
    BY <1>8 DEF Decide, Accept, Reject, Fail
  <2>2. pc[t] = "admitted" /\ (faults' = faults \/ faults' = faults + 1)
    BY <1>8 DEF Decide, Accept, Reject, Fault
  <2>3. faults' = 0 => ~Wedged'
    BY <1>0, <2>1, <2>2, RefusalsDoNotWedge DEF Initializing
  <2>4. temp' \in BOOLEAN /\ (temp' => temp)
    BY <1>0, <2>1
  <2>5. QED
    BY <2>1, <2>3, <2>4, EndKeepsWedgeInv
<1>9. QED
  BY <1>1, <1>2, <1>3, <1>4, <1>5, <1>6, <1>7, <1>8 DEF ThreadStep

LEMMA WedgeCrashStep ==
    ASSUME SeqInv, WedgeInv, NEW v \in Verifiers, Crash(v)
    PROVE  WedgeInv'
<1>1. /\ \A t \in Threads : pc'[t] = pc[t] \/ pc'[t] = "idle"
      /\ \A t \in Threads : VerifierOf[t] # v => pc'[t] = pc[t]
      /\ faults' = faults + 1 /\ temp' = temp /\ admitted' = admitted
      /\ high' = [high EXCEPT ![v] = NoBundle]
      /\ owner' = IF owner # NoThread /\ VerifierOf[owner] = v THEN NoThread ELSE owner
  BY DEF Crash, Fault
<1>2. /\ owner \in Threads \cup {NoThread} /\ faults \in Nat
      /\ high \in [Verifiers -> Bundles \cup {NoBundle}]
  BY SequenceAssumption DEF SeqInv, TypeOK
<1>3. owner' # NoThread => pc'[owner'] \in Holding
  BY <1>1, <1>2 DEF WedgeInv
<1>4. \A u \in Verifiers : high'[u] # NoBundle => high'[u] \in admitted'
  BY <1>1, <1>2 DEF WedgeInv
<1>5. faults' # 0
  BY <1>1, <1>2
<1>6. QED
  BY <1>1, <1>3, <1>4, <1>5 DEF WedgeInv

LEMMA WedgeStep ==
    ASSUME SeqInv, WedgeInv, [Next]_vars
    PROVE  WedgeInv'
<1>1. CASE UNCHANGED <<threadVars, storeVars>>
  BY <1>1 DEF WedgeInv, Wedged, threadVars, storeVars
<1>2. CASE \E t \in Threads : ThreadStep(t)
  BY <1>2, WedgeThreadStep
<1>3. CASE \E v \in Verifiers : Crash(v)
  BY <1>3, WedgeCrashStep
<1>4. QED
  BY <1>1, <1>2, <1>3 DEF Next, vars

(***************************************************************************)
(* A directory with a left-over temporary file, or a lock file nobody is   *)
(* initialising behind, lets no thread past the check of its entries or of *)
(* its layout.                                                             *)
(***************************************************************************)
LEMMA WedgedStays ==
    ASSUME SeqInv, WedgeInv, [Next]_vars, Wedged
    PROVE  Wedged' /\ admitted' = admitted
<1>0. /\ pc \in [Threads -> Steps] /\ lockFile \in BOOLEAN /\ temp \in BOOLEAN
  BY DEF SeqInv, TypeOK
<1>1. CASE UNCHANGED <<threadVars, storeVars>>
  BY <1>1 DEF Wedged, threadVars, storeVars
<1>2. CASE \E v \in Verifiers : Crash(v)
  BY <1>2 DEF Crash, Wedged
<1>3. ASSUME NEW t \in Threads, ThreadStep(t) PROVE Wedged' /\ admitted' = admitted
  <2>1. \A u \in Threads : u # t => pc'[u] = pc[u]
    BY <1>3, ThreadFrame
  <2>2. CASE temp /\ \A u \in Threads : pc[u] # "write"
    <3>1. Refused(t) /\ pc[t] # "replaced" /\ pc[t] # "write"
      BY <2>2 DEF Refused, EntriesExpected, WedgeInv
    <3>2. temp' = temp /\ admitted' = admitted /\ pc'[t] # "write"
      BY <1>0, <1>3, <3>1
         DEF ThreadStep, LoadBundle, EnterTransaction, RefuseEntry, CreateLock,
             LoseCreation, AcquireLock, LockTimeout, StartWrite, RefuseBundle, AdmitKnown,
             AdmitWritten, ReplaceCheckpoint, StoreFails, Decide, Accept, Reject, Fail, Goto,
             storeVars
    <3>3. QED
      BY <2>1, <2>2, <3>2 DEF Wedged
  <2>3. CASE lockFile /\ checkpoint = NoBundle /\ \A u \in Threads : pc[u] \notin Initializing
    <3>1. pc[t] \notin Initializing /\ ~LayoutEmpty /\ ~LayoutReady /\ pc[t] # "replaced"
      <4>1. pc[t] = "replaced" => checkpoint = held[t] /\ held[t] \in published
        BY DEF SeqInv, WrittenIsHeld, BundlesPublished
      <4>2. QED
        BY <2>3, <4>1, SequenceAssumption
           DEF LayoutEmpty, LayoutReady, SeqInv, TypeOK, AdminTypeOK
    <3>2. /\ lockFile' = lockFile /\ checkpoint' = checkpoint /\ admitted' = admitted
          /\ pc'[t] \notin Initializing
      BY <1>0, <1>3, <2>3, <3>1
         DEF ThreadStep, LoadBundle, EnterTransaction, RefuseEntry, CreateLock,
             LoseCreation, AcquireLock, LockTimeout, StartWrite, RefuseBundle, AdmitKnown,
             AdmitWritten, ReplaceCheckpoint, StoreFails, Decide, Accept, Reject, Fail, Goto,
             storeVars, Initializing
    <3>3. QED
      BY <2>1, <2>3, <3>2 DEF Wedged, Initializing
  <2>4. QED
    BY <2>2, <2>3 DEF Wedged, Initializing
<1>4. QED
  BY <1>1, <1>2, <1>3 DEF Next, vars

(***************************************************************************)
(* Verifiers that race to initialise or advance the state directory never  *)
(* make it unusable by themselves, and one that is unusable stays so and   *)
(* admits nothing (the layout and entry checks of the checkpoint store),   *)
(* for any number of threads, verifiers, crashes and failed writes.        *)
(***************************************************************************)
THEOREM WedgeIsPermanent == Spec => WedgedForGood
<1>1. Init => WedgeInv
  BY DEF Init, WedgeInv, Wedged
<1>2. ASSUME SeqInv, SeqInv', WedgeInv, WedgeInv', [Next]_vars
      PROVE  [/\ Wedged' => faults' > 0
              /\ Wedged => Wedged' /\ admitted' = admitted]_vars
  <2>1. Wedged' => faults' > 0
    <3>1. faults' \in Nat
      BY <1>2, SequenceAssumption DEF SeqInv, TypeOK
    <3>2. QED
      BY <1>2, <3>1 DEF WedgeInv
  <2>2. QED
    BY <1>2, <2>1, WedgedStays
<1>3. QED
  BY <1>1, <1>2, WedgeStep, SequenceInvariant, PTL DEF Spec, WedgedForGood

----------------------------------------------------------------------------
(***************************************************************************)
(* Mutual TLS.  An answer the agent gave after it withdrew the identity    *)
(* never verifies, so what is served was read before; the refresher's      *)
(* clock then bounds how long ago.                                         *)
(***************************************************************************)
\* What verify_context refuses whenever it is shown.
Unverifiable(context) ==
    \/ context.svids = {}
    \/ \E s \in context.svids : s.id # ServiceId \/ s.signer \notin context.bundle

\* The signing keys are numbered in the order they are announced.
AuthoritiesOrdered ==
    /\ authorities \subseteq Nat
    /\ \E a \in authorities : \A b \in authorities : b <= a
    /\ \A s \in offers[ServiceId] : s.signer \in Nat /\ \E a \in authorities : s.signer <= a

\* A withdrawn identity is not offered, or with another, or under a dropped key.
WithdrawnIsGone ==
    withdrawn # Nobody =>
        /\ withdrawn \in Nat /\ withdrawn <= instant
        /\ \/ offers[ServiceId] = {}
           \/ \E s \in offers[ServiceId] :
                 s.id # ServiceId \/ \A a \in authorities : s.signer < a

ServiceShape ==
    /\ service = [phase |-> service.phase, current |-> service.current,
                  fatal |-> service.fatal, lost |-> service.lost]
    /\ refresher = [stage |-> refresher.stage, since |-> refresher.since,
                    context |-> refresher.context]
    /\ service.phase \in {"stopped", "initialized", "serving", "exiting"}
    /\ refresher.stage \in {"none", "waiting", "asking", "answered", "lost", "ended"}
    /\ refresher.since \in Nat /\ refresher.since <= instant
    /\ refresher.stage = "none" <=> service.phase \in {"stopped", "initialized"}
    /\ refresher.stage \in {"lost", "ended"} => service.fatal
    /\ service.lost # Nobody => service.fatal

\* How far the refresher can be behind a withdrawal, and the clock behind it.
RefresherInTime ==
    /\ refresher.stage = "waiting" => instant <= refresher.since + RefreshPeriod
    /\ refresher.stage \in {"asking", "answered"} => instant <= refresher.since + FetchTimeout
    /\ withdrawn # Nobody =>
        /\ service.phase = "initialized" => instant <= withdrawn
        /\ refresher.stage = "waiting" => refresher.since <= withdrawn + FetchTimeout
        /\ refresher.stage \in {"asking", "answered"} =>
              refresher.since <= withdrawn + FetchTimeout + RefreshPeriod
        /\ refresher.stage = "answered" =>
              refresher.since <= withdrawn \/ Unverifiable(refresher.context)

ExchangeSane(c) ==
    LET x == exchange[c] IN
    /\ x = [stage |-> x.stage, mine |-> x.mine, peer |-> x.peer, at |-> x.at]
    /\ x.at \in Nat /\ x.at <= instant
    /\ x.stage # "none" => x.mine.svid.id = c
    /\ x.stage \in {"sent", "served"} => x.peer.svid.id = ServiceId
    /\ x.stage \in {"hello", "sent", "served"} /\ x.peer.svid.id = ServiceId =>
         /\ x.at < x.peer.svid.until
         /\ service.lost # Nobody => service.lost \in Nat /\ x.at <= service.lost
         /\ withdrawn # Nobody => x.at <= withdrawn + WithdrawalBound
    /\ x.stage = "served" => c \in Allowed

MtlsInv ==
    /\ instant \in Nat
    /\ DOMAIN offers = Workloads
    /\ DOMAIN exchange = Callers /\ exchange = [c \in Callers |-> exchange[c]]
    /\ AuthoritiesOrdered
    /\ WithdrawnIsGone
    /\ ServiceShape
    /\ RefresherInTime
    /\ \A c \in Callers : ExchangeSane(c)

\* verify_context never accepts what is unverifiable, whatever the time.
LEMMA UnverifiableRefused ==
    ASSUME NEW context, NEW now, Unverifiable(context)
    PROVE  ~ContextHolds(context, ServiceId, now)
<1>1. CASE context.svids = {}
  BY <1>1, FS_EmptySet DEF ContextHolds
<1>2. CASE context.svids # {}
  BY <1>2 DEF Unverifiable, ContextHolds, LeafProfile, TrustPath
<1>3. QED
  BY <1>1, <1>2

\* What was verified is the expected workload's.
LEMMA VerifiedIsExpected ==
    ASSUME NEW context, NEW expected, NEW now, ContextHolds(context, expected, now)
    PROVE  VerifiedIdentity(context).svid.id = expected
<1>1. context.svids # {}
  BY FS_EmptySet DEF ContextHolds
<1>2. (CHOOSE s \in context.svids : TRUE) \in context.svids
  BY <1>1
<1>3. QED
  BY <1>2 DEF ContextHolds, LeafProfile, VerifiedIdentity

\* The newest signing key is one of those announced, and the last of them.
LEMMA NewestIsLast ==
    ASSUME AuthoritiesOrdered
    PROVE  Newest \in authorities /\ Newest \in Nat /\ \A b \in authorities : b <= Newest
BY DEF AuthoritiesOrdered, Newest

\* While the identity is withdrawn the agent's answer cannot be used.
LEMMA WithdrawnUnverifiable ==
    ASSUME MtlsInv, withdrawn # Nobody
    PROVE  Unverifiable(ContextOf(ServiceId))
<1>1. CASE offers[ServiceId] = {}
  BY <1>1 DEF Unverifiable, ContextOf
<1>2. CASE offers[ServiceId] # {}
  <2>1. PICK s \in offers[ServiceId] : s.id # ServiceId \/ \A a \in authorities : s.signer < a
    BY <1>2 DEF MtlsInv, WithdrawnIsGone
  <2>2. s.signer \in Nat /\ authorities \subseteq Nat
    BY DEF MtlsInv, AuthoritiesOrdered
  <2>3. s.id # ServiceId \/ s.signer \notin authorities
    BY <2>1, <2>2
  <2>4. QED
    BY <2>3 DEF Unverifiable, ContextOf
<1>3. QED
  BY <1>1, <1>2

\* Nothing is withdrawn, served or exchanged at the start.
LEMMA InitMtls == MtlsInit => MtlsInv
<1> SUFFICES ASSUME MtlsInit PROVE MtlsInv
  OBVIOUS
<1>1. /\ offers[ServiceId] = {[id |-> ServiceId, from |-> 0, until |-> MaxTtl, signer |-> 1]}
      /\ DOMAIN offers = Workloads
  BY DEF MtlsInit, Workloads
<1>2. AuthoritiesOrdered /\ WithdrawnIsGone
  BY <1>1 DEF MtlsInit, AuthoritiesOrdered, WithdrawnIsGone
<1>3. ServiceShape /\ RefresherInTime
  BY MtlsAssumption DEF MtlsInit, ServiceShape, RefresherInTime, StoppedService, NoRefresher
<1>4. \A c \in Callers : ExchangeSane(c)
  BY DEF MtlsInit, ExchangeSane, NoExchange
<1>5. QED
  BY <1>1, <1>2, <1>3, <1>4 DEF MtlsInv, MtlsInit

\* A change of the agent leaves the service alone; a withdrawal is dated now.
LEMMA AgentFrame ==
    ASSUME MtlsInv, UNCHANGED <<instant, service, refresher, exchange>>,
           withdrawn' = withdrawn \/ withdrawn' = Nobody \/ withdrawn' = instant,
           DOMAIN offers' = Workloads, AuthoritiesOrdered', WithdrawnIsGone'
    PROVE  MtlsInv'
<1>1. /\ instant \in Nat /\ refresher.since \in Nat /\ refresher.since <= instant
      /\ RefreshPeriod \in Nat /\ FetchTimeout \in Nat
  BY MtlsAssumption DEF MtlsInv, ServiceShape
<1>2. ServiceShape'
  BY DEF MtlsInv, ServiceShape
<1>3. RefresherInTime'
  BY <1>1 DEF MtlsInv, RefresherInTime, WithdrawnIsGone, Unverifiable
<1>4. ASSUME NEW c \in Callers PROVE ExchangeSane(c)'
  <2>1. ExchangeSane(c)
    BY DEF MtlsInv
  <2>2. QED
    BY <1>1, <2>1 DEF ExchangeSane, WithdrawalBound
<1>5. QED
  BY <1>2, <1>3, <1>4 DEF MtlsInv

\* Rotations, withdrawals and key changes of the agent.
LEMMA AgentSteps ==
    ASSUME MtlsInv, \/ AnnounceAuthority \/ DropAuthority
                    \/ \E w \in Workloads : Withdraw(w) \/ OfferSecond(w)
                                            \/ \E n \in Lifetimes : Rotate(w, n)
    PROVE  MtlsInv'
<1>1. /\ AuthoritiesOrdered /\ WithdrawnIsGone /\ instant \in Nat
      /\ DOMAIN offers = Workloads /\ ServiceId \in Workloads
  BY DEF MtlsInv, Workloads
<1>2. Newest \in authorities /\ Newest \in Nat /\ \A b \in authorities : b <= Newest
  BY <1>1, NewestIsLast
<1>3. ASSUME AnnounceAuthority PROVE MtlsInv'
  <2>1. authorities' = authorities \cup {Newest + 1} /\ UNCHANGED <<offers, withdrawn>>
    BY <1>3 DEF AnnounceAuthority
  <2>2. AuthoritiesOrdered'
    <3>1. authorities' \subseteq Nat /\ \E a \in authorities' : \A b \in authorities' : b <= a
      <4>1. Newest + 1 \in authorities' /\ Newest + 1 \in Nat
        BY <1>2, <2>1
      <4>2. \A b \in authorities' : b <= Newest + 1
        BY <1>1, <1>2, <2>1 DEF AuthoritiesOrdered
      <4>3. QED
        BY <1>1, <2>1, <4>1, <4>2 DEF AuthoritiesOrdered
    <3>2. authorities \subseteq authorities'
      BY <2>1
    <3>3. QED
      BY <1>1, <2>1, <3>1, <3>2 DEF AuthoritiesOrdered
  <2>3. WithdrawnIsGone'
    <3>1. ASSUME NEW s \in offers[ServiceId], \A a \in authorities : s.signer < a
          PROVE  \A a \in authorities' : s.signer < a
      <4>1. s.signer < Newest /\ s.signer \in Nat
        BY <1>1, <1>2, <3>1 DEF AuthoritiesOrdered
      <4>2. QED
        BY <1>2, <2>1, <3>1, <4>1
    <3>2. UNCHANGED instant
      BY <1>3 DEF AnnounceAuthority
    <3>3. QED
      BY <1>1, <2>1, <3>1, <3>2 DEF WithdrawnIsGone
  <2>4. QED
    BY <1>1, <1>3, <2>1, <2>2, <2>3, AgentFrame DEF AnnounceAuthority
<1>4. ASSUME DropAuthority PROVE MtlsInv'
  <2>1. authorities' = {Newest} /\ UNCHANGED <<offers, instant>>
    BY <1>4 DEF DropAuthority
  <2>2. \A s \in offers[ServiceId] : s.signer \in Nat /\ s.signer <= Newest
    BY <1>1, <1>2 DEF AuthoritiesOrdered
  <2>3. AuthoritiesOrdered'
    BY <1>2, <2>1, <2>2 DEF AuthoritiesOrdered
  <2>4. WithdrawnIsGone'
    <3>1. CASE withdrawn = Nobody /\ \E s \in offers[ServiceId] : s.signer # Newest
      <4>1. PICK s \in offers[ServiceId] : s.signer # Newest
        BY <3>1
      <4>2. s.signer < Newest
        BY <1>2, <2>2, <4>1
      <4>3. withdrawn' = instant
        BY <1>4, <3>1 DEF DropAuthority
      <4>4. QED
        BY <1>1, <2>1, <4>2, <4>3 DEF WithdrawnIsGone
    <3>2. CASE ~(withdrawn = Nobody /\ \E s \in offers[ServiceId] : s.signer # Newest)
      <4>1. withdrawn' = withdrawn
        BY <1>4, <3>2 DEF DropAuthority
      <4>2. QED
        BY <1>1, <1>2, <2>1, <4>1 DEF WithdrawnIsGone
    <3>3. QED
      BY <3>1, <3>2
  <2>5. withdrawn' = withdrawn \/ withdrawn' = instant
    BY <1>4 DEF DropAuthority
  <2>6. QED
    BY <1>1, <1>4, <2>1, <2>3, <2>4, <2>5, AgentFrame DEF DropAuthority
<1>5. ASSUME NEW w \in Workloads, NEW new, offers' = [offers EXCEPT ![w] = new],
             UNCHANGED <<instant, authorities, service, refresher, exchange>>,
             \A s \in new : s \in offers[w] \/ s.signer = Newest,
             w # ServiceId => withdrawn' = withdrawn,
             w = ServiceId => \/ withdrawn' = Nobody
                              \/ /\ withdrawn' = instant
                                 /\ new = {} \/ \E s \in new : s.id # ServiceId
      PROVE  MtlsInv'
  <2>1. DOMAIN offers' = Workloads
    BY <1>1, <1>5
  <2>2. offers'[ServiceId] = IF w = ServiceId THEN new ELSE offers[ServiceId]
    BY <1>1, <1>5
  <2>3. AuthoritiesOrdered'
    <3>1. ASSUME NEW s \in offers'[ServiceId]
          PROVE  s.signer \in Nat /\ \E a \in authorities : s.signer <= a
      <4>1. s \in offers[ServiceId] \/ s.signer = Newest
        BY <1>5, <2>2
      <4>2. QED
        BY <1>1, <1>2, <4>1 DEF AuthoritiesOrdered
    <3>2. QED
      BY <1>1, <1>5, <3>1 DEF AuthoritiesOrdered
  <2>4. WithdrawnIsGone'
    BY <1>1, <1>5, <2>2 DEF WithdrawnIsGone
  <2>5. QED
    BY <1>5, <2>1, <2>3, <2>4, AgentFrame
<1>6. ASSUME NEW w \in Workloads, NEW n \in Lifetimes, Rotate(w, n) PROVE MtlsInv'
  <2> DEFINE new == {Svid(w, instant + n)}
  <2>1. \A s \in new : s.signer = Newest
    BY DEF Svid
  <2>2. offers' = [offers EXCEPT ![w] = new]
    BY <1>6 DEF Rotate
  <2>3. /\ UNCHANGED <<instant, authorities, service, refresher, exchange>>
        /\ w # ServiceId => withdrawn' = withdrawn
        /\ w = ServiceId => withdrawn' = Nobody
    BY <1>6 DEF Rotate
  <2> HIDE DEF new
  <2>4. QED
    BY <1>5, <2>1, <2>2, <2>3
<1>7. ASSUME NEW w \in Workloads, Withdraw(w) PROVE MtlsInv'
  <2>1. PICK new : new = {}
    OBVIOUS
  <2>2. offers' = [offers EXCEPT ![w] = new] /\ \A s \in new : s.signer = Newest
    BY <1>7, <2>1 DEF Withdraw
  <2>3. /\ UNCHANGED <<instant, authorities, service, refresher, exchange>>
        /\ w # ServiceId => withdrawn' = withdrawn
        /\ w = ServiceId => withdrawn' = instant
    BY <1>7 DEF Withdraw
  <2>4. QED
    BY <1>5, <2>1, <2>2, <2>3
<1>8. ASSUME NEW w \in Workloads, OfferSecond(w) PROVE MtlsInv'
  <2> DEFINE second == Svid(OtherId, instant + MaxTtl)
             new == offers[w] \cup {second}
  <2>1. second.signer = Newest /\ second.id # ServiceId
    BY DEF Svid, OtherId, ServiceId
  <2>2. offers' = [offers EXCEPT ![w] = new]
    BY <1>8 DEF OfferSecond
  <2>3. second \in new /\ \A s \in new : s \in offers[w] \/ s.signer = Newest
    BY <2>1
  <2> HIDE DEF new, second
  <2>4. QED
    BY <1>5, <1>8, <2>1, <2>2, <2>3 DEF OfferSecond
<1>9. QED
  BY <1>3, <1>4, <1>6, <1>7, <1>8

\* A step of the service or its refresher: the agent, the clock and the exchanges
\* stand still, and an identity is lost now or was lost before.
LEMMA ServiceFrame ==
    ASSUME MtlsInv, UNCHANGED <<instant, offers, authorities, withdrawn, upsets, exchange>>,
           ServiceShape', RefresherInTime',
           service'.lost = service.lost \/ service'.lost = Nobody \/ service'.lost = instant
    PROVE  MtlsInv'
<1>1. AuthoritiesOrdered' /\ WithdrawnIsGone'
  BY DEF MtlsInv, AuthoritiesOrdered, WithdrawnIsGone
<1>2. ASSUME NEW c \in Callers PROVE ExchangeSane(c)'
  <2>1. ExchangeSane(c) /\ instant \in Nat
    BY DEF MtlsInv
  <2>2. QED
    BY <2>1 DEF ExchangeSane, WithdrawalBound
<1>3. QED
  BY <1>1, <1>2 DEF MtlsInv

\* What _ServerIdentityRefresher and its thread do.
LEMMA ServiceSteps ==
    ASSUME MtlsInv, \/ Initialize \/ StartServing \/ ServiceExits
                    \/ RefreshBegins \/ AgentAnswers \/ RefreshInstalls \/ RefreshFails
                    \/ FatalCallback
    PROVE  MtlsInv'
<1>1. /\ instant \in Nat /\ ServiceShape /\ RefresherInTime /\ WithdrawnIsGone
      /\ RefreshPeriod \in Nat /\ FetchTimeout \in Nat
  BY MtlsAssumption DEF MtlsInv
<1>2. ASSUME Initialize PROVE MtlsInv'
  <2>1. withdrawn = Nobody
    BY <1>2, WithdrawnUnverifiable, UnverifiableRefused DEF Initialize
  <2>2. ServiceShape' /\ RefresherInTime' /\ service'.lost = Nobody
    BY <1>1, <1>2, <2>1 DEF Initialize, StoppedService, ServiceShape, RefresherInTime
  <2>3. QED
    BY <1>2, <2>2, ServiceFrame DEF Initialize
<1>3. ASSUME StartServing PROVE MtlsInv'
  <2>1. /\ service' = [phase |-> "serving", current |-> service.current,
                       fatal |-> service.fatal, lost |-> service.lost]
        /\ service.phase = "initialized" /\ UNCHANGED <<instant, withdrawn>>
    BY <1>1, <1>3 DEF StartServing, ServiceShape
  <2>2. refresher' = [stage |-> "waiting", since |-> instant, context |-> Nobody]
    BY <1>3 DEF StartServing, NoRefresher
  <2>3. ServiceShape'
    BY <1>1, <2>1, <2>2 DEF ServiceShape
  <2>4. RefresherInTime'
    BY <1>1, <2>1, <2>2 DEF RefresherInTime, WithdrawnIsGone
  <2>5. QED
    BY <1>3, <2>1, <2>3, <2>4, ServiceFrame DEF StartServing
<1>4. ASSUME ServiceExits PROVE MtlsInv'
  <2>1. ServiceShape' /\ RefresherInTime' /\ service'.lost = Nobody
    BY <1>1, <1>4 DEF ServiceExits, StoppedService, NoRefresher, ServiceShape, RefresherInTime
  <2>2. QED
    BY <1>4, <2>1, ServiceFrame DEF ServiceExits
<1>5. ASSUME RefreshBegins PROVE MtlsInv'
  <2>1. /\ refresher' = [stage |-> "asking", since |-> instant, context |-> refresher.context]
        /\ refresher.stage = "waiting" /\ UNCHANGED <<instant, service, withdrawn>>
    BY <1>1, <1>5 DEF RefreshBegins, RefreshDue, ServiceShape
  <2>2. ServiceShape'
    BY <1>1, <2>1 DEF ServiceShape
  <2>3. RefresherInTime'
    BY <1>1, <2>1 DEF RefresherInTime, WithdrawnIsGone, ServiceShape
  <2>4. QED
    BY <1>5, <2>2, <2>3, ServiceFrame DEF RefreshBegins
<1>6. ASSUME AgentAnswers PROVE MtlsInv'
  <2>1. /\ refresher' = [stage |-> "answered", since |-> refresher.since,
                         context |-> ContextOf(ServiceId)]
        /\ UNCHANGED <<instant, service, withdrawn>> /\ refresher.stage = "asking"
    BY <1>1, <1>6 DEF AgentAnswers, ServiceShape
  <2>2. withdrawn # Nobody => Unverifiable(refresher'.context)
    BY <2>1, WithdrawnUnverifiable
  <2>3. RefresherInTime'
    BY <1>1, <2>1, <2>2 DEF RefresherInTime, Unverifiable
  <2>4. ServiceShape'
    BY <1>1, <2>1 DEF ServiceShape
  <2>5. QED
    BY <1>6, <2>3, <2>4, ServiceFrame DEF AgentAnswers
<1>7. ASSUME RefreshInstalls PROVE MtlsInv'
  <2>1. ~Unverifiable(refresher.context)
    BY <1>7, UnverifiableRefused DEF RefreshInstalls
  <2>2. /\ service' = [phase |-> service.phase, current |-> VerifiedIdentity(refresher.context),
                       fatal |-> service.fatal, lost |-> service.lost]
        /\ refresher.stage = "answered" /\ UNCHANGED <<instant, withdrawn>>
    BY <1>1, <1>7 DEF RefreshInstalls, ServiceShape
  <2>3. refresher' = [stage |-> "waiting", since |-> instant, context |-> Nobody]
    BY <1>7 DEF RefreshInstalls, NoRefresher
  <2>4. ServiceShape'
    BY <1>1, <2>2, <2>3 DEF ServiceShape
  <2>5. RefresherInTime'
    BY <1>1, <2>1, <2>2, <2>3 DEF RefresherInTime, WithdrawnIsGone, ServiceShape
  <2>6. QED
    BY <1>7, <2>2, <2>4, <2>5, ServiceFrame DEF RefreshInstalls
<1>8. ASSUME RefreshFails PROVE MtlsInv'
  <2>1. /\ service' = [phase |-> service.phase, current |-> Nobody, fatal |-> TRUE, lost |-> instant]
        /\ refresher.stage \in {"asking", "answered"} /\ UNCHANGED <<instant, withdrawn>>
    BY <1>1, <1>8 DEF RefreshFails, Invalidated, ServiceShape
  <2>2. refresher' = [stage |-> "lost", since |-> 0, context |-> Nobody]
    BY <1>8 DEF RefreshFails, NoRefresher
  <2>3. ServiceShape'
    BY <1>1, <2>1, <2>2 DEF ServiceShape
  <2>4. RefresherInTime'
    BY <1>1, <2>1, <2>2 DEF RefresherInTime, ServiceShape
  <2>5. QED
    BY <1>8, <2>1, <2>3, <2>4, ServiceFrame DEF RefreshFails
<1>9. ASSUME FatalCallback PROVE MtlsInv'
  <2>1. ServiceShape' /\ RefresherInTime' /\ service'.lost = service.lost
    BY <1>1, <1>9 DEF FatalCallback, ServiceShape, RefresherInTime
  <2>2. QED
    BY <1>9, <2>1, ServiceFrame DEF FatalCallback
<1>10. QED
  BY <1>2, <1>3, <1>4, <1>5, <1>6, <1>7, <1>8, <1>9

\* A step of one exchange changes nothing else.
LEMMA ExchangeFrame ==
    ASSUME MtlsInv, NEW c \in Callers, NEW x, Moves(c, x),
           x = [stage |-> x.stage, mine |-> x.mine, peer |-> x.peer, at |-> x.at],
           x.at \in Nat, x.at <= instant,
           x.stage # "none" => x.mine.svid.id = c,
           x.stage \in {"sent", "served"} => x.peer.svid.id = ServiceId,
           x.stage \in {"hello", "sent", "served"} /\ x.peer.svid.id = ServiceId =>
               /\ x.at < x.peer.svid.until
               /\ service.lost # Nobody => service.lost \in Nat /\ x.at <= service.lost
               /\ withdrawn # Nobody => x.at <= withdrawn + WithdrawalBound,
           x.stage = "served" => c \in Allowed
    PROVE  MtlsInv'
<1>1. /\ UNCHANGED <<instant, offers, authorities, withdrawn, upsets, service, refresher>>
      /\ exchange' = [exchange EXCEPT ![c] = x]
  BY DEF Moves
<1>2. /\ DOMAIN exchange = Callers /\ DOMAIN exchange' = Callers /\ exchange'[c] = x
      /\ exchange' = [d \in Callers |-> exchange'[d]]
      /\ \A d \in Callers : d # c => exchange'[d] = exchange[d]
  BY <1>1 DEF MtlsInv
<1>3. ASSUME NEW d \in Callers PROVE ExchangeSane(d)'
  <2>1. CASE d = c
    BY <1>1, <1>2, <2>1 DEF ExchangeSane, WithdrawalBound
  <2>2. CASE d # c
    <3>1. ExchangeSane(d) /\ exchange'[d] = exchange[d]
      BY <1>2, <2>2 DEF MtlsInv
    <3>2. QED
      BY <1>1, <3>1 DEF ExchangeSane, WithdrawalBound
  <2>3. QED
    BY <2>1, <2>2
<1>4. AuthoritiesOrdered' /\ WithdrawnIsGone' /\ ServiceShape' /\ RefresherInTime'
  BY <1>1 DEF MtlsInv, AuthoritiesOrdered, WithdrawnIsGone, ServiceShape, RefresherInTime,
              Unverifiable
<1>5. QED
  BY <1>1, <1>2, <1>3, <1>4 DEF MtlsInv

\* What the two ends of a request do.
LEMMA ExchangeSteps ==
    ASSUME MtlsInv, NEW c \in Callers,
           \/ CallerFetches(c) \/ SelectContext(c) \/ Misrouted(c)
           \/ CallerAccepts(c) \/ ServiceAccepts(c) \/ ExchangeEnds(c)
    PROVE  MtlsInv'
<1>1. /\ instant \in Nat /\ ServiceShape /\ RefresherInTime /\ WithdrawnIsGone /\ ExchangeSane(c)
      /\ RefreshPeriod \in Nat /\ FetchTimeout \in Nat
  BY MtlsAssumption DEF MtlsInv
<1>2. exchange[c] = [stage |-> exchange[c].stage, mine |-> exchange[c].mine,
                     peer |-> exchange[c].peer, at |-> exchange[c].at]
  BY <1>1 DEF ExchangeSane
<1>3. ASSUME CallerFetches(c) PROVE MtlsInv'
  <2>1. PICK m : m = VerifiedIdentity(ContextOf(c)) /\ m.svid.id = c
    BY <1>3, VerifiedIsExpected DEF CallerFetches
  <2>2. PICK x : x = [stage |-> "ready", mine |-> m, peer |-> Nobody, at |-> 0]
    OBVIOUS
  <2>3. Moves(c, x)
    BY <1>3, <2>1, <2>2 DEF CallerFetches
  <2>4. QED
    BY <1>1, <2>1, <2>2, <2>3, ExchangeFrame
<1>4. ASSUME SelectContext(c) PROVE MtlsInv'
  <2>1. PICK x : x = [stage |-> "hello", mine |-> exchange[c].mine,
                      peer |-> service.current, at |-> instant]
    OBVIOUS
  <2>2. Moves(c, x)
    BY <1>4, <2>1 DEF SelectContext
  <2>3. exchange[c].mine.svid.id = c
    BY <1>1, <1>4 DEF SelectContext, ExchangeSane
  <2>4. instant < x.peer.svid.until /\ service.lost = Nobody
    BY <1>1, <1>4, <2>1 DEF SelectContext, Selectable, ServiceShape
  <2>5. refresher.stage \in {"waiting", "asking", "answered"}
    BY <1>1, <1>4 DEF SelectContext, Selectable, ServiceShape
  <2>6. withdrawn # Nobody => instant <= withdrawn + WithdrawalBound
    BY <1>1, <2>5 DEF RefresherInTime, ServiceShape, WithdrawnIsGone, WithdrawalBound
  <2>7. QED
    BY <1>1, <2>1, <2>2, <2>3, <2>4, <2>6, ExchangeFrame
<1>5. ASSUME Misrouted(c) PROVE MtlsInv'
  <2>1. PICK p : p = [svid |-> Svid(OtherId, instant + MaxTtl), bundle |-> authorities]
    OBVIOUS
  <2>2. p.svid.id # ServiceId
    BY <2>1 DEF Svid, OtherId, ServiceId
  <2>3. PICK x : x = [stage |-> "hello", mine |-> exchange[c].mine, at |-> instant, peer |-> p]
    OBVIOUS
  <2>4. Moves(c, x)
    BY <1>5, <2>1, <2>3 DEF Misrouted
  <2>5. exchange[c].mine.svid.id = c
    BY <1>1, <1>5 DEF Misrouted, ExchangeSane
  <2>6. QED
    BY <1>1, <2>2, <2>3, <2>4, <2>5, ExchangeFrame
<1>6. ASSUME NEW stage \in {"sent", "served"}, exchange[c].stage \in {"hello", "sent"},
             Moves(c, [exchange[c] EXCEPT !.stage = stage]),
             exchange[c].peer.svid.id = ServiceId, stage = "served" => c \in Allowed
      PROVE  MtlsInv'
  <2>1. PICK x : x = [stage |-> stage, mine |-> exchange[c].mine,
                      peer |-> exchange[c].peer, at |-> exchange[c].at]
    OBVIOUS
  <2>2. Moves(c, x)
    <3>1. x = [exchange[c] EXCEPT !.stage = stage]
      BY <1>2, <2>1
    <3>2. QED
      BY <1>6, <3>1
  <2>3. QED
    BY <1>1, <1>6, <2>1, <2>2, ExchangeFrame DEF ExchangeSane
<1>7. ASSUME CallerAccepts(c) PROVE MtlsInv'
  BY <1>6, <1>7 DEF CallerAccepts, PeerAllowed
<1>8. ASSUME ServiceAccepts(c) PROVE MtlsInv'
  <2>1. exchange[c].mine.svid.id = c /\ exchange[c].peer.svid.id = ServiceId
    BY <1>1, <1>8 DEF ServiceAccepts, ExchangeSane
  <2>2. QED
    BY <1>6, <1>8, <2>1 DEF ServiceAccepts, PeerAllowed
<1>9. ASSUME ExchangeEnds(c) PROVE MtlsInv'
  <2>1. NoExchange = [stage |-> "none", mine |-> Nobody, peer |-> Nobody, at |-> 0]
    BY DEF NoExchange
  <2>2. QED
    BY <1>1, <1>9, <2>1, ExchangeFrame DEF ExchangeEnds
<1>10. QED
  BY <1>3, <1>4, <1>5, <1>7, <1>8, <1>9

\* Time passes only while the refresh thread is not overdue.
LEMMA InstantStep ==
    ASSUME MtlsInv, InstantPasses
    PROVE  MtlsInv'
<1>1. /\ instant \in Nat /\ instant' = instant + 1 /\ ~Urgent
      /\ UNCHANGED <<offers, authorities, withdrawn, upsets, service, refresher, exchange>>
      /\ ServiceShape /\ RefresherInTime /\ WithdrawnIsGone
      /\ RefreshPeriod \in Nat /\ FetchTimeout \in Nat
  BY MtlsAssumption DEF MtlsInv, InstantPasses
<1>2. AuthoritiesOrdered' /\ WithdrawnIsGone'
  BY <1>1 DEF MtlsInv, AuthoritiesOrdered, WithdrawnIsGone
<1>3. ServiceShape'
  BY <1>1 DEF ServiceShape
<1>4. RefresherInTime'
  BY <1>1 DEF RefresherInTime, Unverifiable, Urgent, RefreshDue, ServiceShape
<1>5. ASSUME NEW c \in Callers PROVE ExchangeSane(c)'
  <2>1. ExchangeSane(c)
    BY DEF MtlsInv
  <2>2. QED
    BY <1>1, <2>1 DEF ExchangeSane, WithdrawalBound
<1>6. QED
  BY <1>1, <1>2, <1>3, <1>4, <1>5 DEF MtlsInv

\* The inductive invariant holds for every number of callers and upsets and every
\* choice of lifetimes and periods (_refresh_loop, _select_context).
THEOREM MtlsInvariant == MtlsSpec => []MtlsInv
<1>1. MtlsInv /\ [MtlsNext]_mtlsVars => MtlsInv'
  <2> SUFFICES ASSUME MtlsInv, [MtlsNext]_mtlsVars PROVE MtlsInv'
    OBVIOUS
  <2>1. CASE UNCHANGED mtlsVars
    BY <2>1 DEF mtlsVars, MtlsInv, AuthoritiesOrdered, WithdrawnIsGone, ServiceShape,
                RefresherInTime, Unverifiable, ExchangeSane, WithdrawalBound
  <2>2. CASE MtlsNext
    BY <2>2, AgentSteps, ServiceSteps, ExchangeSteps, InstantStep DEF MtlsNext
  <2>3. QED
    BY <2>1, <2>2
<1>2. QED
  BY <1>1, InitMtls, PTL DEF MtlsSpec

\* However refreshes, rotations, withdrawals and requests interleave, a handshake shows
\* an identity the agent offered within the bound, and serves allowed callers only
\* (_select_context, _refresh_loop, require_peer_spiffe_id).
THEOREM CurrentHandshakes == MtlsSpec => []HandshakesAreCurrent
<1>1. MtlsInv => HandshakesAreCurrent
  BY DEF MtlsInv, ExchangeSane, HandshakesAreCurrent
<1>2. QED
  BY <1>1, MtlsInvariant, PTL
================================================================================
