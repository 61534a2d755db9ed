-------------------------- MODULE DegradedGateProofs --------------------------
(***************************************************************************)
(* Proofs about degraded operation: the publisher with its health check    *)
(* and its crashes, and both gates, for any leases, requests, conditions   *)
(* and budgets.                                                            *)
(***************************************************************************)
EXTENDS DegradedGate, FiniteSetTheorems, TLAPS

(***************************************************************************)
(* The inductive invariant of the publisher.  The two processes never have *)
(* a temporary file at the same time, so what one of them is about to      *)
(* write is still the next state when it does; and nothing is between the  *)
(* committed publication and the visible one.                              *)
(***************************************************************************)
IsPublication(p) ==
  p = None \/ (p.id \in Nat \ {0} /\ p.sequence \in Nat \ {0} /\ p.lease \in Leases)

StateFields == {"allocated", "latest", "latestId", "status", "statusId"}

IsState(s) ==
  DOMAIN s = StateFields /\ s.allocated \in Nat /\ s.latest \in Nat /\ s.latestId \in Nat

PublicationTypes ==
  /\ made \in Nat
  /\ IsState(pstate)
  /\ installed \in Leases
  /\ IsPublication(file) /\ IsPublication(synced)
  /\ SequenceOf(file) <= pstate.allocated /\ SequenceOf(synced) <= pstate.allocated

\* A power loss undid what was committed.
Lost == SequenceOf(file) < pstate.latest

\* The visible publication follows the committed one, or is it.
FileFollows ==
  /\ Lost => /\ synced = file
             /\ publisher.stage \in {"idle", "allocate"} /\ checker.stage \in {"idle", "read"}
  /\ pstate.latest < SequenceOf(file) => file.previous = pstate.latestId
  /\ pstate.latest = SequenceOf(file) => file.id = pstate.latestId
  /\ ~Lost => synced = file \/ SequenceOf(synced) <= pstate.latest
  /\ SequenceOf(synced) = pstate.latest => synced.id = pstate.latestId

\* The state with the visible publication committed.
Adopts(s) == IsState(s) /\ s.latest = SequenceOf(file) /\ s.latestId = file.id

\* A publication that nobody has seen.
NextPublication(p, sequence) ==
  /\ p.id \in Nat \ {0} /\ p.sequence = sequence /\ p.previous = file.id /\ p.lease \in Leases

PublisherSane ==
  /\ publisher.stage \in {"idle", "allocate", "writing", "publish", "sync", "commit"}
  /\ publisher.stage = "allocate" => publisher.current = file /\ publisher.lease \in Leases
  /\ publisher.stage = "writing" =>
       /\ checker.stage # "writing" /\ Adopts(publisher.next)
       /\ publisher.then \in {"publish", "rest"}
       /\ publisher.then = "rest" => publisher.next.allocated = pstate.allocated
       /\ publisher.then = "publish" =>
            /\ publisher.next.allocated = pstate.allocated + 1
            /\ NextPublication(publisher.publication, pstate.allocated + 1)
  /\ publisher.stage = "publish" =>
       /\ checker.stage # "writing" /\ Adopts(pstate) /\ SequenceOf(file) < pstate.allocated
       /\ NextPublication(publisher.publication, pstate.allocated)
  /\ publisher.stage \in {"publish", "sync", "commit"} => DOMAIN publisher = {"stage", "publication"}
  /\ publisher.stage \in {"sync", "commit"} => publisher.publication = file /\ file # None

CheckerSane ==
  /\ checker.stage \in {"idle", "read", "writing"}
  /\ checker.stage = "read" =>
       /\ checker.current # None /\ IsPublication(checker.current)
       /\ checker.current = file \/ SequenceOf(checker.current) <= pstate.latest
  /\ checker.stage = "writing" => Adopts(checker.next) /\ checker.next.allocated = pstate.allocated

PublisherInv == PublicationTypes /\ FileFollows /\ PublisherSane /\ CheckerSane

(***************************************************************************)
(* What the two sides and the requests remember of publications: a         *)
(* sequence number and the publication that has it.                        *)
(***************************************************************************)
Marked(p) == <<SequenceOf(p), p.id>>

Reading(q) == request[q].stage \in {"evaluate", "readiness"}

Seen ==
  {Marked(file), Marked(synced), <<gate.floor, gate.floorId>>}
    \cup {Marked(request[q].publication) : q \in {r \in Requests : Reading(r)}}

SeenOnce ==
  /\ Seen \subseteq (0..pstate.allocated) \X Nat
  /\ publisher.stage = "publish" => \A x \in Seen : x[1] < pstate.allocated
  /\ \A x, y \in Seen : x[1] = y[1] => x = y

(***************************************************************************)
(* The inductive invariant of the gates.  The published gate opens leases  *)
(* in the order of their sequence numbers and one at a time; the snapshot  *)
(* gate knows the closed ones by their identity.                           *)
(***************************************************************************)
GateFields ==
  {"floor", "floorId", "leaseSequence", "active", "reversalSequence", "latest", "nonces", "revoked"}

IsReversal(r) == r = None \/ r.lease \in Leases

RequestsSane ==
  \A q \in Requests :
    /\ request[q].stage \in {"idle", "evaluate", "readiness", "accept", "admitted"}
    /\ Reading(q) =>
         /\ mode = "published"
         /\ request[q].publication # None /\ IsPublication(request[q].publication)
         /\ IsReversal(request[q].reversal)
    /\ request[q].stage = "accept" =>
         mode = "snapshot" /\ request[q].lease \in leasesMade /\ ~Healthy(request[q].snapshot)

GateTypes ==
  /\ DOMAIN request = Requests
  /\ mode \in {"published", "snapshot"}
  /\ DOMAIN gate = GateFields
  /\ mode = "published" => IsReversal(reversal) /\ \A r \in reversals : IsReversal(r)

Ordered(g, o, c) ==
  /\ DOMAIN g = GateFields /\ g.leaseSequence \in Nat
  /\ o \subseteq Leases /\ c \subseteq Leases
  /\ \A a \in o \cup c : a.sequence <= g.leaseSequence
  /\ g.active # None => g.active \in Leases /\ g.active.sequence = g.leaseSequence
  /\ g.active \notin c
  /\ o \ c \subseteq {g.active}
  /\ g.latest # None => g.latest.lease \in c

InSequence == mode = "published" => Ordered(gate, opened, closed)

ByIdentity ==
  mode = "snapshot" =>
    /\ IsFiniteSet(leasesMade)
    /\ \A a \in leasesMade : a.id \in 1..Cardinality(leasesMade)
    /\ \A a, b \in leasesMade : a.id = b.id => a = b
    /\ gate.revoked \subseteq 1..Cardinality(leasesMade)
    /\ lease # None => lease \in leasesMade
    /\ closed \subseteq leasesMade
    /\ \A a \in leasesMade : a.id \in gate.revoked <=> a \in closed
    /\ opened \subseteq leasesMade \cap {gate.active}
    /\ gate.active # None => gate.active \in leasesMade

EntriesClean == \A e \in entries : ~e.closed /\ ~e.owed

GateInv == GateTypes /\ RequestsSane /\ InSequence /\ ByIdentity /\ EntriesClean

DegradedInv == PublisherInv /\ SeenOnce /\ GateInv

----------------------------------------------------------------------------
\* What is remembered of publications stays unambiguous when nothing is added.
LEMMA SeenStays ==
  ASSUME SeenOnce, Seen' \subseteq Seen, pstate'.allocated = pstate.allocated,
         publisher'.stage = "publish" => publisher.stage = "publish"
  PROVE  SeenOnce'
BY DEF SeenOnce

\* A publication is none or has a positive sequence number.
LEMMA SequenceNat ==
  ASSUME NEW p, IsPublication(p)
  PROVE  /\ SequenceOf(p) \in Nat /\ p.id \in Nat
         /\ SequenceOf(p) = 0 <=> p = None
         /\ p # None => SequenceOf(p) = p.sequence
BY DEF IsPublication, SequenceOf, None

(***************************************************************************)
(* The publication a state can be reconciled with is the visible one, and  *)
(* the reconciled state commits it.                                        *)
(***************************************************************************)
LEMMA ReconcilesVisible ==
  ASSUME PublisherInv
  PROVE  /\ Reconcilable(pstate, file) <=> ~Lost
         /\ ~Lost => /\ Adopts(Reconciled(pstate, file))
                     /\ Reconciled(pstate, file).allocated = pstate.allocated
<1>0. IsPublication(file) /\ IsState(pstate) /\ SequenceOf(file) <= pstate.allocated
  BY DEF PublisherInv, PublicationTypes
<1>1. /\ SequenceOf(file) \in Nat /\ file.id \in Nat
      /\ SequenceOf(file) = 0 <=> file = None
      /\ file # None => SequenceOf(file) = file.sequence
  BY <1>0, SequenceNat
<1>2. /\ pstate.latest < SequenceOf(file) => file.previous = pstate.latestId
      /\ pstate.latest = SequenceOf(file) => file.id = pstate.latestId
  BY DEF PublisherInv, FileFollows
<1>3. Reconcilable(pstate, file) <=> ~Lost
  <2>1. CASE file = None
    BY <1>0, <1>1, <2>1 DEF Reconcilable, Lost, IsState
  <2>2. CASE file # None
    BY <1>0, <1>1, <1>2, <2>2 DEF Reconcilable, Lost, IsState
  <2> QED
    BY <2>1, <2>2
<1>4. ASSUME ~Lost
      PROVE  /\ Adopts(Reconciled(pstate, file))
             /\ Reconciled(pstate, file).allocated = pstate.allocated
  <2>1. CASE pstate.latest = SequenceOf(file)
    <3>1. Reconciled(pstate, file) = pstate
      BY <1>1, <2>1 DEF Reconciled
    <3> QED
      BY <1>0, <1>2, <2>1, <3>1 DEF Adopts
  <2>2. CASE pstate.latest < SequenceOf(file)
    <3>1. file # None /\ file.sequence # pstate.latest
      BY <1>0, <1>1, <2>2 DEF IsState
    <3>2. Reconciled(pstate, file) = [pstate EXCEPT !.latest = file.sequence, !.latestId = file.id]
      BY <3>1 DEF Reconciled
    <3> QED
      BY <1>0, <1>1, <3>1, <3>2 DEF Adopts, IsState, StateFields
  <2> QED
    BY <1>0, <1>1, <1>4, <2>1, <2>2 DEF Lost, IsState
<1> QED
  BY <1>3, <1>4

\* The operator's inputs and the volumes touch nothing of the publisher.
LEMMA InputSteps ==
  ASSUME PublisherInv,
         UNCHANGED <<file, synced, pstate, publisher, checker, made>>, installed' \in Leases
  PROVE  PublisherInv'
BY DEF PublisherInv, PublicationTypes, FileFollows, PublisherSane, CheckerSane, IsState,
       IsPublication, SequenceOf, Lost, Adopts, NextPublication, None

LEMMA BeginPublishStep ==
  ASSUME PublisherInv, BeginPublish
  PROVE  PublisherInv'
<1>1. /\ UNCHANGED <<file, synced, pstate, checker, made, installed>>
      /\ publisher'.stage = "allocate" /\ publisher'.current = file /\ publisher'.lease = installed
  BY DEF BeginPublish
<1>2. publisher.stage = "idle"
  BY DEF BeginPublish, Resting
<1> QED
  BY <1>1, <1>2 DEF PublisherInv, PublicationTypes, FileFollows, PublisherSane, CheckerSane, IsState,
       IsPublication, SequenceOf, Lost, Adopts, None

\* The publisher or the check gives up.
LEMMA RestsStep ==
  ASSUME PublisherInv, UNCHANGED <<file, synced, pstate, made, installed>>,
         publisher' \in {publisher, Resting}, checker' \in {checker, Resting}
  PROVE  PublisherInv'
<1>1. /\ publisher' = publisher \/ publisher'.stage = "idle"
      /\ checker' = checker \/ checker'.stage = "idle"
  BY DEF Resting
<1>2. PublicationTypes' /\ FileFollows'
  BY <1>1 DEF PublisherInv, PublicationTypes, FileFollows, IsState, IsPublication, SequenceOf, Lost,
              None
<1>3. PublisherSane'
  BY <1>1 DEF PublisherInv, PublisherSane, IsState, SequenceOf, Adopts, NextPublication, None
<1>4. CheckerSane'
  BY <1>1 DEF PublisherInv, CheckerSane, IsState, IsPublication, SequenceOf, Adopts, None
<1> QED
  BY <1>2, <1>3, <1>4 DEF PublisherInv

(***************************************************************************)
(* A sequence number is reserved, for a publication that follows the       *)
(* visible one.                                                            *)
(***************************************************************************)
LEMMA AllocateStep ==
  ASSUME PublisherInv, Allocate
  PROVE  PublisherInv'
<1>1. /\ UNCHANGED <<file, synced, pstate, checker, made, installed>>
      /\ publisher.stage = "allocate" /\ publisher.current = file /\ publisher.lease \in Leases
  BY DEF Allocate, PublisherInv, PublisherSane
<1>2. CASE publisher' = Resting
  BY <1>1, <1>2, RestsStep
<1>3. CASE publisher' # Resting
  <2> DEFINE s == Reconciled(pstate, file)
             next == Allocated(s, publisher.status)
             pub == Publication(made + 1, next, s.latestId, publisher)
  <2>1. /\ LayoutIntact /\ Reconcilable(pstate, file)
        /\ publisher' = [stage |-> "writing", next |-> next, then |-> "publish", publication |-> pub]
    BY <1>1, <1>3 DEF Allocate
  <2>2. ~Lost /\ Adopts(s) /\ s.allocated = pstate.allocated
    BY <2>1, ReconcilesVisible
  <2> HIDE DEF s
  <2>3. Adopts(next) /\ next.allocated = pstate.allocated + 1
    BY <2>2 DEF Allocated, Adopts, IsState, StateFields
  <2>4. NextPublication(pub, pstate.allocated + 1)
    <3>1. pub.id = made + 1 /\ pub.sequence = next.allocated /\ pub.previous = s.latestId
          /\ pub.lease = publisher.lease
      BY DEF Publication
    <3> QED
      BY <1>1, <2>2, <2>3, <3>1 DEF NextPublication, Adopts, PublisherInv, PublicationTypes, IsState
  <2> HIDE DEF next, pub
  <2>5. /\ publisher'.stage = "writing" /\ publisher'.next = next /\ publisher'.then = "publish"
        /\ publisher'.publication = pub
    BY <2>1
  <2>6. checker.stage # "writing"
    BY <2>1 DEF LayoutIntact
  <2>7. PublicationTypes' /\ FileFollows'
    BY <1>1, <2>2, <2>5 DEF PublisherInv, PublicationTypes, FileFollows, IsState, IsPublication,
                            SequenceOf, Lost, None
  <2>8. PublisherSane'
    BY <1>1, <2>3, <2>4, <2>5, <2>6 DEF PublisherSane, IsState, SequenceOf, Adopts, NextPublication,
                                        None
  <2>9. CheckerSane'
    BY <1>1 DEF PublisherInv, CheckerSane, IsState, IsPublication, SequenceOf, Adopts, None
  <2> QED
    BY <2>7, <2>8, <2>9 DEF PublisherInv
<1> QED
  BY <1>2, <1>3

(***************************************************************************)
(* A write of the state file adopts the visible publication.               *)
(***************************************************************************)
LEMMA AdoptFollows ==
  ASSUME PublisherInv, UNCHANGED <<file, synced, installed>>, made' \in Nat, ~Lost,
         NEW s, Adopts(s), pstate' = s, s.allocated >= pstate.allocated
  PROVE  /\ PublicationTypes' /\ FileFollows' /\ ~Lost' /\ Adopts(pstate)'
         /\ SequenceOf(file)' = SequenceOf(file) /\ pstate.latest <= pstate'.latest
<1>1. /\ SequenceOf(file) \in Nat /\ file.id \in Nat
      /\ SequenceOf(synced) \in Nat
  BY SequenceNat DEF PublisherInv, PublicationTypes
<1>2. SequenceOf(file)' = SequenceOf(file) /\ SequenceOf(synced)' = SequenceOf(synced)
  BY DEF SequenceOf, None
<1>3. PublicationTypes'
  BY <1>1, <1>2 DEF PublisherInv, PublicationTypes, Adopts, IsState, IsPublication, None
<1>4. ~Lost' /\ Adopts(pstate)'
  BY <1>1, <1>2 DEF Lost, Adopts, IsState
<1>5. pstate.latest <= SequenceOf(file) /\ pstate'.latest = SequenceOf(file)
      /\ pstate'.latestId = file.id
  BY <1>1 DEF Lost, Adopts, IsState, PublisherInv, PublicationTypes
<1>6. SequenceOf(synced)' = pstate'.latest => synced'.id = pstate'.latestId
  BY <1>1, <1>2, <1>5 DEF PublisherInv, FileFollows, IsState, PublicationTypes
<1>7. synced' = file' \/ SequenceOf(synced)' <= pstate'.latest
  BY <1>1, <1>2, <1>5 DEF PublisherInv, FileFollows, IsState, PublicationTypes
<1>8. FileFollows'
  BY <1>1, <1>2, <1>4, <1>5, <1>6, <1>7 DEF FileFollows
<1> QED
  BY <1>2, <1>3, <1>4, <1>5, <1>8

LEMMA PublisherWritesStep ==
  ASSUME PublisherInv, PublisherWrites
  PROVE  /\ PublisherInv'
         /\ publisher'.stage # "publish" => pstate'.allocated = pstate.allocated
         /\ publisher'.stage = "publish" => pstate'.allocated = pstate.allocated + 1
<1>1. /\ UNCHANGED <<file, synced, installed, checker>> /\ publisher.stage = "writing"
      /\ pstate' = publisher.next /\ made' \in Nat
  BY DEF PublisherWrites, PublisherInv, PublicationTypes
<1>2. /\ checker.stage # "writing" /\ Adopts(publisher.next)
      /\ publisher.then \in {"publish", "rest"}
      /\ publisher.then = "rest" => publisher.next.allocated = pstate.allocated
      /\ publisher.then = "publish" =>
            /\ publisher.next.allocated = pstate.allocated + 1
            /\ NextPublication(publisher.publication, pstate.allocated + 1)
  BY <1>1 DEF PublisherInv, PublisherSane
<1>3. ~Lost /\ IsState(pstate) /\ publisher.next.allocated >= pstate.allocated
  BY <1>1, <1>2 DEF PublisherInv, FileFollows, PublicationTypes, IsState
<1>4. /\ PublicationTypes' /\ FileFollows' /\ ~Lost' /\ Adopts(pstate)'
      /\ SequenceOf(file)' = SequenceOf(file) /\ pstate.latest <= pstate'.latest
  BY <1>1, <1>2, <1>3, AdoptFollows
<1>5. SequenceOf(file) \in Nat /\ SequenceOf(file) <= pstate.allocated
  BY SequenceNat DEF PublisherInv, PublicationTypes
<1>6. /\ publisher.then = "publish" => /\ publisher'.stage = "publish"
                                       /\ publisher'.publication = publisher.publication
                                       /\ DOMAIN publisher' = {"stage", "publication"}
      /\ publisher.then # "publish" => publisher'.stage = "idle"
  BY DEF PublisherWrites, Resting
<1>7. PublisherSane'
  <2>1. CASE publisher.then = "publish"
    <3>1. NextPublication(publisher.publication, pstate.allocated)'
      BY <1>1, <1>2, <1>6, <2>1 DEF NextPublication
    <3> QED
      BY <1>1, <1>2, <1>3, <1>4, <1>5, <1>6, <2>1, <3>1 DEF PublisherSane, IsState
  <2>2. CASE publisher.then # "publish"
    BY <1>6, <2>2 DEF PublisherSane
  <2> QED
    BY <2>1, <2>2
<1>8. CheckerSane'
  <2>1. SequenceOf(checker.current)' = SequenceOf(checker.current)
    BY <1>1 DEF SequenceOf, None
  <2>2. checker.stage = "read" =>
           /\ checker.current # None /\ IsPublication(checker.current)
           /\ checker.current = file \/ SequenceOf(checker.current) <= pstate.latest
           /\ SequenceOf(checker.current) \in Nat
    BY SequenceNat DEF PublisherInv, CheckerSane
  <2>3. checker.stage = "read" =>
           /\ checker'.current # None
           /\ checker'.current = file' \/ SequenceOf(checker.current)' <= pstate'.latest
    BY <1>1, <1>3, <1>4, <2>1, <2>2 DEF IsState, PublicationTypes
  <2>4. checker.stage = "read" => IsPublication(checker.current)'
    BY <1>1, <2>2 DEF IsPublication, None
  <2> QED
    BY <1>1, <1>2, <2>3, <2>4 DEF CheckerSane, PublisherInv, None
<1> QED
  BY <1>1, <1>2, <1>4, <1>6, <1>7, <1>8 DEF PublisherInv

(***************************************************************************)
(* The new publication becomes visible; the committed one is its           *)
(* predecessor, and nothing older is between them.                         *)
(***************************************************************************)
LEMMA ReplaceStep ==
  ASSUME PublisherInv, Replace
  PROVE  PublisherInv' /\ file' # None /\ Marked(file)' = <<pstate.allocated, file'.id>>
<1>1. /\ UNCHANGED <<synced, pstate, checker, made, installed>>
      /\ publisher.stage = "publish" /\ file' = publisher.publication
      /\ publisher' = [publisher EXCEPT !.stage = "sync"]
  BY DEF Replace
<1>2. /\ checker.stage # "writing" /\ Adopts(pstate) /\ SequenceOf(file) < pstate.allocated
      /\ NextPublication(publisher.publication, pstate.allocated)
      /\ DOMAIN publisher = {"stage", "publication"}
  BY <1>1 DEF PublisherInv, PublisherSane
<1>3. publisher'.stage = "sync" /\ publisher'.publication = file'
      /\ DOMAIN publisher' = {"stage", "publication"}
  BY <1>1, <1>2
<1>4. SequenceOf(file) \in Nat /\ SequenceOf(synced) \in Nat /\ IsState(pstate)
  BY SequenceNat DEF PublisherInv, PublicationTypes
<1>5. /\ IsPublication(file)' /\ file' # None /\ SequenceOf(file)' = pstate.allocated
      /\ file'.previous = pstate.latestId
  BY <1>1, <1>2, <1>4 DEF NextPublication, IsPublication, SequenceOf, None, Adopts, IsState
<1>6. pstate.latest = SequenceOf(file) /\ pstate.latest < SequenceOf(file)'
  BY <1>2, <1>4, <1>5 DEF Adopts
<1>7. SequenceOf(synced)' = SequenceOf(synced) /\ SequenceOf(synced) <= pstate.latest
  <2>1. SequenceOf(synced)' = SequenceOf(synced)
    BY <1>1 DEF SequenceOf, None
  <2> QED
    BY <1>4, <1>6, <2>1 DEF PublisherInv, FileFollows, Lost, IsState
<1>8. PublicationTypes'
  BY <1>1, <1>4, <1>5, <1>7 DEF PublisherInv, PublicationTypes, IsPublication, IsState, None
<1>9. FileFollows'
  BY <1>1, <1>4, <1>5, <1>6, <1>7 DEF PublisherInv, FileFollows, Lost, IsState
<1>10. PublisherSane'
  BY <1>3, <1>5 DEF PublisherSane, None
<1>11. CheckerSane'
  <2>1. SequenceOf(checker.current)' = SequenceOf(checker.current)
    BY <1>1 DEF SequenceOf, None
  <2>2. checker.stage = "read" =>
           /\ checker.current # None /\ IsPublication(checker.current)
           /\ SequenceOf(checker.current) <= pstate.latest
    BY <1>4, <1>6 DEF PublisherInv, CheckerSane, IsState
  <2>3. checker.stage = "read" => IsPublication(checker.current)'
    BY <1>1, <2>2 DEF IsPublication, None
  <2> QED
    BY <1>1, <1>2, <2>1, <2>2, <2>3 DEF CheckerSane, PublisherInv, None
<1> QED
  BY <1>5, <1>8, <1>9, <1>10, <1>11 DEF PublisherInv, Marked

LEMMA SyncStep ==
  ASSUME PublisherInv, Sync
  PROVE  PublisherInv'
<1>1. /\ UNCHANGED <<file, pstate, checker, made, installed>>
      /\ publisher.stage = "sync" /\ synced' = file
      /\ publisher' = [publisher EXCEPT !.stage = "commit"]
      /\ DOMAIN publisher = {"stage", "publication"}
  BY DEF Sync, PublisherInv, PublisherSane
<1>2. publisher'.stage = "commit" /\ publisher'.publication = publisher.publication
      /\ DOMAIN publisher' = {"stage", "publication"}
  BY <1>1
<1>3. SequenceOf(file)' = SequenceOf(file) /\ SequenceOf(synced)' = SequenceOf(file)
  BY <1>1 DEF SequenceOf, None
<1>4. PublicationTypes'
  BY <1>1, <1>3 DEF PublisherInv, PublicationTypes, IsPublication, IsState, None
<1>5. ~Lost /\ ~Lost'
  BY <1>1, <1>3 DEF PublisherInv, FileFollows, Lost
<1>6. FileFollows'
  BY <1>1, <1>3, <1>5 DEF PublisherInv, FileFollows
<1>7. PublisherSane'
  BY <1>1, <1>2 DEF PublisherInv, PublisherSane, None
<1>8. CheckerSane'
  BY <1>1 DEF PublisherInv, CheckerSane, IsState, IsPublication, SequenceOf, Adopts, None
<1> QED
  BY <1>4, <1>6, <1>7, <1>8 DEF PublisherInv

(***************************************************************************)
(* The publisher commits, or finds its publication committed.              *)
(***************************************************************************)
LEMMA CommitStep ==
  ASSUME PublisherInv, Commit
  PROVE  PublisherInv' /\ publisher'.stage # "publish"
<1>1. /\ UNCHANGED <<file, synced, pstate, checker, made, installed>>
      /\ publisher.stage = "commit" /\ publisher.publication = file
  BY DEF Commit, PublisherInv, PublisherSane
<1>2. CASE publisher' = Resting
  BY <1>1, <1>2, RestsStep DEF Resting
<1>3. CASE publisher' # Resting
  <2> DEFINE s == Reconciled(pstate, file)
  <2>1. /\ LayoutIntact /\ Reconcilable(pstate, file)
        /\ publisher' = [stage |-> "writing", next |-> s, then |-> "rest"]
    BY <1>1, <1>3 DEF Commit
  <2>2. ~Lost /\ Adopts(s) /\ s.allocated = pstate.allocated
    BY <2>1, ReconcilesVisible
  <2> HIDE DEF s
  <2>3. publisher'.stage = "writing" /\ publisher'.next = s /\ publisher'.then = "rest"
    BY <2>1
  <2>4. checker.stage # "writing"
    BY <2>1 DEF LayoutIntact
  <2>5. PublicationTypes' /\ FileFollows'
    BY <1>1, <2>2, <2>3 DEF PublisherInv, PublicationTypes, FileFollows, IsState, IsPublication,
                            SequenceOf, Lost, None
  <2>6. PublisherSane'
    BY <1>1, <2>2, <2>3, <2>4 DEF PublisherSane, IsState, SequenceOf, Adopts, None
  <2>7. CheckerSane'
    BY <1>1 DEF PublisherInv, CheckerSane, IsState, IsPublication, SequenceOf, Adopts, None
  <2> QED
    BY <2>3, <2>5, <2>6, <2>7 DEF PublisherInv
<1> QED
  BY <1>2, <1>3

(***************************************************************************)
(* The health check: what it may adopt is still the visible publication.   *)
(***************************************************************************)
LEMMA CheckReadsStep ==
  ASSUME PublisherInv, CheckReads
  PROVE  PublisherInv'
<1>1. /\ UNCHANGED <<file, synced, pstate, publisher, made, installed>>
      /\ checker.stage = "idle" /\ checker'.stage = "read" /\ checker'.current = file /\ file # None
  BY DEF CheckReads, Resting
<1>2. PublicationTypes' /\ FileFollows'
  BY <1>1 DEF PublisherInv, PublicationTypes, FileFollows, IsState, IsPublication, SequenceOf, Lost,
              None
<1>3. PublisherSane'
  BY <1>1 DEF PublisherInv, PublisherSane, IsState, SequenceOf, Adopts, NextPublication, None
<1>4. CheckerSane'
  BY <1>1 DEF PublisherInv, PublicationTypes, CheckerSane, IsPublication, None
<1> QED
  BY <1>2, <1>3, <1>4 DEF PublisherInv

LEMMA CheckReconcilesStep ==
  ASSUME PublisherInv, CheckReconciles
  PROVE  PublisherInv'
<1>1. /\ UNCHANGED <<file, synced, pstate, publisher, made, installed>>
      /\ checker.stage = "read"
      /\ checker.current # None /\ IsPublication(checker.current)
      /\ checker.current = file \/ SequenceOf(checker.current) <= pstate.latest
  BY DEF CheckReconciles, PublisherInv, CheckerSane
<1>2. CASE checker' = Resting
  BY <1>1, <1>2, RestsStep
<1>3. CASE checker' # Resting
  <2> DEFINE s == Reconciled(pstate, file)
  <2>1. /\ LayoutIntact /\ Reconcilable(pstate, checker.current)
        /\ checker.current.sequence # pstate.latest
        /\ checker' = [stage |-> "writing", next |-> Reconciled(pstate, checker.current)]
    BY <1>3 DEF CheckReconciles
  <2>2. pstate.latest < checker.current.sequence
        /\ SequenceOf(checker.current) = checker.current.sequence
        /\ SequenceOf(checker.current) \in Nat /\ pstate.latest \in Nat
    BY <1>1, <2>1, SequenceNat DEF Reconcilable, PublisherInv, PublicationTypes, IsState
  <2>3. checker.current = file
    BY <1>1, <2>2
  <2>4. ~Lost /\ Adopts(s) /\ s.allocated = pstate.allocated
    BY <2>1, <2>3, ReconcilesVisible
  <2>5. checker'.stage = "writing" /\ checker'.next = s
    BY <2>1, <2>3
  <2> HIDE DEF s
  <2>6. publisher.stage # "writing" /\ publisher.stage # "publish"
    BY <2>1, <2>2, <2>3 DEF LayoutIntact, PublisherInv, PublisherSane, Adopts
  <2>7. PublicationTypes' /\ FileFollows'
    BY <1>1, <2>4, <2>5 DEF PublisherInv, PublicationTypes, FileFollows, IsState, IsPublication,
                            SequenceOf, Lost, None
  <2>8. PublisherSane'
    BY <1>1, <2>6 DEF PublisherInv, PublisherSane, None
  <2>9. CheckerSane'
    BY <1>1, <2>4, <2>5 DEF CheckerSane, IsState, SequenceOf, Adopts, None
  <2> QED
    BY <2>7, <2>8, <2>9 DEF PublisherInv
<1> QED
  BY <1>2, <1>3

LEMMA CheckWritesStep ==
  ASSUME PublisherInv, CheckWrites
  PROVE  PublisherInv' /\ pstate'.allocated = pstate.allocated
<1>1. /\ UNCHANGED <<file, synced, installed, publisher, made>>
      /\ checker.stage = "writing" /\ pstate' = checker.next /\ checker'.stage = "idle"
      /\ Adopts(checker.next) /\ checker.next.allocated = pstate.allocated
  BY DEF CheckWrites, PublisherInv, CheckerSane, Resting
<1>2. ~Lost /\ publisher.stage \notin {"writing", "publish"} /\ made \in Nat
      /\ checker.next.allocated >= pstate.allocated
  BY <1>1 DEF PublisherInv, FileFollows, PublisherSane, PublicationTypes, IsState
<1>3. PublicationTypes' /\ FileFollows'
  BY <1>1, <1>2, AdoptFollows
<1>4. PublisherSane'
  BY <1>1, <1>2 DEF PublisherInv, PublisherSane, None
<1>5. CheckerSane'
  BY <1>1 DEF CheckerSane
<1> QED
  BY <1>1, <1>3, <1>4, <1>5 DEF PublisherInv

(***************************************************************************)
(* Faults.  A power loss may bring back the synced publication, which is   *)
(* the committed one or older.                                             *)
(***************************************************************************)
LEMMA PowerLossStep ==
  ASSUME PublisherInv, PowerLoss
  PROVE  PublisherInv'
<1>1. /\ UNCHANGED <<pstate, made, installed>>
      /\ file' \in {file, synced} /\ synced' = file'
      /\ publisher'.stage = "idle" /\ checker'.stage = "idle"
  BY DEF PowerLoss, Resting
<1>2. /\ SequenceOf(file) \in Nat /\ SequenceOf(synced) \in Nat
      /\ IsState(pstate) /\ SequenceOf(file) <= pstate.allocated
      /\ IsPublication(file) /\ IsPublication(synced)
  BY SequenceNat DEF PublisherInv, PublicationTypes
<1>3. \/ file' = file /\ SequenceOf(file)' = SequenceOf(file)
      \/ file' = synced /\ SequenceOf(file)' = SequenceOf(synced)
  BY <1>1 DEF SequenceOf, None
<1>4. SequenceOf(file)' = SequenceOf(synced)' /\ SequenceOf(file)' \in Nat
  BY <1>1, <1>2, <1>3 DEF SequenceOf, None
<1>5. IsPublication(file)' /\ IsPublication(synced)'
  BY <1>1, <1>2 DEF IsPublication, None
<1>6. SequenceOf(synced) <= pstate.latest \/ synced = file
  BY <1>2 DEF PublisherInv, FileFollows, Lost, IsState
<1>7. pstate.latest < SequenceOf(file)' => file' = file
  BY <1>2, <1>3, <1>6 DEF IsState
<1>8. SequenceOf(synced) <= pstate.allocated
  BY DEF PublisherInv, PublicationTypes
<1>9. PublicationTypes'
  BY <1>1, <1>2, <1>3, <1>4, <1>5, <1>8 DEF PublisherInv, PublicationTypes, IsState
<1>10. FileFollows'
  BY <1>1, <1>2, <1>3, <1>4, <1>7 DEF PublisherInv, FileFollows, Lost
<1>11. PublisherSane' /\ CheckerSane'
  BY <1>1 DEF PublisherSane, CheckerSane
<1> QED
  BY <1>9, <1>10, <1>11 DEF PublisherInv

----------------------------------------------------------------------------
\* What the requests and the gate remember of publications.
Remembered ==
  {<<gate.floor, gate.floorId>>}
    \cup {Marked(request[q].publication) : q \in {r \in Requests : Reading(r)}}

\* No step of the publisher changes it.
LEMMA SeenSplit ==
  /\ Seen = {Marked(file), Marked(synced)} \cup Remembered
  /\ UNCHANGED gateVars => Remembered' = Remembered
  /\ (UNCHANGED gateVars)
       => Seen' = {Marked(file)', Marked(synced)'} \cup Remembered
<1>1. Seen = {Marked(file), Marked(synced)} \cup Remembered
  BY DEF Seen, Remembered
<1>2. UNCHANGED gateVars => Remembered' = Remembered
  BY DEF gateVars, Remembered, Reading, Marked, SequenceOf, None
<1>3. Seen' = {Marked(file)', Marked(synced)'} \cup Remembered'
  BY DEF Seen, Remembered, Reading, Marked, SequenceOf, None
<1> QED
  BY <1>1, <1>2, <1>3

(***************************************************************************)
(* Every step of the publisher, the health check and their faults.         *)
(***************************************************************************)
LEMMA PublicationSteps ==
  ASSUME PublisherInv, SeenOnce, UNCHANGED gateVars, PublicationStep \/ StatusStep
  PROVE  PublisherInv' /\ SeenOnce'
<1>0. /\ Seen = {Marked(file), Marked(synced)} \cup Remembered
      /\ Seen' = {Marked(file)', Marked(synced)'} \cup Remembered
  BY SeenSplit
<1>1. ASSUME file' \in {file, synced}, synced' \in {file, synced},
             pstate'.allocated = pstate.allocated,
             publisher'.stage = "publish" => publisher.stage = "publish"
      PROVE  SeenOnce'
  <2>1. Seen' \subseteq Seen
    BY <1>0, <1>1 DEF Marked, SequenceOf, None
  <2> QED
    BY <1>1, <2>1, SeenStays
<1>2. CASE StatusStep
  <2>1. UNCHANGED <<file, synced, pstate, publisher, checker, made, installed>>
    BY <1>2 DEF StatusStep, InjectStatus
  <2> QED
    BY <1>1, <2>1, InputSteps DEF PublisherInv, PublicationTypes
<1>3. CASE Bootstrap \/ \E a \in Leases : InstallLease(a)
  <2>1. UNCHANGED <<file, synced, pstate, publisher, checker, made>> /\ installed' \in Leases
    BY <1>3 DEF Bootstrap, InstallLease, PublisherInv, PublicationTypes
  <2> QED
    BY <1>1, <2>1, InputSteps
<1>4. CASE BeginPublish
  <2>1. UNCHANGED <<file, synced, pstate>> /\ publisher'.stage # "publish"
    BY <1>4 DEF BeginPublish
  <2> QED
    BY <1>1, <1>4, <2>1, BeginPublishStep
<1>5. CASE Allocate
  <2>1. UNCHANGED <<file, synced, pstate>> /\ publisher'.stage # "publish"
    <3>1. publisher' = Resting \/ publisher'.stage = "writing"
      BY <1>5 DEF Allocate
    <3> QED
      BY <1>5, <3>1 DEF Allocate, Resting
  <2> QED
    BY <1>1, <1>5, <2>1, AllocateStep
<1>6. CASE PublisherWrites
  <2>1. /\ PublisherInv' /\ file' = file /\ synced' = synced
        /\ publisher'.stage # "publish" => pstate'.allocated = pstate.allocated
        /\ publisher'.stage = "publish" => pstate'.allocated = pstate.allocated + 1
    BY <1>6, PublisherWritesStep DEF PublisherWrites
  <2>2. CASE publisher'.stage = "publish"
    <3>1. Seen' = Seen
      BY <1>0, <2>1 DEF Marked, SequenceOf, None
    <3>2. pstate.allocated \in Nat
      BY DEF PublisherInv, PublicationTypes, IsState
    <3>3. Seen' \subseteq (0..pstate'.allocated) \X Nat /\ \A x \in Seen' : x[1] < pstate'.allocated
      BY <2>1, <2>2, <3>1, <3>2 DEF SeenOnce
    <3> QED
      BY <2>1, <3>1, <3>3 DEF SeenOnce
  <2> QED
    BY <1>1, <2>1, <2>2
<1>7. CASE Replace
  <2>1. /\ PublisherInv' /\ file' # None /\ Marked(file)' = <<pstate.allocated, file'.id>>
        /\ synced' = synced /\ pstate' = pstate /\ publisher.stage = "publish"
    BY <1>7, ReplaceStep DEF Replace
  <2>2. publisher'.stage = "sync"
    BY <1>7 DEF Replace, PublisherInv, PublisherSane
  <2>3. pstate.allocated \in Nat /\ file'.id \in Nat
    BY <2>1 DEF PublisherInv, PublicationTypes, IsState, IsPublication, None
  <2>4. Seen' \subseteq Seen \cup {<<pstate.allocated, file'.id>>}
    BY <1>0, <2>1 DEF Marked, SequenceOf, None
  <2>5. /\ Seen \subseteq (0..pstate.allocated) \X Nat
        /\ \A x \in Seen : x[1] < pstate.allocated
        /\ \A x, y \in Seen : x[1] = y[1] => x = y
    BY <2>1 DEF SeenOnce
  <2>6. Seen' \subseteq (0..pstate.allocated) \X Nat
    BY <2>3, <2>4, <2>5
  <2>7. \A x, y \in Seen' : x[1] = y[1] => x = y
    BY <2>3, <2>4, <2>5
  <2> QED
    BY <2>1, <2>2, <2>6, <2>7 DEF SeenOnce
<1>8. CASE Sync
  <2>1. synced' = file /\ file' = file /\ pstate' = pstate /\ publisher'.stage = "commit"
    BY <1>8 DEF Sync, PublisherInv, PublisherSane
  <2> QED
    BY <1>1, <1>8, <2>1, SyncStep
<1>9. CASE Commit
  <2>1. UNCHANGED <<file, synced, pstate>>
    BY <1>9 DEF Commit
  <2> QED
    BY <1>1, <1>9, <2>1, CommitStep
<1>10. CASE CheckReads
  <2>1. UNCHANGED <<file, synced, pstate, publisher>>
    BY <1>10 DEF CheckReads
  <2> QED
    BY <1>1, <1>10, <2>1, CheckReadsStep
<1>11. CASE CheckReconciles
  <2>1. UNCHANGED <<file, synced, pstate, publisher>>
    BY <1>11 DEF CheckReconciles
  <2> QED
    BY <1>1, <1>11, <2>1, CheckReconcilesStep
<1>12. CASE CheckWrites
  <2>1. UNCHANGED <<file, synced, publisher>>
    BY <1>12 DEF CheckWrites
  <2> QED
    BY <1>1, <1>12, <2>1, CheckWritesStep
<1>13. CASE Kill
  <2>1. UNCHANGED <<file, synced, pstate, made, installed>>
        /\ publisher' \in {publisher, Resting} /\ checker' \in {checker, Resting}
    BY <1>13 DEF Kill
  <2>2. publisher'.stage = "publish" => publisher.stage = "publish"
    BY <2>1 DEF Resting
  <2> QED
    BY <1>1, <2>1, <2>2, RestsStep
<1>14. CASE PowerLoss
  <2>1. file' \in {file, synced} /\ synced' = file' /\ pstate' = pstate /\ publisher'.stage = "idle"
    BY <1>14 DEF PowerLoss, Resting
  <2> QED
    BY <1>1, <1>14, <2>1, PowerLossStep
<1> QED
  BY <1>2, <1>3, <1>4, <1>5, <1>6, <1>7, <1>8, <1>9, <1>10, <1>11, <1>12, <1>13, <1>14
     DEF PublicationStep

----------------------------------------------------------------------------
(* The published gate: what each part of an update keeps of the order. *)

\* The leases a gate's state records as closed.
ClosedBy(g) == IF g.latest = None THEN {} ELSE {g.latest.lease}

LEMMA AtFloorOrdered ==
  ASSUME NEW g, NEW p, NEW o, NEW c, Ordered(g, o, c)
  PROVE  /\ Ordered(AtFloor(g, p), o, c)
         /\ AtFloor(g, p).floor = p.sequence /\ AtFloor(g, p).floorId = p.id
BY DEF Ordered, AtFloor, GateFields

\* A reversal that is applied closes the lease that is active.
LEMMA ReversedOrdered ==
  ASSUME NEW g, NEW r, NEW t, NEW o, NEW c, Ordered(g, o, c), IsReversal(r)
  PROVE  LET h == Reversed(g, r, t)
         IN  /\ Ordered(h, o, c \cup ClosedBy(h))
             /\ h.floor = g.floor /\ h.floorId = g.floorId
<1> DEFINE h == Reversed(g, r, t)
<1>1. CASE h = g
  <2>1. c \cup ClosedBy(g) = c
    BY DEF ClosedBy, Ordered
  <2> QED
    BY <1>1, <2>1
<1>2. CASE h # g
  <2>1. /\ r # None /\ g.active = r.lease
        /\ h = [g EXCEPT !.active = None, !.reversalSequence = r.sequence, !.latest = r]
    BY <1>2 DEF Reversed, ReversalRefused, SameReversal
  <2> HIDE DEF h
  <2>2. /\ DOMAIN h = GateFields /\ h.leaseSequence = g.leaseSequence
        /\ h.active = None /\ h.latest = r /\ h.floor = g.floor /\ h.floorId = g.floorId
    BY <2>1 DEF Ordered, GateFields
  <2>3. r.lease \in Leases /\ r.lease.sequence = g.leaseSequence
    BY <2>1, LeasesAssumption DEF IsReversal, Ordered
  <2>4. ClosedBy(h) = {r.lease}
    BY <2>1, <2>2 DEF ClosedBy
  <2>5. None \notin Leases
    BY LeasesAssumption
  <2>6. Ordered(h, o, c \cup {r.lease})
    BY <2>1, <2>2, <2>3, <2>5 DEF Ordered
  <2> QED
    BY <2>2, <2>4, <2>6 DEF h
<1> QED
  BY <1>1, <1>2

\* A lease is activated when no other is active and none as new was.
LEMMA ActivatedOrdered ==
  ASSUME NEW g, NEW p, NEW t, NEW o, NEW c, Ordered(g, o, c), p.lease \in Leases, ~LeaseRefused(g, p, t)
  PROVE  /\ Ordered(Activated(g, p.lease), o, c)
         /\ Activated(g, p.lease).active = p.lease
         /\ Activated(g, p.lease).latest = g.latest
         /\ Activated(g, p.lease).floor = g.floor /\ Activated(g, p.lease).floorId = g.floorId
<1> DEFINE a == p.lease
           h == Activated(g, a)
<1>1. a = g.active \/ (g.active = None /\ ~(a.sequence <= g.leaseSequence))
  BY DEF LeaseRefused
<1>2. /\ DOMAIN h = GateFields /\ h.leaseSequence = a.sequence /\ h.active = a
      /\ h.latest = g.latest /\ h.floor = g.floor /\ h.floorId = g.floorId
  BY DEF Activated, Ordered, GateFields
<1>3. a # None /\ a.sequence \in Nat /\ None \notin Leases
  BY LeasesAssumption
<1>4. g.leaseSequence \in Nat /\ \A b \in o \cup c : b \in Leases /\ b.sequence \in Nat
  BY LeasesAssumption DEF Ordered
<1> HIDE DEF h
<1>5. \A b \in o \cup c : b.sequence <= h.leaseSequence
  BY <1>1, <1>2, <1>3, <1>4 DEF Ordered
<1>6. a \notin c /\ o \ c \subseteq {a}
  BY <1>1, <1>3, <1>4 DEF Ordered
<1>7. Ordered(h, o, c)
  BY <1>2, <1>3, <1>5, <1>6 DEF Ordered
<1> QED
  BY <1>2, <1>7 DEF h

\* The active lease counts as opened.
LEMMA OpenedOrdered ==
  ASSUME NEW g, NEW o, NEW c, Ordered(g, o, c)
  PROVE  Ordered(g, o \cup ({g.active} \ {None}), c) /\ c \cup ClosedBy(g) = c
<1>1. c \cup ClosedBy(g) = c
  BY DEF ClosedBy, Ordered
<1>2. Ordered(g, o \cup ({g.active} \ {None}), c)
  BY LeasesAssumption DEF Ordered
<1> QED
  BY <1>1, <1>2

(***************************************************************************)
(* evaluate keeps the order; and what it lets through owes no reversal and *)
(* is not under a closed lease.                                            *)
(***************************************************************************)
LEMMA EvaluatedOrdered ==
  ASSUME NEW g, NEW p, NEW r, NEW t, NEW o, NEW c,
         Ordered(g, o, c), IsReversal(r), p.lease \in Leases
  PROVE  LET h == EvaluatedGate(g, p, r, t)
             closing == c \cup ClosedBy(h)
         IN  /\ Ordered(h, o, closing)
             /\ <<h.floor, h.floorId>> \in {<<g.floor, g.floorId>>, <<p.sequence, p.id>>}
             /\ \A work : EvaluateOutcome(g, p, r, t, work) = "continue" =>
                  \/ Healthy(p.snapshot) /\ h.active = None
                  \/ ~Healthy(p.snapshot) /\ h.active = p.lease
<1> DEFINE at == AtFloor(g, p)
           after == Reversed(at, r, t)
           h == EvaluatedGate(g, p, r, t)
<1>1. Ordered(at, o, c) /\ at.floor = p.sequence /\ at.floorId = p.id
  BY AtFloorOrdered
<1> HIDE DEF at
<1>2. /\ Ordered(after, o, c \cup ClosedBy(after))
      /\ after.floor = p.sequence /\ after.floorId = p.id
  BY <1>1, ReversedOrdered
<1> HIDE DEF after
<1>3. CASE FloorRefuses(g, p)
  <2>1. h = g
    BY <1>3 DEF EvaluatedGate
  <2>2. \A work : EvaluateOutcome(g, p, r, t, work) = "safe_state"
    BY <1>3 DEF EvaluateOutcome
  <2> QED
    BY <2>1, <2>2, OpenedOrdered
<1>4. CASE ~FloorRefuses(g, p) /\ (ReversalRefused(at, r, t) \/ Healthy(p.snapshot) \/ LeaseRefused(after, p, t))
  <2>1. h = after
    BY <1>4 DEF EvaluatedGate, at, after
  <2>2. \A work : EvaluateOutcome(g, p, r, t, work) = "continue" =>
           Healthy(p.snapshot) /\ after.active = None
    BY <1>4 DEF EvaluateOutcome, at, after
  <2> QED
    BY <1>2, <2>1, <2>2
<1>5. CASE ~FloorRefuses(g, p) /\ ~ReversalRefused(at, r, t) /\ ~Healthy(p.snapshot) /\ ~LeaseRefused(after, p, t)
  <2>1. h = Activated(after, p.lease)
    BY <1>5 DEF EvaluatedGate, at, after
  <2>2. /\ Ordered(h, o, c \cup ClosedBy(after))
        /\ h.active = p.lease /\ h.latest = after.latest
        /\ h.floor = p.sequence /\ h.floorId = p.id
    BY <1>2, <1>5, <2>1, ActivatedOrdered
  <2>3. ClosedBy(h) = ClosedBy(after)
    BY <2>2 DEF ClosedBy
  <2> QED
    BY <1>5, <2>2, <2>3
<1> QED
  BY <1>3, <1>4, <1>5

(***************************************************************************)
(* readiness keeps the order although it applies the reversal last.        *)
(***************************************************************************)
LEMMA ReadyOrdered ==
  ASSUME NEW g, NEW p, NEW r, NEW t, NEW o, NEW c,
         Ordered(g, o, c), IsReversal(r), p.lease \in Leases
  PROVE  LET h == ReadyGate(g, p, r, t)
             closing == c \cup ClosedBy(h)
         IN  /\ Ordered(h, o, closing)
             /\ <<h.floor, h.floorId>> \in {<<g.floor, g.floorId>>, <<p.sequence, p.id>>}
<1> DEFINE at == AtFloor(g, p)
           leased == IF Healthy(p.snapshot) \/ LeaseRefused(at, p, t) THEN at
                     ELSE Activated(at, p.lease)
           h == ReadyGate(g, p, r, t)
<1>1. Ordered(at, o, c) /\ at.floor = p.sequence /\ at.floorId = p.id
  BY AtFloorOrdered
<1> HIDE DEF at
<1>2. Ordered(leased, o, c) /\ leased.floor = p.sequence /\ leased.floorId = p.id
  BY <1>1, ActivatedOrdered
<1>3. CASE FloorRefuses(g, p)
  <2>1. h = g
    BY <1>3 DEF ReadyGate
  <2> QED
    BY <2>1, OpenedOrdered
<1>4. CASE ~FloorRefuses(g, p)
  <2>1. h = Reversed(leased, r, t)
    BY <1>4 DEF ReadyGate, at
  <2> HIDE DEF leased
  <2> QED
    BY <1>2, <2>1, ReversedOrdered
<1> QED
  BY <1>3, <1>4

----------------------------------------------------------------------------
(* The gates' own steps. *)

\* A request that is left alone, or is done with its inputs, holds nothing new.
LEMMA RequestsStay ==
  ASSUME RequestsSane, mode' = mode, leasesMade \subseteq leasesMade',
         \A q \in Requests : request'[q] = request[q] \/ request'[q].stage \in {"idle", "admitted"}
  PROVE  RequestsSane'
<1> SUFFICES ASSUME NEW q \in Requests
             PROVE  /\ request'[q].stage \in {"idle", "evaluate", "readiness", "accept", "admitted"}
                    /\ Reading(q)' =>
                         /\ mode' = "published"
                         /\ request'[q].publication # None /\ IsPublication(request'[q].publication)
                         /\ IsReversal(request'[q].reversal)
                    /\ request'[q].stage = "accept" =>
                         /\ mode' = "snapshot" /\ request'[q].lease \in leasesMade'
                         /\ ~Healthy(request'[q].snapshot)
  BY DEF RequestsSane, IsPublication, IsReversal, Healthy, None
<1>1. CASE request'[q] = request[q]
  BY <1>1 DEF RequestsSane, Reading
<1>2. CASE request'[q].stage \in {"idle", "admitted"}
  BY <1>2 DEF Reading
<1> QED
  BY <1>1, <1>2

LEMMA SeenShrinks ==
  ASSUME UNCHANGED <<file, synced, gate>>,
         \A q \in Requests : request'[q] = request[q] \/ request'[q].stage \in {"idle", "admitted"}
  PROVE  Seen' \subseteq Seen
<1>1. Marked(file)' = Marked(file) /\ Marked(synced)' = Marked(synced)
  BY DEF Marked, SequenceOf, None
<1>2. ASSUME NEW q \in Requests, Reading(q)'
      PROVE  Reading(q) /\ Marked(request[q].publication)' = Marked(request[q].publication)
  BY <1>2 DEF Reading, Marked, SequenceOf, None
<1> QED
  BY <1>1, <1>2 DEF Seen

\* The clock, a restart and the runtime behind the gate change nothing the
\* gate remembers; neither do the publisher and the operator.
LEMMA QuietStep ==
  ASSUME GateInv,
         UNCHANGED <<mode, reversal, reversals, gate, lease, leasesMade, opened, closed, entries>>,
         DOMAIN request' = Requests,
         \A q \in Requests : request'[q] = request[q] \/ request'[q].stage \in {"idle", "admitted"}
  PROVE  GateInv'
<1>1. RequestsSane'
  BY RequestsStay DEF GateInv
<1>2. GateTypes'
  BY DEF GateInv, GateTypes, IsReversal, None
<1>3. InSequence' /\ EntriesClean'
  BY DEF GateInv, InSequence, Ordered, EntriesClean, None
<1>4. ByIdentity'
  BY DEF GateInv, ByIdentity, None
<1> QED
  BY <1>1, <1>2, <1>3, <1>4 DEF GateInv

\* A signed reversal names a lease; putting it in the inbox touches nothing else.
LEMMA InjectReversalStep ==
  ASSUME GateInv, NEW a \in Leases, NEW n, InjectReversal(a, n)
  PROVE  GateInv'
<1>1. UNCHANGED <<mode, gate, lease, leasesMade, request, opened, closed, entries>> /\ mode = "published"
  BY DEF InjectReversal
<1>2. IsReversal(ReversalOf(a, n))
  BY DEF IsReversal, ReversalOf
<1>3. \A r \in reversals : IsReversal(r)
  BY <1>1 DEF GateInv, GateTypes
<1>4. IsReversal(reversal') /\ \A r \in reversals' : IsReversal(r)
  <2> DEFINE fresh == ReversalOf(a, n)
  <2>1. \/ reversal' = fresh /\ reversals' = reversals \cup {fresh}
        \/ reversal' \in reversals /\ reversals' = reversals
    BY DEF InjectReversal
  <2> HIDE DEF fresh
  <2>2. IsReversal(fresh)
    BY <1>2 DEF fresh
  <2> QED
    BY <1>3, <2>1, <2>2
<1>5. GateTypes'
  BY <1>1, <1>4 DEF GateInv, GateTypes, IsReversal, None
<1>6. RequestsSane'
  BY <1>1, RequestsStay DEF GateInv
<1>7. InSequence' /\ EntriesClean'
  BY <1>1 DEF GateInv, InSequence, Ordered, EntriesClean, None
<1>8. ByIdentity'
  BY <1>1 DEF GateInv, ByIdentity
<1> QED
  BY <1>5, <1>6, <1>7, <1>8 DEF GateInv

\* A new lease for a snapshot has an identity no lease had before.
LEMMA SignSnapshotLeaseStep ==
  ASSUME GateInv, NEW scope, SignSnapshotLease(scope)
  PROVE  GateInv'
<1>1. UNCHANGED <<mode, reversal, reversals, gate, request, opened, closed, entries>> /\ mode = "snapshot"
  BY DEF SignSnapshotLease
<1>2. leasesMade \subseteq leasesMade' /\ ByIdentity'
  <2>1. CASE lease' \in leasesMade \cup {None} /\ leasesMade' = leasesMade
    BY <1>1, <2>1 DEF GateInv, ByIdentity
  <2>2. ASSUME NEW a, a.id = Cardinality(leasesMade) + 1, lease' = a, leasesMade' = leasesMade \cup {a}
        PROVE  leasesMade \subseteq leasesMade' /\ ByIdentity'
    <3> DEFINE n == Cardinality(leasesMade)
    <3>1. /\ IsFiniteSet(leasesMade)
          /\ \A b \in leasesMade : b.id \in 1..n
          /\ \A b, d \in leasesMade : b.id = d.id => b = d
          /\ gate.revoked \subseteq 1..n
          /\ closed \subseteq leasesMade
          /\ \A b \in leasesMade : b.id \in gate.revoked <=> b \in closed
          /\ opened \subseteq leasesMade \cap {gate.active}
          /\ gate.active # None => gate.active \in leasesMade
      BY <1>1 DEF GateInv, ByIdentity
    <3>2. n \in Nat
      BY <3>1, FS_CardinalityType
    <3> HIDE DEF n
    <3>3. a.id = n + 1 /\ a \notin leasesMade
      BY <2>2, <3>1, <3>2 DEF n
    <3>4. IsFiniteSet(leasesMade') /\ Cardinality(leasesMade') = n + 1
      BY <2>2, <3>1, <3>3, FS_AddElement DEF n
    <3>5. \A b \in leasesMade' : b.id \in 1..(n + 1)
      BY <2>2, <3>1, <3>2, <3>3
    <3>6. \A b, d \in leasesMade' : b.id = d.id => b = d
      BY <2>2, <3>1, <3>2, <3>3
    <3>7. a.id \notin gate.revoked /\ a \notin closed
      BY <3>1, <3>2, <3>3
    <3>8. gate.revoked \subseteq 1..(n + 1)
      BY <3>1, <3>2
    <3> QED
      BY <1>1, <2>2, <3>1, <3>4, <3>5, <3>6, <3>7, <3>8 DEF ByIdentity
  <2>3. CASE status.id > 0 /\ lease' = SnapshotLease(Cardinality(leasesMade) + 1, scope)
             /\ leasesMade' = leasesMade \cup {SnapshotLease(Cardinality(leasesMade) + 1, scope)}
    <3>1. PICK a : a = SnapshotLease(Cardinality(leasesMade) + 1, scope)
      OBVIOUS
    <3>2. a.id = Cardinality(leasesMade) + 1
      BY <3>1 DEF SnapshotLease
    <3> QED
      BY <2>2, <2>3, <3>1, <3>2
  <2> QED
    BY <2>1, <2>3 DEF SignSnapshotLease
<1>3. RequestsSane'
  BY <1>1, <1>2, RequestsStay DEF GateInv
<1>4. GateTypes' /\ InSequence' /\ EntriesClean'
  BY <1>1 DEF GateInv, GateTypes, InSequence, EntriesClean
<1> QED
  BY <1>2, <1>3, <1>4 DEF GateInv

\* A reversal of the snapshot gate closes the lease with the identity it names.
LEMMA SnapshotReversalStep ==
  ASSUME GateInv, NEW a \in leasesMade, NEW n, SnapshotReversal(a, n)
  PROVE  GateInv'
<1>1. UNCHANGED <<mode, lease, leasesMade, request, opened, entries>> /\ mode = "snapshot"
  BY DEF SnapshotReversal
<1>2. \/ gate' = gate /\ closed' = closed
      \/ /\ closed' = closed \cup {a}
         /\ \E id : gate' = [gate EXCEPT !.reversalSequence = n, !.nonces = @ \cup {id},
                                         !.revoked = @ \cup {a.id}]
  BY DEF SnapshotReversal
<1>3. DOMAIN gate = GateFields
  BY DEF GateInv, GateTypes
<1>4. /\ DOMAIN gate' = GateFields /\ gate'.active = gate.active
      /\ \/ gate'.revoked = gate.revoked /\ closed' = closed
         \/ gate'.revoked = gate.revoked \cup {a.id} /\ closed' = closed \cup {a}
  BY <1>2, <1>3 DEF GateFields
<1>5. ByIdentity'
  BY <1>1, <1>4 DEF GateInv, ByIdentity
<1>6. RequestsSane'
  BY <1>1, RequestsStay DEF GateInv
<1>7. GateTypes' /\ InSequence' /\ EntriesClean'
  BY <1>1, <1>4 DEF GateInv, GateTypes, InSequence, EntriesClean
<1> QED
  BY <1>5, <1>6, <1>7 DEF GateInv

\* A request starts with the visible publication and the inbox.
LEMMA ReadInputsStep ==
  ASSUME PublisherInv, GateInv, NEW q \in Requests, NEW kind \in {"evaluate", "readiness"}, NEW w,
         ReadInputs(q, kind, w)
  PROVE  GateInv' /\ Seen' \subseteq Seen
<1>1. /\ UNCHANGED <<mode, reversal, reversals, gate, lease, leasesMade, opened, closed, entries,
                     file, synced>>
      /\ mode = "published" /\ file # None
  BY DEF ReadInputs, publisherVars
<1>2. DOMAIN request = Requests /\ IsPublication(file) /\ IsReversal(reversal)
  BY <1>1 DEF GateInv, GateTypes, PublisherInv, PublicationTypes
<1>3. /\ DOMAIN request' = Requests
      /\ \A x \in Requests \ {q} : request'[x] = request[x]
      /\ request'[q].stage = kind /\ request'[q].publication = file /\ request'[q].reversal = reversal
  BY <1>2 DEF ReadInputs
<1>4. RequestsSane'
  <2> SUFFICES ASSUME NEW x \in Requests
               PROVE  /\ request'[x].stage \in {"idle", "evaluate", "readiness", "accept", "admitted"}
                      /\ Reading(x)' =>
                           /\ mode' = "published"
                           /\ request'[x].publication # None /\ IsPublication(request'[x].publication)
                           /\ IsReversal(request'[x].reversal)
                      /\ request'[x].stage = "accept" =>
                           /\ mode' = "snapshot" /\ request'[x].lease \in leasesMade'
                           /\ ~Healthy(request'[x].snapshot)
    BY DEF RequestsSane, IsPublication, IsReversal, Healthy, None
  <2>1. CASE x = q
    BY <1>1, <1>2, <1>3, <2>1
  <2>2. CASE x # q
    BY <1>1, <1>3, <2>2 DEF GateInv, RequestsSane, Reading
  <2> QED
    BY <2>1, <2>2
<1>5. Seen' \subseteq Seen
  <2>1. Marked(file)' = Marked(file) /\ Marked(synced)' = Marked(synced)
    BY <1>1 DEF Marked, SequenceOf, None
  <2>2. ASSUME NEW x \in Requests, Reading(x)'
        PROVE  Marked(request[x].publication)' \in Seen
    <3>1. CASE x = q
      <4>1. Marked(request[x].publication)' = Marked(file)
        BY <1>3, <3>1 DEF Marked, SequenceOf, None
      <4> QED
        BY <4>1 DEF Seen
    <3>2. CASE x # q
      <4>1. Marked(request[x].publication)' = Marked(request[x].publication) /\ Reading(x)
        BY <1>3, <2>2, <3>2 DEF Marked, SequenceOf, None, Reading
      <4> QED
        BY <4>1 DEF Seen
    <3> QED
      BY <3>1, <3>2
  <2> QED
    BY <1>1, <2>1, <2>2 DEF Seen
<1>6. GateTypes' /\ InSequence' /\ EntriesClean'
  BY <1>1, <1>3 DEF GateInv, GateTypes, InSequence, Ordered, EntriesClean, IsReversal, None
<1>7. ByIdentity'
  BY <1>1 DEF GateInv, ByIdentity
<1> QED
  BY <1>4, <1>5, <1>6, <1>7 DEF GateInv

(***************************************************************************)
(* A request of the published gate is answered: the state becomes one that *)
(* keeps the order, at a floor the request or the gate already knew.       *)
(***************************************************************************)
LEMMA AnsweredStep ==
  ASSUME GateInv, NEW q \in Requests, Reading(q), NEW h, GateBecomes(h),
         UNCHANGED <<mode, reversal, reversals, lease, leasesMade, file, synced>>,
         Ordered(h, opened, closed \cup ClosedBy(h)),
         <<h.floor, h.floorId>> \in {<<gate.floor, gate.floorId>>,
           <<request[q].publication.sequence, request[q].publication.id>>},
         DOMAIN request' = Requests,
         \A x \in Requests : request'[x] = request[x] \/ request'[x].stage \in {"idle", "admitted"},
         EntriesClean'
  PROVE  GateInv' /\ Seen' \subseteq Seen /\ Ordered(h, opened', closed')
<1>1. mode = "published" /\ request[q].publication # None
  BY DEF GateInv, RequestsSane
<1>2. gate' = h /\ opened' = opened \cup ({h.active} \ {None}) /\ closed' = closed \cup ClosedBy(h)
  BY DEF GateBecomes, ClosedBy
<1> DEFINE closing == closed \cup ClosedBy(h)
<1>3. Ordered(h, opened', closed')
  <2>1. Ordered(h, opened, closing)
    OBVIOUS
  <2> HIDE DEF closing
  <2>2. Ordered(h, opened \cup ({h.active} \ {None}), closing)
    BY <2>1, OpenedOrdered
  <2> QED
    BY <1>2, <2>2 DEF closing
<1>4. InSequence'
  BY <1>2, <1>3 DEF InSequence, Ordered, None
<1>5. GateTypes' /\ ByIdentity'
  BY <1>1, <1>2, <1>3 DEF GateInv, GateTypes, ByIdentity, Ordered, IsReversal, None
<1>6. RequestsSane'
  BY RequestsStay DEF GateInv
<1>7. Seen' \subseteq Seen
  <2>1. Marked(file)' = Marked(file) /\ Marked(synced)' = Marked(synced)
    BY DEF Marked, SequenceOf, None
  <2>2. ASSUME NEW x \in Requests, Reading(x)'
        PROVE  Reading(x) /\ Marked(request[x].publication)' = Marked(request[x].publication)
    BY <2>2 DEF Reading, Marked, SequenceOf, None
  <2>3. <<gate'.floor, gate'.floorId>> \in Seen
    <3>1. Marked(request[q].publication) = <<request[q].publication.sequence, request[q].publication.id>>
      BY <1>1 DEF Marked, SequenceOf
    <3> QED
      BY <1>2, <3>1 DEF Seen
  <2> QED
    BY <2>1, <2>2, <2>3 DEF Seen
<1> QED
  BY <1>3, <1>4, <1>5, <1>6, <1>7 DEF GateInv

LEMMA ReadinessStep ==
  ASSUME GateInv, NEW q \in Requests, Readiness(q)
  PROVE  GateInv' /\ Seen' \subseteq Seen
<1> DEFINE p == request[q].publication
           r == request[q].reversal
           t == request[q].at
           h == ReadyGate(gate, p, r, t)
<1>1. /\ Reading(q) /\ GateBecomes(h)
      /\ UNCHANGED <<mode, reversal, reversals, lease, leasesMade, file, synced, entries>>
      /\ request' = [request EXCEPT ![q] = Resting]
  BY DEF Readiness, Reading, publisherVars
<1>2. Ordered(gate, opened, closed) /\ IsReversal(r) /\ p.lease \in Leases /\ DOMAIN request = Requests
  BY <1>1 DEF GateInv, RequestsSane, GateTypes, InSequence, IsPublication
<1>3. /\ Ordered(h, opened, closed \cup ClosedBy(h))
      /\ <<h.floor, h.floorId>> \in {<<gate.floor, gate.floorId>>, <<p.sequence, p.id>>}
  <2> HIDE DEF p, r, t
  <2> QED
    BY <1>2, ReadyOrdered
<1> HIDE DEF h
<1>4. /\ DOMAIN request' = Requests
      /\ \A x \in Requests : request'[x] = request[x] \/ request'[x].stage \in {"idle", "admitted"}
  BY <1>1, <1>2 DEF Resting
<1>5. EntriesClean'
  BY <1>1 DEF GateInv, EntriesClean
<1> QED
  BY <1>1, <1>3, <1>4, <1>5, AnsweredStep

LEMMA EvaluateStep ==
  ASSUME GateInv, NEW q \in Requests, Evaluate(q)
  PROVE  GateInv' /\ Seen' \subseteq Seen
<1> DEFINE p == request[q].publication
           r == request[q].reversal
           t == request[q].at
           h == EvaluatedGate(gate, p, r, t)
           outcome == EvaluateOutcome(gate, p, r, t, request[q].work)
           under == IF Healthy(p.snapshot) THEN None ELSE p.lease
<1>1. /\ Reading(q) /\ GateBecomes(h) /\ Admit(q, outcome, under, p.snapshot)
      /\ UNCHANGED <<mode, reversal, reversals, lease, leasesMade, file, synced>>
  BY DEF Evaluate, Reading, publisherVars
<1>2. Ordered(gate, opened, closed) /\ IsReversal(r) /\ p.lease \in Leases /\ DOMAIN request = Requests
  BY <1>1 DEF GateInv, RequestsSane, GateTypes, InSequence, IsPublication
<1>3. /\ Ordered(h, opened, closed \cup ClosedBy(h))
      /\ <<h.floor, h.floorId>> \in {<<gate.floor, gate.floorId>>, <<p.sequence, p.id>>}
      /\ outcome = "continue" => \/ Healthy(p.snapshot) /\ h.active = None
                                 \/ ~Healthy(p.snapshot) /\ h.active = p.lease
  <2> HIDE DEF p, r, t
  <2> QED
    BY <1>2, EvaluatedOrdered
<1> HIDE DEF h, outcome
<1>4. /\ DOMAIN request' = Requests
      /\ \A x \in Requests : request'[x] = request[x] \/ request'[x].stage \in {"idle", "admitted"}
  BY <1>1, <1>2 DEF Admit, Resting
<1>5. EntriesClean'
  <2>0. \A e \in entries : ~e.closed /\ ~e.owed
    BY DEF GateInv, EntriesClean
  <2>1. CASE outcome # "continue"
    BY <1>1, <2>0, <2>1 DEF Admit, EntriesClean
  <2>2. CASE outcome = "continue"
    <3>1. opened' = opened \cup ({h.active} \ {None}) /\ closed' = closed \cup ClosedBy(h)
      BY <1>1 DEF GateBecomes, ClosedBy
    <3>2. /\ h.active \notin closed' /\ closed' \subseteq Leases
          /\ opened' \ closed' \subseteq {h.active} /\ opened' \subseteq Leases
      BY <1>3, <3>1 DEF Ordered
    <3>3. None \notin Leases
      BY LeasesAssumption
    <3>4. under \notin closed' /\ ~(Healthy(p.snapshot) /\ opened' \ closed' # {})
      BY <1>3, <2>2, <3>2, <3>3
    <3>5. entries' = entries \cup {[closed |-> under \in closed',
                                    owed |-> Healthy(p.snapshot) /\ opened' \ closed' # {}]}
      BY <1>1, <2>2 DEF Admit
    <3> HIDE DEF under, p
    <3>6. (under \in closed') = FALSE /\ (Healthy(p.snapshot) /\ opened' \ closed' # {}) = FALSE
      BY <3>4
    <3>7. entries' = entries \cup {[closed |-> FALSE, owed |-> FALSE]}
      BY <3>5, <3>6, Zenon
    <3> QED
      BY <2>0, <3>7 DEF EntriesClean
  <2> QED
    BY <2>1, <2>2
<1> QED
  BY <1>1, <1>3, <1>4, <1>5, AnsweredStep

\* A request of the snapshot gate.  In a normal condition it passes when the
\* newest lease was closed; otherwise it holds the lease it read.
LEMMA SnapshotReadsStep ==
  ASSUME GateInv, NEW q \in Requests, NEW w, SnapshotReads(q, w)
  PROVE  GateInv' /\ Seen' \subseteq Seen
<1> DEFINE s == SnapshotOf(status)
<1>1. /\ UNCHANGED <<mode, reversal, reversals, gate, lease, leasesMade, opened, closed, file, synced>>
      /\ mode = "snapshot"
  BY DEF SnapshotReads, publisherVars
<1>2. /\ DOMAIN request = Requests
      /\ \A e \in entries : ~e.closed /\ ~e.owed
      /\ \A a \in leasesMade : a.id \in 1..Cardinality(leasesMade)
      /\ lease # None => lease \in leasesMade
      /\ closed \subseteq leasesMade
      /\ \A a \in leasesMade : a.id \in gate.revoked <=> a \in closed
      /\ opened \subseteq leasesMade \cap {gate.active}
  BY <1>1 DEF GateInv, GateTypes, EntriesClean, ByIdentity
<1>3. InSequence' /\ ByIdentity'
  BY <1>1 DEF GateInv, InSequence, ByIdentity
<1>4. CASE /\ gate.active = None \/ LeaseRevoked(gate, gate.active)
           /\ Admit(q, "continue", None, s)
  <2>1. /\ DOMAIN request' = Requests
        /\ \A x \in Requests : request'[x] = request[x] \/ request'[x].stage \in {"idle", "admitted"}
    BY <1>2, <1>4 DEF Admit
  <2>2. None \notin leasesMade
    BY <1>2 DEF None
  <2>3. None \notin closed' /\ opened' \ closed' = {}
    BY <1>1, <1>2, <1>4, <2>2 DEF LeaseRevoked
  <2>4. entries' = entries \cup {[closed |-> None \in closed',
                                  owed |-> Healthy(s) /\ opened' \ closed' # {}]}
    BY <1>4 DEF Admit
  <2> HIDE DEF s
  <2>5. (None \in closed') = FALSE /\ (Healthy(s) /\ opened' \ closed' # {}) = FALSE
    BY <2>3
  <2>6. entries' = entries \cup {[closed |-> FALSE, owed |-> FALSE]}
    BY <2>4, <2>5, Zenon
  <2>7. EntriesClean'
    BY <1>2, <2>6 DEF EntriesClean
  <2>8. RequestsSane'
    BY <1>1, <2>1, RequestsStay DEF GateInv
  <2>9. Seen' \subseteq Seen
    BY <1>1, <2>1, SeenShrinks
  <2>10. GateTypes'
    BY <1>1, <2>1 DEF GateInv, GateTypes
  <2> QED
    BY <1>3, <2>7, <2>8, <2>9, <2>10 DEF GateInv
<1>5. CASE /\ lease # None /\ ~SnapshotLeaseUnusable(lease, s, SnapshotFresh(s, now), SnapshotLifetime, now)
           /\ request' = [request EXCEPT ![q] = [stage |-> "accept", work |-> w,
                                                 lease |-> lease, snapshot |-> s]]
           /\ UNCHANGED entries
  <2>1. ~Healthy(s) /\ lease \in leasesMade
    BY <1>2, <1>5 DEF SnapshotLeaseUnusable, Healthy
  <2> HIDE DEF s
  <2>2. /\ DOMAIN request' = Requests
        /\ \A x \in Requests \ {q} : request'[x] = request[x]
        /\ request'[q].stage = "accept" /\ request'[q].lease = lease /\ request'[q].snapshot = s
    BY <1>2, <1>5
  <2>3. RequestsSane'
    <3> SUFFICES ASSUME NEW x \in Requests
                 PROVE  /\ request'[x].stage \in {"idle", "evaluate", "readiness", "accept", "admitted"}
                        /\ Reading(x)' =>
                             /\ mode' = "published"
                             /\ request'[x].publication # None /\ IsPublication(request'[x].publication)
                             /\ IsReversal(request'[x].reversal)
                        /\ request'[x].stage = "accept" =>
                             /\ mode' = "snapshot" /\ request'[x].lease \in leasesMade'
                             /\ ~Healthy(request'[x].snapshot)
      BY DEF RequestsSane, IsPublication, IsReversal, Healthy, None
    <3>1. CASE x = q
      BY <1>1, <2>1, <2>2, <3>1 DEF Reading
    <3>2. CASE x # q
      BY <1>1, <2>2, <3>2 DEF GateInv, RequestsSane, Reading
    <3> QED
      BY <3>1, <3>2
  <2>4. Seen' \subseteq Seen
    <3>1. Marked(file)' = Marked(file) /\ Marked(synced)' = Marked(synced)
      BY <1>1 DEF Marked, SequenceOf, None
    <3>2. ASSUME NEW x \in Requests, Reading(x)'
          PROVE  Reading(x) /\ Marked(request[x].publication)' = Marked(request[x].publication)
      BY <2>2, <3>2 DEF Reading, Marked, SequenceOf, None
    <3> QED
      BY <1>1, <3>1, <3>2 DEF Seen
  <2>5. GateTypes' /\ EntriesClean'
    BY <1>1, <1>5, <2>2 DEF GateInv, GateTypes, EntriesClean
  <2> QED
    BY <1>3, <2>3, <2>4, <2>5 DEF GateInv
<1> QED
  BY <1>4, <1>5 DEF SnapshotReads

\* The lease is accepted only when no reversal named it, also one that came
\* after the request had read the state.
LEMMA SnapshotAcceptsStep ==
  ASSUME GateInv, NEW q \in Requests, SnapshotAccepts(q)
  PROVE  GateInv' /\ Seen' \subseteq Seen
<1> DEFINE a == request[q].lease
           refused == SnapshotRefuses(gate, a)
           outcome == IF refused THEN "safe_state" ELSE LeaseOutcome(a, request[q].work)
<1>1. /\ UNCHANGED <<mode, reversal, reversals, lease, leasesMade, closed, file, synced>>
      /\ request[q].stage = "accept"
      /\ gate' = IF refused THEN gate ELSE Activated(gate, a)
      /\ opened' = IF refused THEN opened ELSE {a}
      /\ Admit(q, outcome, a, request[q].snapshot)
  BY DEF SnapshotAccepts, publisherVars
<1>2. mode = "snapshot" /\ a \in leasesMade /\ ~Healthy(request[q].snapshot)
  BY <1>1 DEF GateInv, RequestsSane
<1>3. /\ DOMAIN request = Requests /\ DOMAIN gate = GateFields
      /\ \A e \in entries : ~e.closed /\ ~e.owed
      /\ \A b \in leasesMade : b.id \in gate.revoked <=> b \in closed
      /\ opened \subseteq leasesMade \cap {gate.active}
      /\ gate.active # None => gate.active \in leasesMade
  BY <1>2 DEF GateInv, GateTypes, EntriesClean, ByIdentity
<1>4. /\ DOMAIN gate' = GateFields /\ gate'.floor = gate.floor /\ gate'.floorId = gate.floorId
      /\ gate'.revoked = gate.revoked
      /\ refused => gate'.active = gate.active
      /\ ~refused => gate'.active = a
  BY <1>1, <1>3 DEF Activated, GateFields
<1>5. ~refused => a \notin closed
  BY <1>2, <1>3 DEF SnapshotRefuses, LeaseRevoked
<1> HIDE DEF refused
<1>6. ByIdentity'
  <2>1. opened' \subseteq leasesMade' \cap {gate'.active} /\ (gate'.active # None => gate'.active \in leasesMade')
    BY <1>1, <1>2, <1>3, <1>4
  <2> QED
    BY <1>1, <1>2, <1>4, <2>1 DEF GateInv, ByIdentity
<1>7. /\ DOMAIN request' = Requests
      /\ \A x \in Requests : request'[x] = request[x] \/ request'[x].stage \in {"idle", "admitted"}
  BY <1>1, <1>3 DEF Admit, Resting
<1>8. EntriesClean'
  <2>1. CASE outcome # "continue"
    BY <1>1, <1>3, <2>1 DEF Admit, EntriesClean
  <2>2. CASE outcome = "continue"
    <3>1. a \notin closed' /\ ~Healthy(request[q].snapshot)
      BY <1>1, <1>2, <1>5, <2>2
    <3>2. entries' = entries \cup {[closed |-> a \in closed',
                                    owed |-> Healthy(request[q].snapshot) /\ opened' \ closed' # {}]}
      BY <1>1, <2>2 DEF Admit
    <3>3. (a \in closed') = FALSE /\ (Healthy(request[q].snapshot) /\ opened' \ closed' # {}) = FALSE
      BY <3>1
    <3>4. entries' = entries \cup {[closed |-> FALSE, owed |-> FALSE]}
      BY <3>2, <3>3, Zenon
    <3> QED
      BY <1>3, <3>4 DEF EntriesClean
  <2> QED
    BY <2>1, <2>2
<1>9. RequestsSane'
  BY <1>1, <1>7, RequestsStay DEF GateInv
<1>10. Seen' \subseteq Seen
  <2>1. Marked(file)' = Marked(file) /\ Marked(synced)' = Marked(synced)
    BY <1>1 DEF Marked, SequenceOf, None
  <2>2. ASSUME NEW x \in Requests, Reading(x)'
        PROVE  Reading(x) /\ Marked(request[x].publication)' = Marked(request[x].publication)
    BY <1>7, <2>2 DEF Reading, Marked, SequenceOf, None
  <2> QED
    BY <1>4, <2>1, <2>2 DEF Seen
<1>11. GateTypes' /\ InSequence'
  BY <1>1, <1>2, <1>4, <1>7 DEF GateInv, GateTypes, InSequence
<1> QED
  BY <1>6, <1>8, <1>9, <1>10, <1>11 DEF GateInv

----------------------------------------------------------------------------
(* The specification. *)

LEMMA DegradedInitially == Init => DegradedInv
<1> SUFFICES ASSUME Init
             PROVE  DegradedInv
  OBVIOUS
<1>1. /\ file = None /\ synced = None /\ installed \in Leases /\ made = 0
      /\ pstate = [allocated |-> 0, latest |-> 0, latestId |-> 0, status |-> 0, statusId |-> 0]
      /\ publisher.stage = "idle" /\ checker.stage = "idle"
  BY DEF Init, PublicationInit, Resting
<1>2. SequenceOf(None) = 0 /\ IsPublication(None) /\ None.id = 0
  BY DEF SequenceOf, IsPublication, None
<1>3. PublicationTypes
  BY <1>1, <1>2 DEF PublicationTypes, IsState, StateFields
<1>4. FileFollows /\ PublisherSane /\ CheckerSane
  BY <1>1, <1>2 DEF FileFollows, Lost, PublisherSane, CheckerSane
<1>5. \A q \in Requests : request[q].stage = "idle" /\ ~Reading(q)
  BY DEF Init, Resting, Reading
<1>6. Seen = {<<0, 0>>}
  <2>1. Marked(None) = <<0, 0>> /\ gate.floor = 0 /\ gate.floorId = 0
    BY <1>2 DEF Marked, Init, InitialGate
  <2> QED
    BY <1>1, <1>5, <2>1 DEF Seen
<1>7. SeenOnce
  BY <1>1, <1>6 DEF SeenOnce
<1>8. GateTypes /\ RequestsSane /\ EntriesClean
  BY <1>5 DEF Init, GateTypes, RequestsSane, EntriesClean, InitialGate, GateFields, IsReversal
<1>9. InSequence
  BY DEF Init, InSequence, Ordered, InitialGate, GateFields
<1>10. ByIdentity
  BY FS_EmptySet DEF Init, ByIdentity, InitialGate
<1> QED
  BY <1>3, <1>4, <1>7, <1>8, <1>9, <1>10 DEF DegradedInv, PublisherInv, GateInv

LEMMA DegradedStep ==
  ASSUME DegradedInv, [Next]_vars
  PROVE  DegradedInv'
<1> USE DEF DegradedInv
<1>1. CASE UNCHANGED vars
  <2>1. UNCHANGED gateVars /\ UNCHANGED publisherVars
    BY <1>1 DEF vars
  <2>2. PublisherInv'
    BY <2>1, InputSteps DEF publisherVars, PublisherInv, PublicationTypes
  <2>3. Seen' \subseteq Seen /\ GateInv'
    BY <2>1, SeenShrinks, QuietStep DEF publisherVars, gateVars, GateInv, GateTypes
  <2> QED
    BY <2>1, <2>2, <2>3, SeenStays DEF publisherVars
<1>2. CASE (StatusStep \/ PublicationStep) /\ UNCHANGED gateVars
  <2>1. PublisherInv' /\ SeenOnce'
    BY <1>2, PublicationSteps
  <2>2. GateInv'
    BY <1>2, QuietStep DEF gateVars, GateInv, GateTypes
  <2> QED
    BY <2>1, <2>2
<1>3. ASSUME UNCHANGED <<installed, file, synced, pstate, publisher, checker, made>>,
             GateInv', Seen' \subseteq Seen
      PROVE  DegradedInv'
  BY <1>3, InputSteps, SeenStays DEF PublisherInv, PublicationTypes
<1>4. CASE \/ Tick \/ RestartGateway \/ \E q \in Requests : EnterAssurance(q)
  <2>1. /\ UNCHANGED <<installed, file, synced, pstate, publisher, checker, made>>
        /\ UNCHANGED <<mode, reversal, reversals, gate, lease, leasesMade, opened, closed, entries>>
        /\ DOMAIN request' = Requests
        /\ \A q \in Requests : request'[q] = request[q] \/ request'[q].stage \in {"idle", "admitted"}
    <3>1. DOMAIN request = Requests
      BY DEF GateInv, GateTypes
    <3> QED
      BY <1>4, <3>1 DEF Tick, RestartGateway, EnterAssurance, gateVars, publisherVars, Resting
  <2>2. GateInv' /\ Seen' \subseteq Seen
    BY <2>1, QuietStep, SeenShrinks
  <2> QED
    BY <1>3, <2>1, <2>2
<1>5. ASSUME NEW a \in Leases, NEW n, InjectReversal(a, n)
      PROVE  DegradedInv'
  <2>1. /\ UNCHANGED <<installed, file, synced, pstate, publisher, checker, made>>
        /\ UNCHANGED <<gate, request>>
    BY <1>5 DEF InjectReversal, others
  <2> QED
    BY <1>3, <1>5, <2>1, InjectReversalStep, SeenShrinks
<1>6. ASSUME NEW scope, SignSnapshotLease(scope)
      PROVE  DegradedInv'
  <2>1. /\ UNCHANGED <<installed, file, synced, pstate, publisher, checker, made>>
        /\ UNCHANGED <<gate, request>>
    BY <1>6 DEF SignSnapshotLease, others
  <2> QED
    BY <1>3, <1>6, <2>1, SignSnapshotLeaseStep, SeenShrinks
<1>7. ASSUME NEW a \in leasesMade, NEW n, SnapshotReversal(a, n)
      PROVE  DegradedInv'
  <2>1. /\ UNCHANGED <<installed, file, synced, pstate, publisher, checker, made>>
        /\ UNCHANGED request
    BY <1>7 DEF SnapshotReversal, others
  <2>2. gate'.floor = gate.floor /\ gate'.floorId = gate.floorId
    BY <1>7 DEF SnapshotReversal, GateInv, GateTypes, GateFields
  <2>3. Seen' \subseteq Seen
    <3>1. Marked(file)' = Marked(file) /\ Marked(synced)' = Marked(synced)
      BY <2>1 DEF Marked, SequenceOf, None
    <3>2. \A q \in Requests : /\ Reading(q)' <=> Reading(q)
                              /\ Marked(request[q].publication)' = Marked(request[q].publication)
      BY <2>1 DEF Reading, Marked, SequenceOf, None
    <3> QED
      BY <2>2, <3>1, <3>2 DEF Seen
  <2> QED
    BY <1>3, <1>7, <2>1, <2>3, SnapshotReversalStep
<1>8. ASSUME NEW q \in Requests,
             \/ \E w \in Work, kind \in {"evaluate", "readiness"} : ReadInputs(q, kind, w)
             \/ Evaluate(q) \/ Readiness(q)
             \/ \E w \in Work : SnapshotReads(q, w)
             \/ SnapshotAccepts(q)
      PROVE  DegradedInv'
  <2>1. UNCHANGED <<installed, file, synced, pstate, publisher, checker, made>>
    BY <1>8 DEF ReadInputs, Evaluate, Readiness, SnapshotReads, SnapshotAccepts, publisherVars
  <2>2. GateInv' /\ Seen' \subseteq Seen
    BY <1>8, ReadInputsStep, EvaluateStep, ReadinessStep, SnapshotReadsStep, SnapshotAcceptsStep
  <2> QED
    BY <1>3, <2>1, <2>2
<1> QED
  BY <1>1, <1>2, <1>4, <1>5, <1>6, <1>7, <1>8 DEF Next

(***************************************************************************)
(* The inductive invariant of publisher and gates: the durable state and   *)
(* the output file differ by at most the one publication under way, a      *)
(* sequence number stands for one publication wherever it is remembered,   *)
(* and leases are opened and closed one after another.                     *)
(***************************************************************************)
THEOREM DegradedInvariant == Spec => []DegradedInv
<1>1. Init => DegradedInv
  BY DegradedInitially
<1>2. DegradedInv /\ [Next]_vars => DegradedInv'
  BY DegradedStep
<1> QED
  BY <1>1, <1>2, PTL DEF Spec

----------------------------------------------------------------------------
(* What ends the publisher's work, and that it is the end. *)

\* Whoever writes the state file found the directory intact.
LitterSane == litter => publisher.stage # "writing" /\ checker.stage # "writing"

\* The steps of the publisher and its health check, as Next has them.
LEMMA NextSplit ==
  ASSUME [Next]_vars
  PROVE  \/ Allocate \/ PublisherWrites \/ Replace \/ Sync \/ Commit
         \/ CheckReconciles \/ CheckWrites \/ Kill \/ PowerLoss
         \/ /\ UNCHANGED <<file, synced, pstate, litter, made>>
            /\ publisher' = publisher \/ publisher'.stage = "allocate"
            /\ checker' = checker \/ checker'.stage = "read"
<1> USE DEF Next, vars, publisherVars, others
<1>1. CASE StatusStep
  BY <1>1 DEF StatusStep, InjectStatus
<1>2. CASE PublicationStep
  BY <1>2 DEF PublicationStep, Bootstrap, InstallLease, BeginPublish, CheckReads
<1>3. CASE Tick \/ RestartGateway \/ UNCHANGED vars
  BY <1>3 DEF Tick, RestartGateway
<1>4. ASSUME NEW a, NEW n, InjectReversal(a, n) \/ SnapshotReversal(a, n)
      PROVE  UNCHANGED <<file, synced, pstate, litter, made, publisher, checker>>
  BY <1>4 DEF InjectReversal, SnapshotReversal
<1>5. ASSUME NEW w, SignSnapshotLease(w)
      PROVE  UNCHANGED <<file, synced, pstate, litter, made, publisher, checker>>
  BY <1>5 DEF SignSnapshotLease
<1>6. ASSUME NEW q, NEW w, NEW k,
             \/ ReadInputs(q, k, w) \/ Evaluate(q) \/ Readiness(q) \/ SnapshotReads(q, w)
             \/ SnapshotAccepts(q) \/ EnterAssurance(q)
      PROVE  UNCHANGED <<file, synced, pstate, litter, made, publisher, checker>>
  BY <1>6 DEF ReadInputs, Evaluate, Readiness, SnapshotReads, SnapshotAccepts, EnterAssurance
<1> QED
  BY <1>1, <1>2, <1>3, <1>4, <1>5, <1>6

LEMMA LitterStep ==
  ASSUME PublisherInv, LitterSane, [Next]_vars
  PROVE  LitterSane'
<1> USE DEF LitterSane, LayoutIntact, Resting
<1>1. publisher.stage = "writing" => checker.stage # "writing"
  BY DEF PublisherInv, PublisherSane
<1>2. CASE Allocate
  BY <1>2 DEF Allocate
<1>3. CASE Commit
  BY <1>3 DEF Commit
<1>4. CASE CheckReconciles
  BY <1>4 DEF CheckReconciles
<1>5. CASE PublisherWrites \/ CheckWrites
  BY <1>5 DEF PublisherWrites, CheckWrites
<1>6. CASE Replace \/ Sync
  <2>1. publisher'.stage # "writing"
    BY <1>6 DEF Replace, Sync, PublisherInv, PublisherSane
  <2> QED
    BY <1>6, <2>1 DEF Replace, Sync
<1>7. CASE Kill
  <2>1. \/ publisher' = Resting /\ checker' = checker
        \/ checker' = Resting /\ publisher' = publisher
    BY <1>7 DEF Kill
  <2>2. litter' => \/ litter
                   \/ publisher' = Resting /\ publisher.stage = "writing"
                   \/ checker' = Resting /\ checker.stage = "writing"
    BY <1>7, Zenon DEF Kill
  <2> QED
    BY <1>1, <2>1, <2>2
<1>8. CASE PowerLoss
  BY <1>8 DEF PowerLoss
<1> QED
  BY <1>2, <1>3, <1>4, <1>5, <1>6, <1>7, <1>8, NextSplit

\* The step of PublisherRecovers.
RecoversStep ==
  /\ ~Wedged /\ Wedged' =>
       \/ "writing" \in {publisher.stage, checker.stage} /\ litter'
       \/ file' # file /\ file' = synced /\ SequenceOf(synced) < pstate.latest
  /\ Wedged => Wedged' /\ UNCHANGED <<pstate, made>>

LEMMA RecoversByStep ==
  ASSUME PublisherInv, PublisherInv', LitterSane, [Next]_vars
  PROVE  RecoversStep
<1>1. /\ litter \/ Lost => Wedged
      /\ Wedged => litter \/ Lost
      /\ litter' \/ Lost' => Wedged'
      /\ Wedged' => litter' \/ Lost'
  <2>1. /\ Reconcilable(pstate, file) <=> ~Lost
        /\ Reconcilable(pstate, file)' <=> ~Lost'
    BY ReconcilesVisible, PTL
  <2> QED
    BY <2>1, Zenon DEF Wedged
<1>2. /\ SequenceOf(file) \in Nat /\ IsState(pstate)
      /\ Lost <=> SequenceOf(file) < pstate.latest
  BY SequenceNat DEF PublisherInv, PublicationTypes, Lost
<1>3. Lost' <=> SequenceOf(file)' < pstate'.latest
  BY DEF Lost
<1>4. CASE UNCHANGED <<file, pstate, litter, made>>
  <2>1. Lost' <=> Lost
    BY <1>4 DEF Lost, SequenceOf, None
  <2> QED
    BY <1>1, <1>4, <2>1 DEF RecoversStep
<1>5. CASE PublisherWrites
  <2>1. /\ UNCHANGED <<file, synced, installed, litter>> /\ publisher.stage = "writing"
        /\ pstate' = publisher.next /\ made' \in Nat
    BY <1>5 DEF PublisherWrites, PublisherInv, PublicationTypes
  <2>2. /\ ~Lost /\ Adopts(publisher.next) /\ publisher.next.allocated >= pstate.allocated
    BY <1>2, <2>1 DEF PublisherInv, PublisherSane, FileFollows, IsState
  <2>3. ~Lost' /\ ~litter /\ ~litter'
    BY <2>1, <2>2, AdoptFollows DEF LitterSane
  <2> QED
    BY <1>1, <2>2, <2>3 DEF RecoversStep
<1>6. CASE CheckWrites
  <2>1. /\ UNCHANGED <<file, synced, installed, litter, made>> /\ checker.stage = "writing"
        /\ pstate' = checker.next /\ made' \in Nat
    BY <1>6 DEF CheckWrites, PublisherInv, PublicationTypes
  <2>2. /\ ~Lost /\ Adopts(checker.next) /\ checker.next.allocated >= pstate.allocated
    BY <1>2, <2>1 DEF PublisherInv, CheckerSane, FileFollows, IsState
  <2>3. ~Lost' /\ ~litter /\ ~litter'
    BY <2>1, <2>2, AdoptFollows DEF LitterSane
  <2> QED
    BY <1>1, <2>2, <2>3 DEF RecoversStep
<1>7. CASE Replace
  <2>1. /\ UNCHANGED <<pstate, litter, made>> /\ publisher.stage = "publish"
        /\ file' = publisher.publication
    BY <1>7 DEF Replace
  <2>2. /\ ~Lost /\ pstate.latest < pstate.allocated
        /\ NextPublication(publisher.publication, pstate.allocated)
    BY <1>2, <2>1 DEF PublisherInv, PublisherSane, FileFollows, Adopts
  <2>3. SequenceOf(file)' = pstate.allocated
    BY <2>1, <2>2 DEF SequenceOf, NextPublication, None
  <2>4. ~Lost'
    BY <1>2, <1>3, <2>1, <2>2, <2>3 DEF IsState
  <2> QED
    BY <1>1, <2>1, <2>2, <2>4 DEF RecoversStep
<1>8. CASE Kill
  <2>1. UNCHANGED <<file, pstate, made>>
    BY <1>8 DEF Kill
  <2>2. Lost' <=> Lost
    BY <2>1 DEF Lost, SequenceOf, None
  <2>3. /\ litter => litter'
        /\ ~litter /\ litter' => publisher.stage = "writing" \/ checker.stage = "writing"
    BY <1>8, Zenon DEF Kill
  <2> QED
    BY <1>1, <2>1, <2>2, <2>3, Zenon DEF RecoversStep
<1>9. CASE PowerLoss
  <2>1. UNCHANGED <<pstate, made>> /\ file' \in {file, synced}
    BY <1>9 DEF PowerLoss
  <2>6. /\ litter => litter'
        /\ ~litter /\ litter' => publisher.stage = "writing" \/ checker.stage = "writing"
    BY <1>9, Zenon DEF PowerLoss
  <2>2. file' = file => (Lost' <=> Lost)
    BY <2>1 DEF Lost, SequenceOf, None
  <2>3. file' = synced => SequenceOf(file)' = SequenceOf(synced)
    BY DEF SequenceOf, None
  <2>4. Lost => Lost'
    BY <2>1, <2>2 DEF PublisherInv, FileFollows
  <2>5. ~Lost /\ Lost' => file' # file /\ file' = synced /\ SequenceOf(synced) < pstate.latest
    BY <1>3, <2>1, <2>2, <2>3
  <2> QED
    BY <1>1, <2>1, <2>4, <2>5, <2>6, Zenon DEF RecoversStep
<1>10. CASE Allocate \/ Sync \/ Commit \/ CheckReconciles
  BY <1>4, <1>10 DEF Allocate, Sync, Commit, CheckReconciles
<1> QED
  BY <1>4, <1>5, <1>6, <1>7, <1>8, <1>9, <1>10, NextSplit

(***************************************************************************)
(* However publisher, health check, kills and power losses interleave, the *)
(* publisher can go on from its own output, except after a death that left *)
(* a temporary state file or a power loss that took back a committed       *)
(* publication; and then nothing is ever published again                   *)
(* (_reconciled_state, mutate).                                            *)
(***************************************************************************)
THEOREM PublisherAlwaysRecovers == Spec => PublisherRecovers
<1>1. Init => LitterSane
  BY DEF Init, PublicationInit, LitterSane
<1>2. DegradedInv /\ LitterSane /\ [Next]_vars => LitterSane'
  BY LitterStep DEF DegradedInv
<1>3. Spec => []LitterSane
  BY <1>1, <1>2, DegradedInvariant, PTL DEF Spec
<1>4. DegradedInv /\ DegradedInv' /\ LitterSane /\ [Next]_vars => [RecoversStep]_<<now, volumes, publisherVars>>
  BY RecoversByStep DEF DegradedInv
<1> QED
  BY <1>3, <1>4, DegradedInvariant, PTL DEF Spec, PublisherRecovers, RecoversStep

(***************************************************************************)
(* The visible publication and the gate's floor are never two publications *)
(* under one sequence number, for any number of requests, leases and       *)
(* faults (allocate, _consumer_state_reasons).                             *)
(***************************************************************************)
THEOREM FloorUnambiguous == Spec => []FloorNeverEquivocates
<1>1. DegradedInv => FloorNeverEquivocates
  <2> SUFFICES ASSUME DegradedInv, file # None, file.sequence = gate.floor
               PROVE  file.id = gate.floorId
    BY DEF FloorNeverEquivocates
  <2>1. Marked(file) = <<file.sequence, file.id>>
    BY DEF Marked, SequenceOf
  <2>2. <<file.sequence, file.id>> \in Seen /\ <<gate.floor, gate.floorId>> \in Seen
    BY <2>1 DEF Seen
  <2>3. <<file.sequence, file.id>> = <<gate.floor, gate.floorId>>
    BY <2>2 DEF DegradedInv, SeenOnce
  <2> QED
    BY <2>3
<1> QED
  BY <1>1, DegradedInvariant, PTL

(***************************************************************************)
(* A closed lease is never active again and admits nothing, and normal     *)
(* assurance owes no reversal, for any number of leases and of requests    *)
(* that overtake each other (evaluate, readiness, accept_authorization).   *)
(***************************************************************************)
THEOREM ReversalIsFinal == Spec => []ReversedLeaseStaysClosed
<1>1. DegradedInv => ReversedLeaseStaysClosed
  BY DEF DegradedInv, GateInv, InSequence, Ordered, EntriesClean, ReversedLeaseStaysClosed
<1> QED
  BY <1>1, DegradedInvariant, PTL

===============================================================================
