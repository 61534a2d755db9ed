--------------------------- MODULE CoordinationAnchor --------------------------
(***************************************************************************)
(* The external coordination anchor: an authority outside the local        *)
(* rollback domain keeps a chain of anchors, each the projection of an     *)
(* aligned local store, and hands out fencing tokens.  A site (an OT       *)
(* service with its journals and checkpoint) is admitted to change its     *)
(* store only while the store is exactly what the authority holds and the  *)
(* site has the authority's current fence; it then advances the anchor.    *)
(* The adapter that calls these parts in the order below is outside the    *)
(* repository; the order is the one of run_m4i_anchor_campaign.            *)
(***************************************************************************)
EXTENDS Naturals, Sequences, FiniteSets, TLC

CONSTANTS
    Sites,       \* OT services that share one anchor stream
    MaxToken,    \* bound on fences issued
    MaxChanges,  \* bound on admitted changes
    MaxRestores  \* bound on rollbacks of a site or of the authority

ASSUME AnchorAssumption ==
    MaxToken \in Nat /\ MaxChanges \in Nat /\ MaxRestores \in Nat

Absent == [none |-> TRUE]

VARIABLES
    chain,     \* the authority's anchors, oldest first
    token,     \* the authority's fencing token
    store,     \* the local projection of each site
    rb,        \* the signed readback a site's call holds
    fence,     \* the fence grant a site holds
    floor,     \* the trusted anchor floor a site retains
    saved,     \* earlier states of a site that may be put back
    change,    \* history: for every change, the line of changes it is part of
    restores,  \* rollbacks so far
    accepted   \* history: anchors a site accepted since it last lost its floor

anchorVars == <<chain, token, store, rb, fence, floor, saved, change, restores, accepted>>

(***************************************************************************)
(* Records.  A digest is the identity of what it is taken of: an anchor is *)
(* identified by the number of the restore epoch and its sequence, a store *)
(* by the change that produced it (journal) and how that change ended.     *)
(***************************************************************************)
Ids == [epoch : 0..MaxRestores, seq : Nat]

Projection ==
    [journal : Nat,                           \* the last change it contains
     status : {"aligned", "recovery_required", "inconsistent"},
     version : Nat, plant : Nat,              \* plant state: version and digest
     token : Nat,                             \* writer_fencing_token
     base : Ids \cup {Absent}]                  \* based_on_anchor_sequence, _sha256

Genesis == [journal |-> 0, status |-> "aligned", version |-> 0, plant |-> 0,
            token |-> 0, base |-> Absent]

Anchor == [id : Ids, prev : Ids \cup {Absent}, token : Nat, projection : Projection]

GenesisAnchor == [id |-> [epoch |-> 0, seq |-> 0], prev |-> Absent, token |-> 0,
                  projection |-> Genesis]

Readback == [anchor : Anchor, token : Nat]

FenceGrant == [base : Ids, token : Nat, live : BOOLEAN]

Floor == [id : Ids, token : Nat]

Current == chain[Len(chain)]

AnchorTypeOK ==
    /\ chain \in Seq(Anchor) /\ chain # <<>>
    /\ token \in 0..MaxToken
    /\ store \in [Sites -> Projection]
    /\ rb \in [Sites -> Readback \cup {Absent}]
    /\ fence \in [Sites -> FenceGrant \cup {Absent}]
    /\ floor \in [Sites -> Floor \cup {Absent}]
    /\ saved \in [Sites -> SUBSET (Projection \X (Floor \cup {Absent}))]
    /\ change \in Seq([token : Nat, line : SUBSET Nat])
    /\ restores \in 0..MaxRestores
    /\ accepted \in [Sites -> SUBSET Ids]

AnchorInit ==
    /\ chain = <<GenesisAnchor>>
    /\ token = 0
    /\ store = [s \in Sites |-> Genesis]
    /\ rb = [s \in Sites |-> Absent]
    /\ fence = [s \in Sites |-> Absent]
    /\ floor = [s \in Sites |-> Absent]
    /\ saved = [s \in Sites |-> {}]
    /\ change = <<>>
    /\ restores = 0
    /\ accepted = [s \in Sites |-> {}]

--------------------------------------------------------------------------------
(***************************************************************************)
(* validate_anchored_coordination_recovery                                 *)
(***************************************************************************)
\* _valid_floor: the readback is the floor's anchor or its direct successor.
FloorAccepts(r, f) ==
    \/ f = Absent
    \/ /\ r.token >= f.token
       /\ \/ r.anchor.id = f.id
          \/ r.anchor.id.seq = f.id.seq + 1 /\ r.anchor.prev = f.id

\* _valid_fence
FenceAccepts(g, r) ==
    /\ g # Absent
    /\ g.live
    /\ g.base = r.anchor.id
    /\ g.token = r.token
    /\ g.token > r.anchor.token

\* local.digest = anchored.digest
SameDigest(p, q) == p = q

\* A store that differs from the anchored one was written under the current
\* fence, on top of the current anchor.
AdvancedUnderFence(p, r) ==
    /\ p.token > r.anchor.projection.token
    /\ p.version >= r.anchor.projection.version
    /\ p.version = r.anchor.projection.version => p.plant = r.anchor.projection.plant
    /\ p.token = r.token
    /\ p.base = r.anchor.id

\* The status, for a fresh and authentic readback r.
Validate(p, r, f, g, requireFence) ==
    IF p.status = "inconsistent" THEN "inconsistent"
    ELSE IF ~FloorAccepts(r, f) THEN "floor_failure"
    ELSE IF SameDigest(p, r.anchor.projection)
    THEN IF ~requireFence THEN "aligned"
         ELSE IF FenceAccepts(g, r) THEN "admission_ready" ELSE "fence_failure"
    ELSE IF AdvancedUnderFence(p, r) THEN "recovery_required"
    ELSE "inconsistent"

--------------------------------------------------------------------------------
(***************************************************************************)
(* The authority: InMemoryMonotonicAnchorReference, one lock.              *)
(***************************************************************************)
GetReadback(s) ==
    /\ rb[s] = Absent
    /\ rb' = [rb EXCEPT ![s] = [anchor |-> Current, token |-> token]]
    /\ UNCHANGED <<chain, token, store, fence, floor, saved, change, restores, accepted>>

\* The fence is asked for the anchor of the readback the caller holds.
AcquireFence(s) ==
    /\ rb[s] # Absent
    /\ rb[s].anchor.id = Current.id
    /\ token < MaxToken
    /\ token' = token + 1
    /\ fence' = [fence EXCEPT ![s] = [base |-> Current.id, token |-> token + 1, live |-> TRUE]]
    /\ rb' = [rb EXCEPT ![s] = Absent]
    /\ UNCHANGED <<chain, store, floor, saved, change, restores, accepted>>

\* Faulty variant: the fence's token is not compared with the authority's.
AnyFence(g) == g # Absent /\ g.live /\ g.base = Current.id /\ g.token > Current.token

FenceIsCurrent(g) ==
    /\ g # Absent
    /\ g.live
    /\ g.base = Current.id
    /\ g.token = token
    /\ g.token > Current.token

\* Faulty variant: the fence the projection was written under is not compared
\* with the one presented.
NewerProjection(p, g) ==
    /\ p.status = "aligned"
    /\ p.token > Current.token

ProjectionIsMonotonic(p, g) ==
    /\ p.status = "aligned"
    /\ p.token = g.token
    /\ p.base = Current.id
    /\ p.version >= Current.projection.version
    /\ p.version = Current.projection.version => p.plant = Current.projection.plant

CompareAndAdvance(s) ==
    /\ FenceIsCurrent(fence[s])
    /\ ProjectionIsMonotonic(store[s], fence[s])
    /\ chain' = Append(chain,
                       [id |-> [epoch |-> restores, seq |-> Current.id.seq + 1],
                        prev |-> Current.id, token |-> fence[s].token,
                        projection |-> store[s]])
    /\ UNCHANGED <<token, store, rb, fence, floor, saved, change, restores, accepted>>

\* External: the authority comes back with an earlier chain and token, which the
\* floor is there to notice.
RestoreAuthority(n, t) ==
    /\ restores < MaxRestores
    /\ chain' = SubSeq(chain, 1, n)
    /\ token' = t
    /\ restores' = restores + 1
    /\ UNCHANGED <<store, rb, fence, floor, saved, change, accepted>>

--------------------------------------------------------------------------------
(***************************************************************************)
(* A site.  Its call holds the coordination lock from the readback to the  *)
(* change of the store.                                                    *)
(***************************************************************************)
\* A verdict that passes the floor makes the readback the new floor.
RetainFloor(s) ==
    /\ floor' = [floor EXCEPT ![s] = [id |-> rb[s].anchor.id, token |-> rb[s].token]]
    /\ accepted' = [accepted EXCEPT ![s] = @ \cup {rb[s].anchor.id}]

\* _require_anchor_admission_locked, then the prepare of an effect.
AdmitPrepare(s) ==
    /\ rb[s] # Absent
    /\ Len(change) < MaxChanges
    /\ Validate(store[s], rb[s], floor[s], fence[s], TRUE) = "admission_ready"
    /\ LET j == Len(change) + 1
       IN  /\ store' = [store EXCEPT ![s] =
                          [@ EXCEPT !.journal = j, !.status = "recovery_required",
                                    !.token = fence[s].token, !.base = fence[s].base]]
           /\ change' = Append(change,
                [token |-> fence[s].token,
                 line |-> {store[s].journal} \cup
                          (IF store[s].journal = 0 THEN {} ELSE change[store[s].journal].line)])
    /\ saved' = [saved EXCEPT ![s] = @ \cup {<<store[s], floor[s]>>}]
    /\ RetainFloor(s)
    /\ rb' = [rb EXCEPT ![s] = Absent]
    /\ UNCHANGED <<chain, token, fence, restores>>

\* Recovery reads back without a fence.
ReadbackOnly(s) ==
    /\ rb[s] # Absent
    /\ Validate(store[s], rb[s], floor[s], Absent, FALSE) \in {"aligned", "recovery_required"}
    /\ RetainFloor(s)
    /\ rb' = [rb EXCEPT ![s] = Absent]
    /\ UNCHANGED <<chain, token, store, fence, saved, change, restores>>

\* The call fails: a denial, a readback that is stale, an authority that does
\* not answer.
CallFails(s) ==
    /\ rb[s] # Absent
    /\ rb' = [rb EXCEPT ![s] = Absent]
    /\ UNCHANGED <<chain, token, store, fence, floor, saved, change, restores, accepted>>

\* The prepared effect ends: committed, refused or never dispatched, or in a
\* plant state the journal cannot explain.  commit_effect asks the admission port
\* once more before it goes on; what the adapter behind the port decides about a
\* prepared, not yet anchored store is not in the repository, and every decision
\* only keeps an effect from being committed, so Settle takes it as given.
Ended(p, end) ==
    CASE end = "applied" -> [p EXCEPT !.status = "aligned", !.version = p.version + 1,
                                      !.plant = p.journal]
      [] end = "not_applied" -> [p EXCEPT !.status = "aligned"]
      [] end = "mismatch" -> [p EXCEPT !.status = "inconsistent"]

Settle(s, end) ==
    /\ store[s].status = "recovery_required"
    /\ store' = [store EXCEPT ![s] = Ended(store[s], end)]
    /\ saved' = [saved EXCEPT ![s] = @ \cup {<<store[s], floor[s]>>}]
    /\ UNCHANGED <<chain, token, rb, fence, floor, change, restores, accepted>>

FenceExpires(s) ==
    /\ fence[s] # Absent
    /\ fence[s].live
    /\ fence' = [fence EXCEPT ![s].live = FALSE]
    /\ UNCHANGED <<chain, token, store, rb, floor, saved, change, restores, accepted>>

\* Journals, checkpoint and floor of a site are put back together, and the
\* process starts again.
RestoreSite(s, old) ==
    /\ restores < MaxRestores
    /\ old \in saved[s]
    /\ store' = [store EXCEPT ![s] = old[1]]
    /\ floor' = [floor EXCEPT ![s] = old[2]]
    /\ rb' = [rb EXCEPT ![s] = Absent]
    /\ fence' = [fence EXCEPT ![s] = Absent]
    /\ accepted' = [accepted EXCEPT ![s] = IF old[2] = Absent THEN {} ELSE {old[2].id}]
    /\ restores' = restores + 1
    /\ UNCHANGED <<chain, token, saved, change>>

--------------------------------------------------------------------------------
SiteStep(s) ==
    \/ GetReadback(s)
    \/ AcquireFence(s)
    \/ AdmitPrepare(s)
    \/ ReadbackOnly(s)
    \/ CallFails(s)
    \/ \E end \in {"applied", "not_applied", "mismatch"} : Settle(s, end)
    \/ CompareAndAdvance(s)
    \/ FenceExpires(s)
    \/ \E old \in saved[s] : RestoreSite(s, old)

AuthorityRestored ==
    \E n \in 1..Len(chain), t \in 0..token :
        t >= chain[n].token /\ RestoreAuthority(n, t)

AnchorNext == (\E s \in Sites : SiteStep(s)) \/ AuthorityRestored

AnchorSpec == AnchorInit /\ [][AnchorNext]_anchorVars

--------------------------------------------------------------------------------
(***************************************************************************)
(* Properties                                                              *)
(***************************************************************************)
Line(p) == {p.journal} \cup (IF p.journal = 0 THEN {} ELSE change[p.journal].line)

\* No anchored change is ever lost: every anchor continues the one before it by
\* one change, made under the fence it carries, whatever stores were rolled back,
\* however many sites were admitted on the same anchor and whatever readbacks were
\* stale (compare_and_advance with the admission that built the projection).  And
\* the anchors a site accepted since it last lost its floor lie on one chain, also
\* when the authority was put back and went another way (the highest anchor a site
\* keeps, with its digest).
AnchorsFormOneLine ==
    /\ \A k \in 1..(Len(chain) - 1) :
        LET p == chain[k].projection
            q == chain[k + 1].projection
        IN  /\ q.journal \in DOMAIN change
            /\ Line(q) = Line(p) \cup {q.journal}
            /\ change[q.journal].token = chain[k + 1].token
    /\ \A s \in Sites : \A a, b \in accepted[s] : a.seq = b.seq => a = b

\* A store changed under a fence that has been superseded, and not anchored by then.
Outdated(p) == p # Genesis /\ p.token < token /\ p.base # Absent
               /\ \A k \in DOMAIN chain : chain[k].projection # p

\* A store that was changed under a fence and is still not anchored when a newer
\* fence is issued is never anchored, by the same site or another: the fence
\* expired, or somebody else asked for one (acquire_fence, compare_and_advance).
\* Only a rollback of the authority's token lifts it.
OutdatedNeverAnchored ==
    [][\A s \in Sites : Outdated(store[s]) =>
           \A k \in DOMAIN chain' : chain'[k].projection # store[s]]_anchorVars
================================================================================
