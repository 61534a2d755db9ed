----------------------------- MODULE DegradedGate -----------------------------
(***************************************************************************)
(* The degraded-operation gates in front of primary assurance              *)
(* (m5_degraded.py, m5_degraded_publication.py, gateway.py,                *)
(* segmented_capability_runtime.py).  The published gate consumes the      *)
(* publisher's signed condition and a signed reversal and keeps a durable  *)
(* floor, active lease and reversal; the snapshot gate reads the status    *)
(* file and a lease bound to it.  A request reads its inputs first and     *)
(* takes the state lock later, while other requests, readiness checks and  *)
(* the publisher go on; an admitted request then waits for the runtime's   *)
(* transaction lock before it enters primary assurance.                    *)
(***************************************************************************)
EXTENDS DegradedPublication

CONSTANTS
  Requests,         \* concurrent requests of the gateway process
  Work,             \* what a request asks for
  SnapshotLifetime, \* maximum_authorization_lifetime of the snapshot gate
  SnapshotAge,      \* maximum_snapshot_age of the snapshot gate
  ReversalAge       \* maximum_reversal_age, in ticks

VARIABLES
  mode,        \* "published" or "snapshot": which gate is configured
  configured,  \* stable_authorization the published gate was started with
  reversal,    \* the reversal inbox; None when empty
  reversals,   \* reversals signed so far; the next one's identity
  gate,        \* the gate's durable state
  lease,       \* the snapshot gate's authorization file; None when absent
  leasesMade,  \* leases the authority signed for snapshots
  request,     \* per request: its stage and what it holds
  opened,      \* history: leases that were active at some time
  closed,      \* history: leases a reversal was applied to
  entries      \* history: how the admitted requests were admitted

gateVars == <<mode, configured, reversal, reversals, gate, lease, leasesMade,
              request, opened, closed, entries>>

vars == <<now, volumes, publisherVars, gateVars>>

\* What the gate's actions leave alone of the publisher, the budget apart.
others == <<now, volumes, status, installed, file, synced, pstate, litter, publisher,
            checker, made>>

InitialGate ==
  [floor |-> 0, floorId |-> 0, leaseSequence |-> 0, active |-> None,
   reversalSequence |-> 0, latest |-> None, nonces |-> {}, revoked |-> {}]

Init ==
  /\ PublicationInit
  /\ mode \in {"published", "snapshot"}
  /\ configured = installed
  /\ reversal = None
  /\ reversals = {}
  /\ gate = InitialGate
  /\ lease = None
  /\ leasesMade = {}
  /\ request = [q \in Requests |-> Resting]
  /\ opened = {}
  /\ closed = {}
  /\ entries = {}

Tick ==
  /\ now < MaxTime
  /\ now' = now + 1
  /\ UNCHANGED <<volumes, publisherVars, gateVars>>

\* The gateway process is replaced; it loads the installed lease, and an
\* interrupted update of its state file did not happen.
RestartGateway ==
  /\ request' = [q \in Requests |-> Resting]
  /\ configured' = installed
  /\ <<request, configured>>' # <<request, configured>>
  /\ UNCHANGED <<now, volumes, publisherVars, mode, reversal, reversals, gate,
                 lease, leasesMade, opened, closed, entries>>

---------------------------------------------------------------------------
(* The authority's documents *)

\* A reversal names the one lease it closes.
ReversalOf(a, sequence) ==
  [id |-> Cardinality(reversals) + 1, sequence |-> sequence, lease |-> a, at |-> now]

\* A lease for the current snapshot.
SnapshotLease(id, scope) ==
  [id |-> id, sequence |-> id, roles |-> status.roles,
   behavior |-> EffectiveBehavior(status.roles), scope |-> scope,
   from |-> now, until |-> now + SnapshotLifetime, snapshot |-> status.id]

\* inject_reversal: a newly signed reversal, or one signed before, is put in
\* the inbox.
InjectReversal(a, sequence) ==
  /\ mode = "published"
  /\ sequence > 0
  /\ LET fresh == ReversalOf(a, sequence) IN
     \/ reversal' = fresh /\ reversals' = reversals \cup {fresh}
     \/ \E r \in reversals \ {reversal} : reversal' = r /\ UNCHANGED reversals
  /\ Spend("reversals")
  /\ UNCHANGED <<others, mode, configured, gate, lease,
                 leasesMade, request, opened, closed, entries>>

\* A lease for the current snapshot is signed, or an earlier one put back.
SignSnapshotLease(scope) ==
  /\ mode = "snapshot"
  /\ Spend("installs")
  /\ \/ /\ status.id > 0 /\ status.roles # {}
        /\ LET a == SnapshotLease(Cardinality(leasesMade) + 1, scope) IN
           lease' = a /\ leasesMade' = leasesMade \cup {a}
     \/ \E a \in (leasesMade \cup {None}) \ {lease} : lease' = a /\ UNCHANGED leasesMade
  /\ UNCHANGED <<others, mode, configured, reversal, reversals,
                 gate, request, opened, closed, entries>>

---------------------------------------------------------------------------
(* The published gate *)

\* _publication_reasons: the publication is not one this gate may use now.
PublicationRefused(p, t) ==
  \/ t >= CredentialUntil
  \/ p.lease # configured
  \/ ~PublicationFresh(p, t)

\* _consumer_state_reasons: rollback, equivocation or a broken chain.
FloorRefuses(g, p) ==
  \/ p.sequence < g.floor
  \/ p.sequence = g.floor /\ p.id # g.floorId
  \/ p.sequence = g.floor + 1 /\ g.floor > 0 /\ p.previous # g.floorId

AtFloor(g, p) == [g EXCEPT !.floor = p.sequence, !.floorId = p.id]

\* _apply_reversal: the same reversal again changes nothing.
SameReversal(g, r) == r = None \/ g.latest = r

\* FAULTY: a reversal closes whatever lease is active.
ReversalForAnyLease(g, r, t) ==
  /\ ~SameReversal(g, r)
  /\ t - r.at > ReversalAge \/ r.sequence <= g.reversalSequence \/ g.active = None

ReversalRefused(g, r, t) ==
  /\ ~SameReversal(g, r)
  /\ \/ t - r.at > ReversalAge
     \/ r.sequence <= g.reversalSequence
     \/ g.active # r.lease

Reversed(g, r, t) ==
  IF SameReversal(g, r) \/ ReversalRefused(g, r, t) THEN g
  ELSE [g EXCEPT !.active = None, !.reversalSequence = r.sequence, !.latest = r]

\* The lease of the publication may not be, or become, the active one.
LeaseRefused(g, p, t) ==
  \/ LeaseUnusable(p.lease, p.snapshot, t)
  \/ g.latest # None /\ g.latest.lease = p.lease
  \/ p.lease # g.active /\ (g.active # None \/ p.lease.sequence <= g.leaseSequence)

Activated(g, a) == [g EXCEPT !.active = a, !.leaseSequence = a.sequence]

\* evaluate: reversal first, then the condition, then the lease.
EvaluatedGate(g, p, r, t) ==
  LET after == Reversed(AtFloor(g, p), r, t) IN
  IF FloorRefuses(g, p) THEN g
  ELSE IF \/ ReversalRefused(AtFloor(g, p), r, t)
          \/ Healthy(p.snapshot)
          \/ LeaseRefused(after, p, t)
       THEN after
       ELSE Activated(after, p.lease)

EvaluateOutcome(g, p, r, t, work) ==
  LET after == Reversed(AtFloor(g, p), r, t) IN
  IF FloorRefuses(g, p) \/ ReversalRefused(AtFloor(g, p), r, t) THEN "safe_state"
  ELSE IF Healthy(p.snapshot)
       THEN IF after.active = None THEN "continue" ELSE "hold_state"
  ELSE IF LeaseRefused(after, p, t) THEN "safe_state"
  ELSE LeaseOutcome(p.lease, work)

\* readiness: the lease is activated first and the reversal applied after it.
ReadyGate(g, p, r, t) ==
  LET at == AtFloor(g, p)
      leased == IF Healthy(p.snapshot) \/ LeaseRefused(at, p, t) THEN at
                ELSE Activated(at, p.lease) IN
  IF FloorRefuses(g, p) THEN g ELSE Reversed(leased, r, t)

\* evaluate and readiness read the publication and the reversal inbox; a
\* refused publication ends the request in SAFE_STATE without a state change.
ReadInputs(q, kind, work) ==
  /\ mode = "published"
  /\ volumes = "owned"
  /\ Cardinality({x \in Requests : request[x] # Resting}) < left["parallel"]
  /\ request[q] = Resting
  /\ file # None
  /\ ~PublicationRefused(file, now)
  /\ request' = [request EXCEPT ![q] = [stage |-> kind, work |-> work, publication |-> file,
                                        reversal |-> reversal, at |-> now]]
  /\ UNCHANGED <<now, volumes, publisherVars, mode, configured, reversal, reversals,
                 gate, lease, leasesMade, opened, closed, entries>>

\* What the histories remember of a change of the gate's state.
GateBecomes(g) ==
  /\ gate' = g
  /\ opened' = opened \cup ({g.active} \ {None})
  /\ closed' = closed \cup (IF g.latest = None THEN {} ELSE {g.latest.lease})

\* The request waits for the transaction lock, or is refused.
Admit(q, outcome, under, snapshot) ==
  /\ request' = [request EXCEPT ![q] = IF outcome = "continue"
                                       THEN [stage |-> "admitted"] ELSE Resting]
  /\ entries' = IF outcome = "continue"
                THEN entries \cup {[closed |-> under \in closed',
                                    owed |-> Healthy(snapshot) /\ opened' \ closed' # {}]}
                ELSE entries

Evaluate(q) ==
  LET e == request[q]
      p == e.publication
      outcome == EvaluateOutcome(gate, p, e.reversal, e.at, e.work) IN
  /\ e.stage = "evaluate"
  /\ GateBecomes(EvaluatedGate(gate, p, e.reversal, e.at))
  /\ Admit(q, outcome, IF Healthy(p.snapshot) THEN None ELSE p.lease, p.snapshot)
  /\ UNCHANGED <<now, volumes, publisherVars, mode, configured, reversal, reversals,
                 lease, leasesMade>>

Readiness(q) ==
  LET e == request[q] IN
  /\ e.stage = "readiness"
  /\ GateBecomes(ReadyGate(gate, e.publication, e.reversal, e.at))
  /\ request' = [request EXCEPT ![q] = Resting]
  /\ UNCHANGED <<now, volumes, publisherVars, mode, configured, reversal, reversals,
                 lease, leasesMade, entries>>

---------------------------------------------------------------------------
(* The snapshot gate *)

SnapshotFresh(s, t) == t - s.at <= SnapshotAge

LeaseRevoked(g, a) == a.id \in g.revoked

\* evaluate, up to the update of the state file.
SnapshotReads(q, work) ==
  LET s == SnapshotOf(status)
      fresh == SnapshotFresh(s, now)
      normal == Healthy(s) /\ fresh IN
  /\ mode = "snapshot"
  /\ Cardinality({x \in Requests : request[x] # Resting}) < left["parallel"]
  /\ request[q] = Resting
  /\ status.id > 0
  /\ UNCHANGED <<now, volumes, publisherVars, mode, configured, reversal, reversals,
                 gate, lease, leasesMade, opened, closed>>
  /\ \/ /\ normal
        /\ gate.active = None \/ LeaseRevoked(gate, gate.active)
        /\ Admit(q, "continue", None, s)
     \/ /\ ~normal
        /\ lease # None /\ ~LeaseRevoked(gate, lease)
        /\ ~SnapshotLeaseUnusable(lease, s, fresh, SnapshotLifetime, now)
        /\ request' = [request EXCEPT ![q] = [stage |-> "accept", work |-> work,
                                              lease |-> lease, snapshot |-> s]]
        /\ UNCHANGED entries

\* accept_authorization: the state is read again, and may refuse.
SnapshotRefuses(g, a) ==
  LeaseRevoked(g, a) \/ (g.active # a /\ a.sequence <= g.leaseSequence)

\* The update of the state file, under its lock.
SnapshotAccepts(q) ==
  LET e == request[q]
      refused == SnapshotRefuses(gate, e.lease) IN
  /\ e.stage = "accept"
  /\ gate' = IF refused THEN gate ELSE Activated(gate, e.lease)
  /\ opened' = IF refused THEN opened ELSE {e.lease}
  /\ closed' = closed
  /\ Admit(q, IF refused THEN "safe_state" ELSE LeaseOutcome(e.lease, e.work), e.lease, e.snapshot)
  /\ UNCHANGED <<now, volumes, publisherVars, mode, configured, reversal, reversals,
                 lease, leasesMade>>

\* apply_reversal of the snapshot gate, for any lease that was signed.
SnapshotReversal(a, sequence) ==
  LET r == ReversalOf(a, sequence) IN
  /\ mode = "snapshot"
  /\ sequence > 0
  /\ Spend("reversals")
  /\ reversals' = reversals \cup {r}
  /\ IF sequence > gate.reversalSequence /\ ~LeaseRevoked(gate, a)
     THEN /\ gate' = [gate EXCEPT !.reversalSequence = sequence, !.nonces = @ \cup {r.id},
                                  !.revoked = @ \cup {a.id}]
          /\ closed' = closed \cup {a}
     ELSE UNCHANGED <<gate, closed>>
  /\ UNCHANGED <<others, mode, configured, reversal, lease,
                 leasesMade, request, opened, entries>>

---------------------------------------------------------------------------
(* The runtime behind the gate *)

\* execute, once it holds the transaction lock: the gate is not asked again.
EnterAssurance(q) ==
  /\ request[q].stage = "admitted"
  /\ request' = [request EXCEPT ![q] = Resting]
  /\ UNCHANGED <<now, volumes, publisherVars, mode, configured, reversal, reversals,
                 gate, lease, leasesMade, opened, closed, entries>>

Next ==
  \/ StatusStep /\ UNCHANGED gateVars
  \/ mode = "published" /\ PublicationStep /\ UNCHANGED gateVars
  \/ Tick \/ RestartGateway
  \/ \E a \in Leases : \E n \in {gate.reversalSequence, gate.reversalSequence + 1} : InjectReversal(a, n)
  \/ \E w \in Work : SignSnapshotLease({w})
  \/ \E a \in leasesMade : \E n \in {gate.reversalSequence, gate.reversalSequence + 1} : SnapshotReversal(a, n)
  \/ \E q \in Requests :
       \/ \E w \in Work, kind \in {"evaluate", "readiness"} : ReadInputs(q, kind, w)
       \/ Evaluate(q) \/ Readiness(q)
       \/ \E w \in Work : SnapshotReads(q, w)
       \/ SnapshotAccepts(q)
       \/ EnterAssurance(q)

Spec == Init /\ [][Next]_vars

---------------------------------------------------------------------------
(* Properties *)

\* A lease that a signed reversal has closed is never active again and admits
\* no further work, although the published gate remembers only the latest
\* reversal: not after a later lease was opened and closed, not after the old
\* lease file was put back, and not through a readiness check, which applies
\* the reversal in the other order (_apply_reversal, readiness, evaluate,
\* accept_authorization). And work enters normal assurance only when every lease
\* the published gate ever activated, and the newest one of the snapshot gate,
\* was closed by a reversal that names it.
ReversedLeaseStaysClosed ==
  /\ mode = "published" => gate.active \notin closed
  /\ \A e \in entries : ~e.closed /\ ~e.owed

\* Whatever crashed or was undone on the publisher's side, the gate never meets
\* a second publication under the sequence number it holds as its floor, which
\* it could only answer with SAFE_STATE (allocate, _consumer_state_reasons).
FloorNeverEquivocates ==
  file # None /\ file.sequence = gate.floor => file.id = gate.floorId
=============================================================================
