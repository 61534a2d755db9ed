------------------------- MODULE DegradedPublication -------------------------
(***************************************************************************)
(* The online publisher of the runtime's condition                         *)
(* (m5_degraded_publication.py, m5_degraded_init.py): it samples the       *)
(* operator's status input, reserves a sequence number in a durable state  *)
(* file, replaces the publication file atomically and commits the          *)
(* publication to the state file.  The container's health check, a second  *)
(* process, reconciles the same state file with the publication it read.   *)
(* Either process can be killed between two steps, and a power loss can    *)
(* undo a replacement that was not yet synced.                             *)
(***************************************************************************)
EXTENDS Naturals, FiniteSets

----------------------------------------------------------------------------
(***************************************************************************)
(* What the degraded-operation gates decide with (m5_degraded.py,          *)
(* m5_degraded_publication.py): the response to losing each runtime role,  *)
(* and the checks of an operator-signed degraded-mode lease.  A condition  *)
(* is the set of roles whose service or path is not healthy; which of the  *)
(* five unhealthy conditions a role is in never changes a decision.        *)
(***************************************************************************)

\* Runtime roles, DegradedRole.
DegradedRoles == {"identity", "policy", "evidence", "gateway", "observer", "evaluator",
                  "coordination", "management", "ot_adapter"}

\* ROLE_LOSS_POLICIES: what the loss of one role calls for.
RoleLossPolicy(role) ==
  IF role \in {"identity", "policy", "gateway"} THEN "safe_state"
  ELSE IF role = "management" THEN "mission_preserving"
  ELSE "hold_state"

\* _effective_behavior: the most restrictive response of the affected roles.
EffectiveBehavior(roles) ==
  LET behaviors == {RoleLossPolicy(role) : role \in roles} IN
  IF "safe_state" \in behaviors THEN "safe_state"
  ELSE IF "hold_state" \in behaviors THEN "hold_state"
  ELSE "mission_preserving"

---------------------------------------------------------------------------
(* Leases.  A lease is a record [id, sequence, roles, behavior, scope, from, *)
(* until]; a stable lease of the published gate names the condition it is   *)
(* for, a lease of the snapshot gate also names one snapshot.               *)

\* What StableDegradedAuthorization's validators let the authority sign.
WellFormedLease(a) ==
  /\ a.sequence >= 1
  /\ a.roles # {} /\ a.roles \subseteq DegradedRoles
  /\ a.behavior = EffectiveBehavior(a.roles)
  /\ a.scope # {}
  /\ a.from < a.until

ActiveAt(a, t) == a.from <= t /\ t < a.until

\* The lease admits the work it lists, and only in a mission-preserving mode.
LeaseOutcome(a, work) ==
  IF a.behavior # "mission_preserving" THEN a.behavior
  ELSE IF work \notin a.scope THEN "hold_state"
  ELSE "continue"

\* A snapshot carries the affected roles and whether an effect is unresolved.
Healthy(snapshot) == snapshot.roles = {} /\ ~snapshot.unresolved

\* _authorization_reasons: the published lease does not fit this condition now.
LeaseUnusable(a, snapshot, t) ==
  \/ ~ActiveAt(a, t)
  \/ snapshot.roles # a.roles
  \/ snapshot.unresolved

\* The snapshot gate's validation_reasons.
SnapshotLeaseUnusable(a, snapshot, fresh, lifetime, t) ==
  \/ LeaseUnusable(a, snapshot, t)
  \/ a.until - a.from > lifetime
  \/ a.snapshot # snapshot.id
  \/ snapshot.roles = {} \/ a.behavior # EffectiveBehavior(snapshot.roles)
  \/ ~fresh

----------------------------------------------------------------------------
(* The publisher. *)

CONSTANTS
  Leases,           \* the stable authorizations the authority has signed
  Conditions,       \* what the operator may report: [roles, unresolved]
  PublicationAge,   \* maximum_publication_age_seconds, in ticks
  StatusAge,        \* maximum_status_input_age_seconds, in ticks
  CredentialUntil,  \* expiry of the publisher credential
  MaxTime,          \* bound on the clock
  Budgets           \* bounds on everything else: how often each may happen

None == [id |-> 0]

ASSUME LeasesAssumption ==
  \A a \in Leases : a # None /\ a.sequence \in Nat /\ WellFormedLease(a)

VARIABLES
  now,         \* the clock
  volumes,     \* the seven volume roots: "empty", "owned" or "partial"
  status,      \* status input file, NoStatus before the first
  installed,   \* stable-authorization.json of the publisher
  file,        \* the visible publication
  synced,      \* the publication a power loss cannot undo
  pstate,      \* DegradedPublisherState
  litter,      \* a temporary file left in the publisher's state directory
  publisher,   \* the publisher process
  checker,     \* the health check process
  made,        \* publications signed so far; the next one's identity
  left         \* what is left of the budget

publisherVars == <<status, installed, file, synced, pstate, litter, publisher,
                   checker, made, left>>

NoStatus == [id |-> 0, sequence |-> 0]
Resting == [stage |-> "idle"]

PublicationInit ==
  /\ now = 0
  /\ volumes = "empty"
  /\ status = NoStatus
  /\ installed \in Leases
  /\ file = None
  /\ synced = None
  /\ pstate = [allocated |-> 0, latest |-> 0, latestId |-> 0, status |-> 0, statusId |-> 0]
  /\ litter = FALSE
  /\ publisher = Resting
  /\ checker = Resting
  /\ made = 0
  /\ left \in Budgets

\* One of the things the budget bounds happens.
Spend(what) == left[what] > 0 /\ left' = [left EXCEPT ![what] = @ - 1]

\* A status input, as the operator signs off on it.
StatusInput(id, sequence, condition) ==
  [id |-> id, sequence |-> sequence, at |-> now,
   roles |-> condition.roles, unresolved |-> condition.unresolved]

\* DegradedRuntimeSnapshot of a status input.
SnapshotOf(st) ==
  [id |-> st.id, at |-> st.at, roles |-> st.roles, unresolved |-> st.unresolved]

\* A signed publication: its place in the chain, the sampled snapshot, the lease.
Publication(id, s, previous, p) ==
  [id |-> id, sequence |-> s.allocated, previous |-> previous, at |-> p.at,
   lease |-> p.lease, snapshot |-> SnapshotOf(p.status)]

---------------------------------------------------------------------------
(* Volume initialization and the operator's inputs *)

\* initialize: seven empty roots are bootstrapped, an owned set is kept, a
\* mixed set is refused.  An exception undoes a bootstrap; a kill does not.
Bootstrap ==
  /\ volumes = "empty"
  /\ status.id > 0
  /\ \/ volumes' = "owned" /\ UNCHANGED left
     \/ volumes' = "partial" /\ Spend("faults")
  /\ UNCHANGED <<now, status, installed, file, synced, pstate, litter, publisher,
                 checker, made>>

\* inject_status: the operator replaces the status input; a mistaken one may
\* reuse the previous sequence number.
InjectStatus(condition, sequence) ==
  /\ Spend("statuses")
  /\ sequence > 0
  /\ status' = StatusInput(status.id + 1, sequence, condition)
  /\ UNCHANGED <<now, volumes, installed, file, synced, pstate, litter, publisher,
                 checker, made>>

\* A lease is put in place of the previous one, in the publisher's inputs.
InstallLease(a) ==
  /\ Spend("installs")
  /\ a # installed
  /\ installed' = a
  /\ UNCHANGED <<now, volumes, status, file, synced, pstate, litter, publisher,
                 checker, made>>

---------------------------------------------------------------------------
(* The durable state file *)

\* A directory with a temporary file of either process in it is refused.
LayoutIntact == ~litter /\ publisher.stage # "writing" /\ checker.stage # "writing"

\* _reconciled_state accepts the publication p found in the output file.
Reconcilable(s, p) ==
  IF p = None THEN s.latest = 0
  ELSE \/ p.sequence = s.latest /\ p.id = s.latestId
       \/ s.latest < p.sequence /\ p.sequence <= s.allocated /\ p.previous = s.latestId

Reconciled(s, p) ==
  IF p = None \/ p.sequence = s.latest THEN s
  ELSE [s EXCEPT !.latest = p.sequence, !.latestId = p.id]

\* FAULTY: a sequence number that was reserved and not committed is reused.
ReusesReservation(s, st) ==
  [s EXCEPT !.allocated = s.latest + 1, !.status = st.sequence,
            !.statusId = IF st.sequence > s.status THEN st.id ELSE s.statusId]

\* FAULTY: the publication found in the output is not recorded as committed.
ForgetsAdoption(s, st) ==
  [pstate EXCEPT !.allocated = s.allocated + 1, !.status = st.sequence,
                 !.statusId = IF st.sequence > s.status THEN st.id ELSE s.statusId]

\* allocate: the next sequence number, and the status input it is for.
Allocated(s, st) ==
  [s EXCEPT !.allocated = s.allocated + 1, !.status = st.sequence,
            !.statusId = IF st.sequence > s.status THEN st.id ELSE s.statusId]

StatusInOrder(s, st) ==
  /\ st.sequence >= s.status
  /\ st.sequence = s.status => st.id = s.statusId

---------------------------------------------------------------------------
(* The publisher: publish_once *)

\* Status input, lease and current output are read before anything is locked.
BeginPublish ==
  /\ volumes = "owned"
  /\ publisher = Resting
  /\ Spend("publications")
  /\ now < CredentialUntil
  /\ status.id > 0
  /\ now < status.at + StatusAge
  /\ publisher' = [stage |-> "allocate", at |-> now, status |-> status,
                   lease |-> installed, current |-> file]
  /\ UNCHANGED <<now, volumes, status, installed, file, synced, pstate, litter,
                 checker, made>>

\* mutate, up to the replacement of the state file.  A refusal ends the
\* process, and the container starts it again.
Allocate ==
  LET p == publisher
      s == Reconciled(pstate, p.current) IN
  /\ p.stage = "allocate"
  /\ publisher' =
       IF LayoutIntact /\ Reconcilable(pstate, p.current) /\ StatusInOrder(s, p.status)
       THEN [stage |-> "writing", next |-> Allocated(s, p.status), then |-> "publish",
             publication |-> Publication(made + 1, Allocated(s, p.status), s.latestId, p)]
       ELSE Resting
  /\ UNCHANGED <<now, volumes, status, installed, file, synced, pstate, litter,
                 checker, made, left>>

\* os.replace of the state file, under its lock.
PublisherWrites ==
  /\ publisher.stage = "writing"
  /\ pstate' = publisher.next
  /\ publisher' = IF publisher.then = "publish"
                  THEN [stage |-> "publish", publication |-> publisher.publication]
                  ELSE Resting
  /\ made' = IF publisher.then = "publish" THEN made + 1 ELSE made
  /\ UNCHANGED <<now, volumes, status, installed, file, synced, litter, checker,
                 left>>

\* publish: the new file becomes visible ...
Replace ==
  /\ publisher.stage = "publish"
  /\ file' = publisher.publication
  /\ publisher' = [publisher EXCEPT !.stage = "sync"]
  /\ UNCHANGED <<now, volumes, status, installed, synced, pstate, litter, checker,
                 made, left>>

\* ... and then durable.
Sync ==
  /\ publisher.stage = "sync"
  /\ synced' = file
  /\ publisher' = [publisher EXCEPT !.stage = "commit"]
  /\ UNCHANGED <<now, volumes, status, installed, file, pstate, litter, checker,
                 made, left>>

\* commit: the health check may have adopted the publication already.
Commit ==
  LET p == publisher.publication IN
  /\ publisher.stage = "commit"
  /\ publisher' =
       IF LayoutIntact /\ Reconcilable(pstate, p) /\ p.sequence # pstate.latest
       THEN [stage |-> "writing", next |-> Reconciled(pstate, p), then |-> "rest"]
       ELSE Resting
  /\ UNCHANGED <<now, volumes, status, installed, file, synced, pstate, litter,
                 checker, made, left>>

---------------------------------------------------------------------------
(* The health check: the check command *)

PublicationFresh(p, t) == t - p.at < PublicationAge /\ t - p.snapshot.at <= StatusAge

CheckReads ==
  /\ volumes = "owned"
  /\ Spend("checks")
  /\ checker = Resting
  /\ file # None
  /\ now < CredentialUntil /\ PublicationFresh(file, now)
  /\ file.lease = installed
  /\ checker' = [stage |-> "read", current |-> file]
  /\ UNCHANGED <<now, volumes, status, installed, file, synced, pstate, litter,
                 publisher, made>>

\* reconcile_current with the publication that was read.
CheckReconciles ==
  LET p == checker.current IN
  /\ checker.stage = "read"
  /\ checker' =
       IF LayoutIntact /\ Reconcilable(pstate, p) /\ p.sequence # pstate.latest
       THEN [stage |-> "writing", next |-> Reconciled(pstate, p)]
       ELSE Resting
  /\ UNCHANGED <<now, volumes, status, installed, file, synced, pstate, litter,
                 publisher, made, left>>

CheckWrites ==
  /\ checker.stage = "writing"
  /\ pstate' = checker.next
  /\ checker' = Resting
  /\ UNCHANGED <<now, volumes, status, installed, file, synced, litter, publisher,
                 made, left>>

---------------------------------------------------------------------------
(* Faults *)

\* A process is killed; its temporary state file, if it had one, stays.
Kill ==
  /\ Spend("faults")
  /\ \/ /\ publisher # Resting
        /\ litter' \in {litter, litter \/ publisher.stage = "writing"}
        /\ publisher' = Resting /\ UNCHANGED checker
     \/ /\ checker # Resting
        /\ litter' \in {litter, litter \/ checker.stage = "writing"}
        /\ checker' = Resting /\ UNCHANGED publisher
  /\ UNCHANGED <<now, volumes, status, installed, file, synced, pstate, made>>

SequenceOf(p) == IF p = None THEN 0 ELSE p.sequence

\* Power loss of the publisher's host: an unsynced replacement may be undone.
PowerLoss ==
  /\ Spend("faults")
  /\ file' \in {file, synced}
  /\ litter' \in {litter, litter \/ publisher.stage = "writing" \/ checker.stage = "writing"}
  /\ synced' = file'
  /\ publisher' = Resting
  /\ checker' = Resting
  /\ UNCHANGED <<now, volumes, status, installed, pstate, made>>

---------------------------------------------------------------------------
StatusStep ==
  \E condition \in Conditions : \E n \in {status.sequence, status.sequence + 1} :
    InjectStatus(condition, n)

PublicationStep ==
  \/ Bootstrap
  \/ \E a \in Leases : InstallLease(a)
  \/ BeginPublish \/ Allocate \/ PublisherWrites \/ Replace \/ Sync \/ Commit
  \/ CheckReads \/ CheckReconciles \/ CheckWrites
  \/ Kill \/ PowerLoss

\* No publication is possible any more: the next one is refused, and so is every
\* later one, because the state directory does not list as it should or because
\* the state knows a publication the output file is behind.
Wedged == litter \/ ~Reconcilable(pstate, file)

\* Wherever publisher and health check are killed or lose power, and whatever the
\* health check adopted meanwhile, the publisher can take up its own output again,
\* with two exceptions: a process that dies while it writes the state file may
\* leave its temporary file, and a power loss may take back a publication that the
\* health check, or a publisher that was started again, committed before the
\* output directory was synced.  Both are final: no sequence number is reserved
\* and nothing is signed afterwards (_reconciled_state, reconcile_current,
\* _DurableStateFile.mutate, AtomicDegradedPublicationSink.publish).
PublisherRecovers ==
  [][/\ ~Wedged /\ Wedged' =>
          \/ "writing" \in {publisher.stage, checker.stage} /\ litter'
          \/ file' # file /\ file' = synced /\ SequenceOf(synced) < pstate.latest
     /\ Wedged => Wedged' /\ UNCHANGED <<pstate, made>>]_<<now, volumes, publisherVars>>
==============================================================================
