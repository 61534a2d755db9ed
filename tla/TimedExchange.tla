----------------------------- MODULE TimedExchange -----------------------------
(***************************************************************************)
(* One coordinated effect between a gateway and a coordinator whose clocks *)
(* differ: prepare, commit, queries and closing, each message checked      *)
(* against the time it is read at, each journal record with the times it   *)
(* carries.  The coordinator reads its clock and authenticates a request   *)
(* before it waits for the coordination lock, so it may work with times    *)
(* that other requests have overtaken.  Requests and answers are lost,     *)
(* processes crash, the coordinator comes back with another credential,    *)
(* and credentials expire and are revoked.                                 *)
(***************************************************************************)
EXTENDS JournalRecord

CONSTANTS
    FirstCred,      \* the coordinator's first credential
    MaxTime,        \* bound on both clocks
    MaxDrift,       \* bound on the distance between the clocks
    MaxDisturbances \* bound on crashes of either process and revocations

ASSUME TimedAssumption ==
    /\ FirstCred \in OtCreds /\ MaxTime \in Nat /\ MaxDrift \in Nat /\ MaxDisturbances \in Nat

VARIABLES
    gwNow, otNow,   \* the two clocks
    gwRec, otRec,   \* the journal records of the effect, None before the first
    call,           \* the request the gateway waits for, None when it is idle
    pin,            \* the key and boot of the coordinator as the gateway discovered it
    ot,             \* the coordinator's credential and boot
    marker,         \* the live commit marker
    network,        \* requests on their way
    admitted,       \* requests authenticated and waiting for the lock, with the time read
    working,        \* the accepted commit whose device call is running, None without
    answers,        \* the answer to the gateway's call, on its way back
    disturbances,
    illFormed       \* a method built a record in order of time that the validator refuses

exchangeVars == <<revoked, gwNow, otNow, gwRec, otRec, call, pin, ot, marker, network, admitted,
                  working, answers, disturbances, illFormed>>

ExchangeInit ==
    /\ revoked = [c \in Creds |-> None]
    /\ gwNow = 0 /\ otNow = 0
    /\ gwRec = None /\ otRec = None /\ call = None
    /\ ot = [cred |-> FirstCred, boot |-> 0] /\ pin = ot
    /\ marker = FALSE /\ network = {} /\ admitted = {} /\ working = None /\ answers = {}
    /\ disturbances = 0 /\ illFormed = FALSE

(***************************************************************************)
(* _store: a record is validated before it is written.                     *)
(***************************************************************************)
Storable(rec) == rec # Refused /\ LegalHistory(rec)

IllFormed(rec) == rec # Refused /\ Chronological(rec) /\ ~LegalHistory(rec)

Flag(built) == illFormed' = (illFormed \/ \E rec \in built : IllFormed(rec))

\* A method of the gateway's journal: the record it builds, or the old one when it raises.
GwKeeps(rec) == gwRec' = IF Storable(rec) THEN rec ELSE gwRec

GwStores(rec) == GwKeeps(rec) /\ Flag({rec})

OtStores(rec) == otRec' = (IF Storable(rec) THEN rec ELSE otRec) /\ Flag({rec})

Later(a, b) == IF a >= b THEN a ELSE b

(***************************************************************************)
(* The gateway.                                                            *)
(***************************************************************************)
\* _current_identities
IdentitiesCurrent(pinned) ==
    /\ CurrentKey(GatewayCred, gwNow) /\ CurrentKey(ot.cred, gwNow)
    /\ pinned => pin.cred = ot.cred

Send(request) == call' = request /\ network' = network \cup {request}

GwUnchanged == UNCHANGED <<revoked, gwNow, otNow, otRec, pin, ot, marker, admitted, working, disturbances>>

\* execute, up to the prepare request.
GwPrepare ==
    LET request == PrepareRequest(PermitAt(pin.cred, pin.boot, gwNow), gwNow)
    IN  /\ call = None /\ gwRec = None
        /\ IdentitiesCurrent(TRUE)
        /\ PrepareAdmissible(request, pin.cred, pin.boot, gwNow)
        /\ GwStores(BegunRecord(request, gwNow))
        /\ IF Storable(BegunRecord(request, gwNow)) THEN Send(request) ELSE UNCHANGED <<call, network>>
        /\ answers' = {} /\ GwUnchanged

\* _verify_receipt
ReceiptTrusted(receipt) ==
    IdentitiesCurrent(TRUE) /\ receipt.cred = ot.cred /\ ReceiptVerified(receipt, call, gwNow)

\* _commit: an intent issued before the preparation it names cannot be built;
\* the exception ends the call and the effect stays armed.
CommitFrom(rec) ==
    LET commit == CommitRequest(LatestReceipt(rec), gwNow)
        begun == CommitBegunRecord(rec, commit, None, gwNow)
        issued == IdentitiesCurrent(TRUE) /\ CommitClosed(commit)
    IN  /\ IF issued /\ Storable(begun)
           THEN gwRec' = begun /\ Send(commit)
           ELSE gwRec' = rec /\ call' = None /\ UNCHANGED network
        /\ Flag(IF issued THEN {begun} ELSE {})

\* _prepare, from the receipt on: it is retained at the later of the two
\* clocks, and the commit follows in the same call.
GwPrepared ==
    \E answer \in answers :
        /\ call # None /\ call.kind = "prepare" /\ answers' = {}
        /\ LET at == Later(gwNow, answer.prepared)
               prepared == PreparedRecord(gwRec, answer, at)
               closed == ClosedRecord(gwRec, at)
           IN  IF ReceiptTrusted(answer) /\ Storable(prepared)
               THEN CommitFrom(prepared)
               ELSE /\ GwKeeps(closed)
                    /\ Flag({closed} \cup (IF ReceiptTrusted(answer) THEN {prepared} ELSE {}))
                    /\ call' = None /\ UNCHANGED network
        /\ GwUnchanged

\* A refused or missing prepare answer closes the effect.
GwPrepareFails ==
    /\ call # None /\ call.kind = "prepare"
    /\ GwStores(ClosedRecord(gwRec, gwNow))
    /\ call' = None /\ answers' = {} /\ UNCHANGED network /\ GwUnchanged

\* _verify_outcome
OutcomeTrusted(outcome) ==
    IdentitiesCurrent(FALSE) /\ outcome.cred = ot.cred /\ OutcomeVerified(outcome, call, gwNow)

\* _commit and _query, from the answer on: the outcome is retained, or the
\* attempt is marked as failed.
GwAnswered ==
    \E answer \in answers :
        /\ call # None /\ call.kind \in {"commit", "query"} /\ answers' = {}
        /\ LET at == Later(gwNow, answer.signed)
               retained == IF call.kind = "commit" THEN CommitFinishedRecord(gwRec, answer, at)
                                                   ELSE QueryCompletedRecord(gwRec, answer, at)
               failed == IF call.kind = "commit" THEN CommitUnknownRecord(gwRec, call, gwNow)
                                                 ELSE QueryFailedRecord(gwRec, call, gwNow)
           IN  GwStores(IF OutcomeTrusted(answer) /\ (Storable(retained) \/ IllFormed(retained))
                        THEN retained ELSE failed)
        /\ call' = None /\ UNCHANGED network /\ GwUnchanged

GwCallFails ==
    /\ call # None /\ call.kind \in {"commit", "query"}
    /\ GwStores(IF call.kind = "commit" THEN CommitUnknownRecord(gwRec, call, gwNow)
                                        ELSE QueryFailedRecord(gwRec, call, gwNow))
    /\ call' = None /\ answers' = {} /\ UNCHANGED network /\ GwUnchanged

Committed(rec) == AttemptsOf(rec, "commit") # {}

\* _reconcile of an effect without a commit intent; refused while the
\* gateway's clock is behind the last transition.
GwClose ==
    /\ call = None /\ gwRec # None /\ ~TerminalState(StateOf(gwRec)) /\ ~Committed(gwRec)
    /\ GwStores(ClosedRecord(gwRec, gwNow))
    /\ UNCHANGED <<call, network, answers>> /\ GwUnchanged

\* _query: a commit intent without an answer is marked before the query is retained.
GwQuery ==
    LET commit == (CHOOSE a \in AttemptsOf(gwRec, "commit") : TRUE)
        marked == IF commit.status = "request_retained"
                  THEN CommitUnknownRecord(gwRec, commit.request, gwNow) ELSE gwRec
        query == QueryRequest(Len(gwRec.attempts), gwNow)
        begun == QueryBegunRecord(marked, query, "gateway", gwNow)
    IN  /\ call = None /\ gwRec # None /\ ~TerminalState(StateOf(gwRec)) /\ Committed(gwRec)
        /\ IF ~Storable(marked)
           THEN UNCHANGED <<gwRec, call, network>> /\ Flag({marked})
           ELSE /\ IF IdentitiesCurrent(FALSE) /\ Storable(begun)
                   THEN gwRec' = begun /\ Send(query)
                   ELSE gwRec' = marked /\ UNCHANGED <<call, network>>
                /\ Flag(IF IdentitiesCurrent(FALSE) THEN {begun} ELSE {})
        /\ answers' = {} /\ GwUnchanged

(***************************************************************************)
(* The coordinator.                                                        *)
(***************************************************************************)
\* An answer nobody waits for any more is not kept.
Answer(request, body) ==
    answers' = IF call = request THEN {body} ELSE answers

\* A refused request: the gateway reads an error status.
Refuse == UNCHANGED answers

OtUnchanged == UNCHANGED <<revoked, gwNow, otNow, gwRec, call, pin, ot, disturbances>>

\* _coordination_context and the verification of the request, at one reading
\* of the clock.
Authenticated(request, at) ==
    /\ CurrentKey(ot.cred, at)
    /\ CASE request.kind = "prepare" -> PrepareAdmissible(request, ot.cred, ot.boot, at)
         [] request.kind = "commit" -> CommitAdmissible(request, ot.cred, ot.boot, at)
         [] OTHER -> EnvelopeAdmitted(request, at)

OtAdmit ==
    \E request \in network :
        /\ network' = network \ {request}
        /\ admitted' = IF Authenticated(request, otNow)
                       THEN admitted \cup {[request |-> request, at |-> otNow]} ELSE admitted
        /\ UNCHANGED <<otRec, marker, working, answers, illFormed>> /\ OtUnchanged

\* The coordination lock is free, and a waiting request gets it.
Locked(h, kind) ==
    working = None /\ h \in admitted /\ h.request.kind = kind /\ admitted' = admitted \ {h}

\* prepare_effect
OtPrepare ==
    \E h \in admitted :
        LET receipt == Receipt(h.request, ot.cred, h.at)
            rec == PrepareAnswered(receipt, h.at)
        IN  /\ Locked(h, "prepare") /\ otRec = None
            /\ IF /\ ReceiptClosed(receipt) /\ Storable(rec)
                  /\ ReceiptVerified(receipt, h.request, h.at)
               THEN Answer(h.request, receipt) /\ marker' = TRUE
               ELSE Refuse /\ UNCHANGED marker
            /\ IF ReceiptClosed(receipt) THEN OtStores(rec) ELSE UNCHANGED <<otRec, illFormed>>
            /\ UNCHANGED <<network, working>> /\ OtUnchanged

\* commit_effect, up to the call of the device: the acceptance is retained
\* with the time at which the request was authenticated.
OtAccept ==
    \E h \in admitted :
        LET acceptance == Acceptance(h.request, ot.cred, h.at)
            rec == CommitBegunRecord(otRec, h.request, acceptance, h.at)
            issued == marker /\ AcceptanceClosed(acceptance)
        IN  /\ Locked(h, "commit") /\ otRec # None
            /\ marker' = FALSE
            /\ IF issued THEN OtStores(rec) ELSE UNCHANGED <<otRec, illFormed>>
            /\ working' = IF issued /\ Storable(rec) /\ AcceptanceVerified(acceptance, h.at)
                          THEN [acceptance |-> acceptance, ack |-> None] ELSE None
            /\ Refuse /\ UNCHANGED network /\ OtUnchanged

\* The device answers.
OtDevice ==
    /\ working # None /\ working.ack = None
    /\ \E status \in {"applied", "rejected", "unknown_effect"} :
           working' = [working EXCEPT !.ack = Acknowledgment(status, otNow)]
    /\ UNCHANGED <<otRec, marker, network, admitted, answers, illFormed>> /\ OtUnchanged

\* The outcome is signed and retained.  Without an acknowledgment, or when
\* the outcome cannot be issued, it is unknown; when even that cannot be
\* issued the attempt is marked and the answer is an error.
OtConclude ==
    LET acceptance == working.acceptance
        commit == acceptance.commit
        told == Outcome(commit, working.ack.status, acceptance, working.ack, ot.cred, otNow)
        unknown == Outcome(commit, "unknown_effect", acceptance, None, ot.cred, otNow)
        Signed(outcome) ==
            LET rec == CommitFinishedRecord(otRec, outcome, otNow)
            IN  /\ OtStores(rec)
                /\ IF Storable(rec) THEN Answer(commit, outcome) ELSE Refuse
    IN  /\ working # None
        /\ IF working.ack # None /\ OutcomeIssuable(told) THEN Signed(told)
           ELSE IF OutcomeIssuable(unknown) THEN Signed(unknown)
           ELSE OtStores(CommitUnknownRecord(otRec, commit, otNow)) /\ Refuse
        /\ working' = None
        /\ UNCHANGED <<marker, network, admitted>> /\ OtUnchanged

\* issue_outcome: what the record says about the effect.
QueryOutcome(h) ==
    LET acceptance == LatestAcceptance(otRec)
        prior == LatestOutcome(otRec)
        state == StateOf(otRec)
    IN  IF acceptance = None
        THEN Outcome(h.request, "not_dispatched", None, None, ot.cred, h.at)
        ELSE IF state \in {"applied", "rejected"}
        THEN Outcome(h.request, state, acceptance, prior.ack, ot.cred, h.at)
        ELSE Outcome(h.request, "unknown_effect", acceptance,
                     IF prior = None THEN None ELSE prior.ack, ot.cred, h.at)

\* _stored_receipt_complete_for_query, _stored_acceptance_complete
StoredEvidenceHolds(at) ==
    IF LatestAcceptance(otRec) # None THEN AcceptanceVerified(LatestAcceptance(otRec), at)
    ELSE LET receipt == LatestReceipt(otRec)
         IN  /\ ReceiptVerified(receipt, receipt.request, at)
             /\ InnerDispatchVerified(receipt.request.permit, receipt.cred,
                                      receipt.request.permit.boot, receipt.prepared)

\* query_effect.  The journal writes the query first and its answer second: a
\* query whose answer is refused stays in the record.
OtQuery ==
    \E h \in admitted :
        LET outcome == QueryOutcome(h)
            begun == QueryBegunRecord(otRec, h.request, "effect_coordinator", h.at)
            rec == QueryAnswered(otRec, outcome, h.at)
            issued == otRec # None /\ StoredEvidenceHolds(h.at) /\ OutcomeIssuable(outcome)
        IN  /\ Locked(h, "query")
            /\ IF ~issued THEN UNCHANGED <<otRec, illFormed>>
               ELSE IF Storable(rec) \/ IllFormed(rec) THEN OtStores(rec)
               ELSE OtStores(begun)
            /\ IF issued /\ Storable(rec) /\ OutcomeVerified(outcome, h.request, h.at)
               THEN Answer(h.request, outcome) ELSE Refuse
            /\ marker' = (marker /\ (issued /\ Storable(rec) => ~TerminalState(StateOf(rec))))
            /\ UNCHANGED <<network, working>> /\ OtUnchanged

(***************************************************************************)
(* The environment.                                                        *)
(***************************************************************************)
Distance(a, b) == IF a >= b THEN a - b ELSE b - a

EnvUnchanged == UNCHANGED <<gwRec, otRec, illFormed>>

Tick ==
    /\ \/ gwNow < MaxTime /\ gwNow' = gwNow + 1 /\ UNCHANGED otNow
       \/ otNow < MaxTime /\ otNow' = otNow + 1 /\ UNCHANGED gwNow
    /\ Distance(gwNow', otNow') <= MaxDrift
    /\ UNCHANGED <<revoked, call, pin, ot, marker, network, admitted, working, answers, disturbances>>
    /\ EnvUnchanged

GwRestart ==
    /\ disturbances < MaxDisturbances /\ disturbances' = disturbances + 1
    /\ call' = None /\ answers' = {} /\ pin' = ot
    /\ UNCHANGED <<revoked, gwNow, otNow, ot, marker, network, admitted, working>>
    /\ EnvUnchanged

\* The process comes back with the same or with a rotated credential.
OtRestart ==
    /\ disturbances < MaxDisturbances /\ disturbances' = disturbances + 1
    /\ \E c \in OtCreds : ot' = [cred |-> c, boot |-> ot.boot + 1]
    /\ marker' = FALSE /\ admitted' = {} /\ working' = None
    /\ UNCHANGED <<revoked, gwNow, otNow, call, pin, network, answers>>
    /\ EnvUnchanged

\* The trust bundle revokes a credential in use as of now.
Revoke ==
    /\ disturbances < MaxDisturbances /\ disturbances' = disturbances + 1
    /\ \E c \in {GatewayCred, ot.cred} : revoked[c] = None /\ revoked' = [revoked EXCEPT ![c] = gwNow]
    /\ UNCHANGED <<gwNow, otNow, call, pin, ot, marker, network, admitted, working, answers>>
    /\ EnvUnchanged

ExchangeNext ==
    \/ GwPrepare \/ GwPrepared \/ GwPrepareFails \/ GwAnswered \/ GwCallFails \/ GwClose \/ GwQuery
    \/ OtAdmit \/ OtPrepare \/ OtAccept \/ OtDevice \/ OtConclude \/ OtQuery
    \/ Tick \/ GwRestart \/ OtRestart \/ Revoke

ExchangeSpec == ExchangeInit /\ [][ExchangeNext]_exchangeVars

(***************************************************************************)
(* reconcile_effect_evidence: what the gateway shows of a committed effect *)
(* once the query has ended, a resolution or a pending outcome.            *)
(***************************************************************************)
\* _prior_state_for_query: the state before the query, by the times the
\* transitions carry, without what the query itself brought.
PriorState(rec, a) ==
    LET Before(t) == /\ t.at <= a.retained
                     /\ t.ev \notin {a.outcome, a.outcome.acceptance}
                     /\ t.state \in {"dispatch_armed", "commit_accepted", "unknown_effect"}
        prior == {i \in DOMAIN rec.transitions : Before(rec.transitions[i])}
    IN  IF prior = {} THEN None ELSE rec.transitions[LastOf(prior)].state

\* _resolution_from_record, _pending_from_record: the query that brought the
\* terminal outcome, or the last one that left the effect unknown.
ShownQuery(rec) ==
    LET outcome == TerminalOutcome(rec)
        Shows(a) == /\ a.kind = "query" /\ a.outcome # None
                    /\ IF outcome # None THEN a.outcome = outcome
                                         ELSE a.outcome.disposition = "unknown_effect"
        shown == {i \in DOMAIN rec.attempts : Shows(rec.attempts[i])}
    IN  IF shown = {} THEN None ELSE rec.attempts[LastOf(shown)]

EvidenceFrom(rec, a) ==
    [prior |-> PriorState(rec, a), query |-> a.request, outcome |-> a.outcome, at |-> a.updated]

EvidenceBinds(evidence) ==
    /\ evidence.prior # None
    /\ evidence.outcome.acceptance # None
    /\ evidence.outcome.request = evidence.query /\ evidence.outcome.signed <= evidence.at

\* require_exact_resolution, require_exact_pending
ResolutionClosed(evidence) ==
    EvidenceBinds(evidence) /\ evidence.outcome.disposition \in {"applied", "rejected"}

PendingClosed(evidence) ==
    EvidenceBinds(evidence) /\ evidence.outcome.disposition = "unknown_effect"

\* verify_historical_complete of either
EvidenceHolds(evidence, at) ==
    evidence.at <= at + FutureSkew /\ OutcomeHistorical(evidence.outcome, evidence.query, at)

\* _verify_retained_terminal_outcome: also what a repeated action is answered with.
TerminalExposed(rec, at) ==
    LET outcome == TerminalOutcome(rec)
        retaining == {i \in DOMAIN rec.attempts : rec.attempts[i].outcome = outcome}
    IN  /\ IdentitiesCurrent(FALSE)
        /\ OutcomeHistorical(outcome, rec.attempts[LastOf(retaining)].request, at)

\* _verify_reconciliation_evidence
EvidenceVerified(rec, evidence, at) ==
    /\ IF TerminalOutcome(rec) # None THEN ResolutionClosed(evidence) /\ TerminalExposed(rec, at)
                                      ELSE PendingClosed(evidence)
    /\ IdentitiesCurrent(FALSE) /\ EvidenceHolds(evidence, at)

Reconciled(rec, at) ==
    IF ~Committed(rec) \/ StateOf(rec) = "not_dispatched" THEN "effect_was_not_committed"
    ELSE IF ShownQuery(rec) = None
    THEN IF TerminalOutcome(rec) # None THEN "effect_not_query_resolved"
                                        ELSE "effect_reconciliation_unavailable"
    ELSE IF EvidenceVerified(rec, EvidenceFrom(rec, ShownQuery(rec)), at)
    THEN "shown" ELSE "retained_effect_verification_failed"

--------------------------------------------------------------------------------
\* An outcome the record retains, with the request it answered.
RetainedBy(rec) == {a \in ToSet(rec.attempts) : a.outcome # None}

\* Some signature under the outcome was made at or after the revocation of its
\* credential.
RevokedEvidence(outcome) ==
    LET acceptance == outcome.acceptance
    IN  \/ RevokedBy(outcome.cred, outcome.signed) \/ RevokedBy(GatewayCred, outcome.signed)
        \/ /\ acceptance # None
           /\ \/ RevokedBy(acceptance.cred, acceptance.accepted)
              \/ RevokedBy(GatewayCred, acceptance.accepted)
              \/ RevokedBy(acceptance.commit.receipt.cred, acceptance.commit.receipt.prepared)
              \/ RevokedBy(GatewayCred, acceptance.commit.receipt.prepared)

(***************************************************************************)
(* What the gateway once verified and retained it can still show: at every *)
(* later reading of its clock, after the credentials expired, the          *)
(* coordinator rotated its key or one of them was revoked, the retained    *)
(* outcome passes verify_historical_for_request unless the revocation      *)
(* reaches back to a signature of the evidence, and a reconciliation       *)
(* (reconcile_effect_evidence) fails its own verification only then or     *)
(* while a party has no credential for the present.                        *)
(***************************************************************************)
RetainedStaysVerifiable ==
    gwRec # None =>
        /\ \A a \in RetainedBy(gwRec) :
               OutcomeHistorical(a.outcome, a.request, gwNow) \/ RevokedEvidence(a.outcome)
        /\ Reconciled(gwRec, gwNow) = "retained_effect_verification_failed" =>
               ~IdentitiesCurrent(FALSE) \/ RevokedEvidence(ShownQuery(gwRec).outcome)

(***************************************************************************)
(* The journal methods and the record validator agree: a method that does  *)
(* not raise builds a record the validator accepts, whatever the order in  *)
(* which requests got the lock, unless the times run backwards.  And a     *)
(* record refused for its times leaves nothing behind: every receipt and   *)
(* every outcome the gateway retains is in the coordinator's record, so no *)
(* handler that waited for the lock answers with what it could not retain  *)
(* (prepare_effect, commit_effect, query_effect).                          *)
(***************************************************************************)
BuiltRecordsAreLegal ==
    /\ ~illFormed
    /\ gwRec # None =>
           /\ LatestReceipt(gwRec) # None =>
                  otRec # None /\ LatestReceipt(otRec) = LatestReceipt(gwRec)
           /\ \A a \in RetainedBy(gwRec) :
                  otRec # None /\ \E b \in RetainedBy(otRec) : b.outcome = a.outcome

================================================================================
