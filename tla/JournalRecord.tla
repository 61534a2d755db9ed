----------------------------- MODULE JournalRecord -----------------------------
(***************************************************************************)
(* The signed messages of one coordinated effect, and its journal record.  *)
(*                                                                         *)
(* Messages: what it takes to accept each of them, that is request         *)
(* windows, credential windows, revocations and the order of the times     *)
(* they carry.  A message is the record of its fields, so equality of      *)
(* records is equality of digests; a signature is the credential the       *)
(* message names.  Times are readings of the clock of the service that     *)
(* wrote them.                                                             *)
(*                                                                         *)
(* The record: its transitions and its attempts with the signed messages   *)
(* they retain, what the record validator accepts                          *)
(* (CoordinationJournalRecord, revalidated by every _store and _load), and *)
(* the record each journal method builds from it.  A method that raises    *)
(* before it builds a record returns Refused.                              *)
(***************************************************************************)
EXTENDS Naturals, SequencesExt

CONSTANTS
    None,          \* absent field
    Ttl,           \* call_ttl of every request
    FutureSkew,    \* MAX_COORDINATION_FUTURE_SKEW
    PermitLife,    \* lifetime of the permit in the dispatch
    GatewayCred,   \* the gateway's credential
    OtCreds,       \* credentials of the coordinator, before and after rotation
    ValidUntil     \* expiry of each credential; all are valid from time 0

VARIABLE revoked   \* when the trust bundle revokes a credential; None while it does not

Creds == OtCreds \cup {GatewayCred}

ASSUME EvidenceAssumption ==
    /\ Ttl \in Nat \ {0} /\ FutureSkew \in Nat /\ PermitLife \in Nat \ {0}
    /\ GatewayCred \notin OtCreds /\ None \notin Creds
    /\ ValidUntil \in [Creds -> Nat]

ValidAt(from, until, at) == from <= at /\ at < until

InWindow(c, at) == ValidAt(0, ValidUntil[c], at)

\* A revocation denies a credential that is presented now, whenever it takes effect.
CurrentKey(c, at) == InWindow(c, at) /\ revoked[c] = None

RevokedBy(c, at) == revoked[c] # None /\ revoked[c] <= at

\* Faulty variant: a retained admission is judged by the present state of the credential.
PresentKey(c, authenticated, at) == CurrentKey(c, at)

HistoricalKey(c, authenticated, at) ==
    /\ authenticated <= at + FutureSkew
    /\ InWindow(c, authenticated)
    /\ ~RevokedBy(c, authenticated)

(***************************************************************************)
(* The dispatch: the permit names the key and the boot of the PLC it is    *)
(* for, and ends.                                                          *)
(***************************************************************************)
PermitAt(cred, boot, at) == [cred |-> cred, boot |-> boot, issued |-> at, expires |-> at + PermitLife]

InnerDispatchVerified(permit, cred, boot, at) ==
    /\ permit.cred = cred /\ permit.boot = boot
    /\ ValidAt(permit.issued, permit.expires, at)

(***************************************************************************)
(* Requests of the gateway.                                                *)
(***************************************************************************)
PrepareRequest(permit, at) ==
    [kind |-> "prepare", permit |-> permit, issued |-> at, expires |-> at + Ttl]

CommitRequest(receipt, at) ==
    [kind |-> "commit", receipt |-> receipt, issued |-> at, expires |-> at + Ttl]

\* n stands for the request nonce.
QueryRequest(n, at) == [kind |-> "query", nonce |-> n, issued |-> at, expires |-> at + Ttl]

\* The closed model: a commit that precedes the preparation cannot be issued.
CommitClosed(commit) ==
    commit.issued >= commit.receipt.prepared /\ InWindow(GatewayCred, commit.issued)

EnvelopeAdmitted(request, at) ==
    CurrentKey(GatewayCred, at) /\ ValidAt(request.issued, request.expires, at)

PrepareAdmissible(request, cred, boot, at) ==
    /\ EnvelopeAdmitted(request, at)
    /\ InnerDispatchVerified(request.permit, cred, boot, at)

(***************************************************************************)
(* Answers of the coordinator.                                             *)
(***************************************************************************)
Receipt(request, cred, at) == [request |-> request, cred |-> cred, prepared |-> at]

ReceiptClosed(receipt) ==
    /\ ValidAt(receipt.request.issued, receipt.request.expires, receipt.prepared)
    /\ InWindow(receipt.cred, receipt.prepared)
    /\ receipt.cred = receipt.request.permit.cred

\* verify_for_request and verify_historical_for_request ask the same of a receipt.
ReceiptVerified(receipt, request, at) ==
    /\ receipt.request = request
    /\ HistoricalKey(GatewayCred, receipt.prepared, at)
    /\ HistoricalKey(receipt.cred, receipt.prepared, at)
    /\ receipt.cred = request.permit.cred
    /\ ValidAt(request.issued, request.expires, receipt.prepared)
    /\ receipt.prepared <= at + FutureSkew

CommitAdmissible(commit, cred, boot, at) ==
    /\ EnvelopeAdmitted(commit, at)
    /\ ReceiptVerified(commit.receipt, commit.receipt.request, at)
    /\ InnerDispatchVerified(commit.receipt.request.permit, cred, boot, at)

Acceptance(commit, cred, at) == [commit |-> commit, cred |-> cred, accepted |-> at]

AcceptanceClosed(acceptance) ==
    /\ ValidAt(acceptance.commit.issued, acceptance.commit.expires, acceptance.accepted)
    /\ acceptance.accepted >= acceptance.commit.receipt.prepared
    /\ acceptance.cred = acceptance.commit.receipt.cred
    /\ InWindow(acceptance.cred, acceptance.accepted)

\* The pins are those of the dispatch itself: an acceptance outlives the boot it was made in.
AcceptanceVerified(acceptance, at) ==
    LET commit == acceptance.commit
        permit == commit.receipt.request.permit
    IN  /\ HistoricalKey(GatewayCred, acceptance.accepted, at)
        /\ HistoricalKey(acceptance.cred, acceptance.accepted, at)
        /\ AcceptanceClosed(acceptance)
        /\ acceptance.accepted <= at + FutureSkew
        /\ ReceiptVerified(commit.receipt, commit.receipt.request, at)
        /\ InnerDispatchVerified(permit, acceptance.cred, permit.boot, acceptance.accepted)

Acknowledgment(status, at) == [status |-> status, at |-> at]

Outcome(request, disposition, acceptance, ack, cred, at) ==
    [request |-> request, disposition |-> disposition, acceptance |-> acceptance,
     ack |-> ack, cred |-> cred, signed |-> at]

\* What the acknowledgment must say for the disposition, and when it was made.
AcknowledgmentFits(outcome) ==
    /\ outcome.disposition \in {"applied", "rejected"} => outcome.ack # None
    /\ outcome.ack # None =>
          /\ outcome.ack.status = outcome.disposition
          /\ outcome.acceptance.accepted <= outcome.ack.at
          /\ outcome.ack.at <= outcome.signed

OutcomeClosed(outcome) ==
    /\ InWindow(outcome.cred, outcome.signed)
    /\ IF outcome.disposition = "not_dispatched"
       THEN outcome.request.kind = "query" /\ outcome.acceptance = None /\ outcome.ack = None
       ELSE /\ outcome.acceptance # None
            /\ outcome.acceptance.accepted <= outcome.signed
            /\ AcknowledgmentFits(outcome)

OutcomeIssuable(outcome) ==
    /\ ValidAt(outcome.request.issued, outcome.request.expires, outcome.signed)
    /\ outcome.request.kind = "commit" =>
          outcome.acceptance # None /\ outcome.acceptance.commit = outcome.request
    /\ OutcomeClosed(outcome)

\* verify_for_request: under the present credentials, while the request is open.
OutcomeVerified(outcome, request, at) ==
    /\ EnvelopeAdmitted(request, at)
    /\ CurrentKey(outcome.cred, at)
    /\ outcome.request = request
    /\ request.kind = "commit" =>
          outcome.acceptance # None /\ outcome.acceptance.commit = request
    /\ outcome.acceptance # None => AcceptanceVerified(outcome.acceptance, at)
    /\ ValidAt(request.issued, request.expires, outcome.signed)
    /\ outcome.signed <= at + FutureSkew

\* verify_historical_for_request: at the times the retained evidence carries.
OutcomeHistorical(outcome, request, at) ==
    LET authenticated == IF request.kind = "commit" THEN outcome.acceptance.accepted
                                                    ELSE outcome.signed
    IN  /\ HistoricalKey(GatewayCred, authenticated, at)
        /\ HistoricalKey(outcome.cred, outcome.signed, at)
        /\ outcome.request = request
        /\ ValidAt(request.issued, request.expires, outcome.signed)
        /\ IF outcome.acceptance = None THEN outcome.disposition = "not_dispatched"
                                        ELSE AcceptanceVerified(outcome.acceptance, at)
        /\ AcknowledgmentFits(outcome)
        /\ outcome.signed <= at + FutureSkew

--------------------------------------------------------------------------------
(***************************************************************************)
(* The journal record.                                                     *)
(***************************************************************************)
CONSTANTS
    Refused,             \* the journal method raised
    AttemptCapacity      \* MAX_ATTEMPTS_PER_EFFECT

ASSUME JournalAssumption ==
    /\ AttemptCapacity \in Nat \ {0} /\ Refused # None
    /\ None \notin {"dispatch_armed", "commit_accepted", "unknown_effect"}

TerminalState(s) == s \in {"not_dispatched", "applied", "rejected"}

\* _LEGAL_TRANSITIONS
MayFollow(s, t) ==
    CASE s = "received" -> t \in {"dispatch_armed", "not_dispatched"}
      [] s = "dispatch_armed" -> t \in {"commit_accepted", "not_dispatched"}
      [] s = "commit_accepted" -> t \in {"unknown_effect", "applied", "rejected"}
      [] s = "unknown_effect" -> t \in {"applied", "rejected"}
      [] OTHER -> FALSE

Attempt(request, status, at) ==
    [kind |-> request.kind, request |-> request, status |-> status, retained |-> at,
     updated |-> at, receipt |-> None, acceptance |-> None, outcome |-> None]

StateOf(rec) == Last(rec.transitions).state

(***************************************************************************)
(* The validators of attempts.  A request-only or unknown attempt carries  *)
(* no answer, and an answer binds the request of its attempt.              *)
(***************************************************************************)
PrepareAttemptHolds(a) ==
    /\ a.status # "outcome_unknown"
    /\ a.status = "request_retained" => a.receipt = None
    /\ a.status = "response_retained" => a.receipt # None /\ a.receipt.request = a.request
    /\ a.receipt # None => a.updated >= a.receipt.prepared

CommitAttemptHolds(a) ==
    /\ a.acceptance # None => a.acceptance.commit = a.request /\ a.updated >= a.acceptance.accepted
    /\ IF a.status = "response_retained"
       THEN /\ a.outcome # None /\ a.acceptance # None
            /\ a.outcome.request = a.request /\ a.outcome.acceptance = a.acceptance
            /\ a.updated >= a.outcome.signed
       ELSE a.outcome = None

QueryAttemptHolds(a) ==
    IF a.status = "response_retained"
    THEN a.outcome # None /\ a.outcome.request = a.request /\ a.updated >= a.outcome.signed
    ELSE a.outcome = None

AttemptHolds(a) ==
    /\ a.retained >= a.request.issued /\ a.updated >= a.retained
    /\ a.kind = "prepare" => PrepareAttemptHolds(a)
    /\ a.kind = "commit" => CommitAttemptHolds(a)
    /\ a.kind = "query" => QueryAttemptHolds(a)

(***************************************************************************)
(* What a record retains.                                                  *)
(***************************************************************************)
AttemptsOf(rec, kind) == {a \in ToSet(rec.attempts) : a.kind = kind}

ReceiptsIn(attempts) == {a.receipt : a \in ToSet(attempts)} \ {None}

AcceptancesIn(attempts) == {a.acceptance : a \in ToSet(attempts)} \ {None}

OutcomesIn(attempts) == {a.outcome : a \in ToSet(attempts)} \ {None}

OutcomesWith(rec, disposition) ==
    {o \in OutcomesIn(rec.attempts) : o.disposition = disposition}

\* latest_receipt, latest_acceptance, terminal_outcome
LatestReceipt(rec) == (CHOOSE a \in AttemptsOf(rec, "prepare") : TRUE).receipt

LatestAcceptance(rec) ==
    IF AcceptancesIn(rec.attempts) = {} THEN None
    ELSE CHOOSE a \in AcceptancesIn(rec.attempts) : TRUE

LastOf(indices) == CHOOSE i \in indices : \A j \in indices : j <= i

LatestWith(rec, wanted) ==
    LET found == {i \in DOMAIN rec.attempts : rec.attempts[i].outcome \in wanted}
    IN  IF found = {} THEN None ELSE rec.attempts[LastOf(found)].outcome

TerminalOutcome(rec) ==
    LatestWith(rec, OutcomesWith(rec, "applied") \cup OutcomesWith(rec, "rejected"))

LatestOutcome(rec) == LatestWith(rec, OutcomesIn(rec.attempts))

(***************************************************************************)
(* require_legal_history: the chronology, and everything else.             *)
(***************************************************************************)
Chronological(rec) ==
    /\ \A i \in 1 .. Len(rec.transitions) - 1 :
           rec.transitions[i].at <= rec.transitions[i + 1].at
    /\ \A i \in 1 .. Len(rec.attempts) - 1 :
           rec.attempts[i].retained <= rec.attempts[i + 1].retained
    /\ \A i \in DOMAIN rec.attempts : rec.attempts[i].updated >= rec.attempts[i].retained

TransitionsLegal(rec) ==
    /\ rec.transitions[1].state = "received"
    /\ \A i \in 1 .. Len(rec.transitions) - 1 :
           MayFollow(rec.transitions[i].state, rec.transitions[i + 1].state)

\* Evidence is retained before it is referred to.
AttemptsLegal(rec) ==
    /\ rec.attempts[1].kind = "prepare"
    /\ Cardinality(AttemptsOf(rec, "commit")) <= 1
    /\ \A i \in DOMAIN rec.attempts :
           LET a == rec.attempts[i]
               upto == SubSeq(rec.attempts, 1, i)
           IN  /\ AttemptHolds(a)
               /\ a.kind = "commit" => a.request.receipt \in ReceiptsIn(upto)
               /\ a.kind = "query" /\ a.outcome # None /\ a.outcome.disposition # "not_dispatched" =>
                      /\ a.outcome.acceptance \in AcceptancesIn(upto)
                      /\ a.outcome.acceptance.commit.receipt \in ReceiptsIn(upto)

PostCommitStates == {"commit_accepted", "unknown_effect", "applied", "rejected"}

EvidenceLegal(rec) ==
    LET state == StateOf(rec)
        last == Last(rec.transitions)
        acceptance == LatestAcceptance(rec)
        terminal == OutcomesWith(rec, "applied") \cup OutcomesWith(rec, "rejected")
        closing == OutcomesWith(rec, "not_dispatched")
    IN  /\ state \notin {"received", "not_dispatched"} => ReceiptsIn(rec.attempts) # {}
        /\ (\E t \in ToSet(rec.transitions) : t.state \in PostCommitStates) =>
               AttemptsOf(rec, "commit") # {} /\ acceptance # None
        /\ acceptance # None =>
               /\ Len(rec.transitions) >= 3
               /\ rec.transitions[3].state = "commit_accepted"
               /\ rec.transitions[3].ev = acceptance
               /\ rec.transitions[3].at >= acceptance.accepted
        /\ IF state \in {"applied", "rejected"}
           THEN {o.disposition : o \in terminal} = {state} /\ last.ev \in terminal
           ELSE terminal = {}
        /\ closing # {} => state = "not_dispatched" /\ last.ev \in closing

LegalHistory(rec) ==
    TransitionsLegal(rec) /\ Chronological(rec) /\ AttemptsLegal(rec) /\ EvidenceLegal(rec)

(***************************************************************************)
(* The steps the methods are made of.                                      *)
(***************************************************************************)
Transition(rec, state, ev, at) ==
    [rec EXCEPT !.transitions = Append(@, [state |-> state, ev |-> ev, at |-> at])]

Retain(rec, attempt) == [rec EXCEPT !.attempts = Append(@, attempt)]

\* _replace_attempt
Replace(rec, replacement) ==
    [rec EXCEPT !.attempts = [i \in DOMAIN @ |->
        IF @[i].request = replacement.request THEN replacement ELSE @[i]]]

Holds(rec, request) == \E a \in ToSet(rec.attempts) : a.request = request

AttemptFor(rec, request) == CHOOSE a \in ToSet(rec.attempts) : a.request = request

(***************************************************************************)
(* Methods of both journals.                                               *)
(***************************************************************************)
\* begin: the first attempt at an effect.
BegunRecord(request, at) ==
    [transitions |-> <<[state |-> "received", ev |-> request, at |-> at]>>,
     attempts |-> <<Attempt(request, "request_retained", at)>>]

\* retain_preparation
PreparedRecord(rec, receipt, at) ==
    IF TerminalState(StateOf(rec)) \/ ~Holds(rec, receipt.request) THEN Refused
    ELSE Transition(Replace(rec,
                        [AttemptFor(rec, receipt.request) EXCEPT !.status = "response_retained", !.receipt = receipt,
                                             !.updated = at]),
                    "dispatch_armed", receipt, at)

\* _begin_commit_record; the coordinator issues an acceptance, the gateway does not.
CommitBegunRecord(rec, commit, acceptance, at) ==
    IF \/ AttemptsOf(rec, "commit") # {}
       \/ StateOf(rec) # "dispatch_armed"
       \/ commit.receipt \notin ReceiptsIn(rec.attempts)
       \/ Len(rec.attempts) >= AttemptCapacity
    THEN Refused
    ELSE LET retained == Retain(rec, [Attempt(commit, "request_retained", at)
                                          EXCEPT !.acceptance = acceptance])
         IN  IF acceptance = None THEN retained
             ELSE Transition(retained, "commit_accepted", acceptance, at)

\* Faulty variant: the state follows an acceptance the commit attempt does not keep.
UnkeptRecord(rec, outcome, at) ==
    IF outcome.disposition # "not_dispatched" /\ StateOf(rec) = "dispatch_armed"
    THEN Transition(rec, "commit_accepted", outcome.acceptance, at) ELSE rec

\* _bind_outcome_acceptance
BoundRecord(rec, outcome, at) ==
    LET acceptance == outcome.acceptance
    IN  IF outcome.disposition = "not_dispatched"
        THEN IF acceptance = None /\ LatestAcceptance(rec) = None THEN rec ELSE Refused
        ELSE IF \/ acceptance = None
                \/ ~Holds(rec, acceptance.commit)
                \/ at < acceptance.accepted
                \/ AttemptFor(rec, acceptance.commit).acceptance \notin {None, acceptance}
        THEN Refused
        ELSE LET kept == IF LatestAcceptance(rec) # None THEN rec
                         ELSE Replace(rec,
                                  [AttemptFor(rec, acceptance.commit) EXCEPT !.acceptance = acceptance, !.updated = at])
             IN  IF StateOf(rec) = "dispatch_armed"
                 THEN Transition(kept, "commit_accepted", acceptance, at)
                 ELSE IF StateOf(rec) \in PostCommitStates THEN kept ELSE Refused

\* _mark_commit_unknown_record
CommitUnknownRecord(rec, commit, at) ==
    IF ~Holds(rec, commit) \/ TerminalState(StateOf(rec)) THEN Refused
    ELSE LET status == AttemptFor(rec, commit).status
             marked == Replace(rec, [AttemptFor(rec, commit) EXCEPT !.status = "outcome_unknown", !.updated = at])
         IN  IF status # "request_retained" THEN Refused
             ELSE IF StateOf(rec) = "commit_accepted"
             THEN Transition(marked, "unknown_effect", commit, at)
             ELSE IF StateOf(rec) \in {"dispatch_armed", "unknown_effect"} THEN marked ELSE Refused

\* _finish_commit_record
CommitFinishedRecord(rec, outcome, at) ==
    IF \/ outcome.disposition = "not_dispatched" \/ ~Holds(rec, outcome.request)
       \/ AttemptFor(rec, outcome.request).status = "response_retained"
       \/ TerminalState(StateOf(rec)) \/ BoundRecord(rec, outcome, at) = Refused
    THEN Refused
    ELSE LET bound == BoundRecord(rec, outcome, at)
             answered == Replace(bound,
                             [AttemptFor(bound, outcome.request) EXCEPT !.status = "response_retained", !.outcome = outcome,
                                                  !.updated = at])
         IN  IF StateOf(bound) = outcome.disposition THEN answered
             ELSE IF MayFollow(StateOf(bound), outcome.disposition)
             THEN Transition(answered, outcome.disposition, outcome, at) ELSE Refused

\* _begin_query_record
QueryBegunRecord(rec, query, role, at) ==
    IF \/ StateOf(rec) = "received"
       \/ TerminalState(StateOf(rec)) /\ role = "gateway"
       \/ /\ StateOf(rec) = "dispatch_armed" /\ role = "gateway"
          /\ \A a \in AttemptsOf(rec, "commit") : a.status # "outcome_unknown"
       \/ Len(rec.attempts) >= AttemptCapacity
    THEN Refused
    ELSE Retain(rec, Attempt(query, "request_retained", at))

\* _complete_query_record
QueryCompletedRecord(rec, outcome, at) ==
    LET bound == BoundRecord(rec, outcome, at)
        target == outcome.disposition
        answered == Replace(bound,
                        [AttemptFor(bound, outcome.request) EXCEPT !.status = "response_retained", !.outcome = outcome,
                                             !.updated = at])
    IN  IF \/ ~Holds(rec, outcome.request)
           \/ AttemptFor(rec, outcome.request).status # "request_retained"
           \/ TerminalState(StateOf(rec)) /\ target # StateOf(rec)
           \/ bound = Refused
        THEN Refused
        ELSE IF target = "not_dispatched" /\ StateOf(bound) \notin {"dispatch_armed", "not_dispatched"}
        THEN Refused
        ELSE IF TerminalState(StateOf(bound)) \/ StateOf(bound) = target THEN answered
        ELSE IF MayFollow(StateOf(bound), target) THEN Transition(answered, target, outcome, at)
        ELSE Refused

\* _fail_query_record
QueryFailedRecord(rec, query, at) ==
    IF ~Holds(rec, query) \/ TerminalState(StateOf(rec)) THEN Refused
    ELSE LET failed == Replace(rec, [AttemptFor(rec, query) EXCEPT !.status = "outcome_unknown", !.updated = at])
         IN  IF AttemptFor(rec, query).status # "request_retained" THEN Refused
             ELSE IF StateOf(rec) = "commit_accepted"
             THEN Transition(failed, "unknown_effect", query, at)
             ELSE IF StateOf(rec) \in {"dispatch_armed", "unknown_effect"} THEN failed ELSE Refused

\* close_not_dispatched
ClosedRecord(rec, at) ==
    IF TerminalState(StateOf(rec)) \/ ~MayFollow(StateOf(rec), "not_dispatched") THEN Refused
    ELSE Transition(rec, "not_dispatched", None, at)

(***************************************************************************)
(* Methods of the coordinator's journal that retain request and answer at  *)
(* once.                                                                   *)
(***************************************************************************)
\* prepare_effect of an effect without a record
PrepareAnswered(receipt, at) == PreparedRecord(BegunRecord(receipt.request, at), receipt, at)

\* answer_query
QueryAnswered(rec, outcome, at) ==
    LET begun == QueryBegunRecord(rec, outcome.request, "effect_coordinator", at)
    IN  IF begun = Refused THEN Refused ELSE QueryCompletedRecord(begun, outcome, at)

================================================================================
