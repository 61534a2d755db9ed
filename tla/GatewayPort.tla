------------------------------ MODULE GatewayPort ------------------------------
(***************************************************************************)
(* The gateway side of coordination: CapabilityGatewayRuntime's admission  *)
(* and reconciliation entries and CoordinatedWorkloadRemoteVirtualPlcPort, *)
(* with the gateway's durable journal.  One transaction lock serialises    *)
(* the entries; gwCall is the HTTP call of the one in progress.            *)
(***************************************************************************)
EXTENDS CoordinationBase

VARIABLES
    gwState,    \* durable: coordination state of each effect
    gwCommit,   \* durable: status of its commit attempt
    gwQueries,  \* durable: number of its query attempts
    gwProc,     \* "up", or "down": crashed, or journal unusable
    gwPins,     \* [ot, plant]: boot epochs discovered at start
    gwCall,     \* [op, effect, peer]: the call in progress
    transmissions  \* history: commit requests sent for each effect

gwVars == <<gwState, gwCommit, gwQueries, gwProc, gwPins, gwCall, transmissions>>

GwClosed == {"not_dispatched", "applied", "rejected"}

GwOpen == {"received", "armed", "unknown"}

CommitStatuses == {"none", "retained", "unknown", "response"}

NoCall == [op |-> "idle", effect |-> NoEffect, peer |-> 0]

Call(op, e) == [op |-> op, effect |-> e, peer |-> 0]

\* A query goes to the coordinator process of boot epoch `ot`.
QueryCall(e, ot) == [op |-> "query", effect |-> e, peer |-> ot]

CallOps == {"prepare", "ready", "commit", "reconcile", "query"}

Querying(e) == gwCall.op = "query" /\ gwCall.effect = e

GwTypeOK ==
    /\ gwState \in [Effects -> {"none"} \cup GwOpen \cup GwClosed]
    /\ gwCommit \in [Effects -> CommitStatuses]
    /\ gwQueries \in [Effects -> Nat]
    /\ gwProc \in Processes
    /\ gwPins \in [ot : Nat, plant : Nat]
    /\ gwCall \in {NoCall} \cup [op : CallOps, effect : Effects, peer : Nat]
    /\ transmissions \in [Effects -> Nat]

GwInit ==
    /\ gwState = [e \in Effects |-> "none"]
    /\ gwCommit = [e \in Effects |-> "none"]
    /\ gwQueries = [e \in Effects |-> 0]
    /\ gwProc = "up"
    /\ gwPins = [ot |-> 0, plant |-> 0]
    /\ gwCall = NoCall
    /\ transmissions = [e \in Effects |-> 0]

PendingAtGateway == {e \in Effects : gwState[e] \in GwOpen}

CallAfter(w, c) == IF ProcAfter(w) = "up" THEN c ELSE NoCall

(***************************************************************************)
(* Stores of the gateway journal: the record of e takes the given state    *)
(* and commit status if the write reaches the disk.                        *)
(***************************************************************************)
Store(e, state, commit, w) ==
    /\ SpendWrite(w)
    /\ gwState' = IF Written(w) THEN [gwState EXCEPT ![e] = state] ELSE gwState
    /\ gwCommit' = IF Written(w) THEN [gwCommit EXCEPT ![e] = commit] ELSE gwCommit
    /\ gwProc' = ProcAfter(w)

-------------------------------------------------------------------------------
(***************************************************************************)
(* execute: an action that is not retained yet, while nothing is pending.  *)
(* The controller has observed the plant in state `observed`, decided, and *)
(* issued a permit for the pinned OT boot; the prepare intent is durable   *)
(* before the prepare request is sent.                                     *)
(***************************************************************************)
\* Faulty variant: an effect left open by an earlier action is overlooked.
PendingIgnored(e) == gwState[e] = "none"

NoPendingRequired(e) == gwState[e] = "none" /\ PendingAtGateway = {}

GwExecute(e, observed, w) ==
    /\ gwProc = "up"
    /\ gwCall = NoCall
    /\ NoPendingRequired(e)
    /\ Store(e, "received", "none", w)
    /\ pre' = IF Written(w) THEN [pre EXCEPT ![e] = observed] ELSE pre
    /\ boot' = IF Written(w) THEN [boot EXCEPT ![e] = gwPins.ot] ELSE boot
    /\ gwCall' = IF w = "ok" THEN Call("prepare", e) ELSE NoCall
    /\ msgs' = IF w = "ok" THEN msgs \cup {Msg("prepare", e, 0, "none")} ELSE msgs
    /\ UNCHANGED <<gwQueries, gwPins, transmissions>>

(***************************************************************************)
(* _prepare: the receipt is retained before it is used.                    *)
(***************************************************************************)
GwRetainReceipt(e, w) ==
    /\ gwProc = "up"
    /\ gwCall = Call("prepare", e)
    /\ Msg("receipt", e, 0, "none") \in msgs
    /\ w # "refused"   \* a refused receipt is closed: GwPrepareFails
    /\ Store(e, "armed", "none", w)
    /\ gwCall' = CallAfter(w, Call("ready", e))
    /\ UNCHANGED <<pre, boot, msgs, gwQueries, gwPins, transmissions>>

(***************************************************************************)
(* _prepare, no usable receipt: timeout, refusal, bad or unretainable      *)
(* receipt.  The effect is closed: no commit was sent for it.  (If the     *)
(* closing write is refused the record stays open.)                        *)
(***************************************************************************)
GwPrepareFails(e, w) ==
    /\ gwProc = "up"
    /\ gwCall = Call("prepare", e)
    /\ Store(e, "not_dispatched", "none", w)
    /\ gwCall' = NoCall
    /\ UNCHANGED <<pre, boot, msgs, gwQueries, gwPins, transmissions>>

(***************************************************************************)
(* _commit, entered from _prepare or from _resume of a retained receipt    *)
(* that has no commit intent.  The intent is durable before the request    *)
(* leaves; if it cannot be retained nothing is sent.                       *)
(***************************************************************************)
\* Faulty variant: an armed record is committed again, retained intent or not.
AnyArmed(e) == gwState[e] = "armed"

NoCommitRetained(e) == gwState[e] = "armed" /\ gwCommit[e] = "none"

GwCommit(e, w) ==
    /\ gwProc = "up"
    /\ gwCall = Call("ready", e) \/ gwCall = NoCall
    /\ NoCommitRetained(e)
    /\ Store(e, "armed", "retained", w)
    /\ gwCall' = IF w = "ok" THEN Call("commit", e) ELSE NoCall
    /\ transmissions' = [transmissions EXCEPT ![e] = @ + (IF w = "ok" THEN 1 ELSE 0)]
    /\ msgs' = IF w = "ok" THEN msgs \cup {Msg("commit", e, 0, "none")} ELSE msgs
    /\ UNCHANGED <<pre, boot, gwQueries, gwPins>>

(***************************************************************************)
(* _commit, a signed outcome: retained, then exposed to the caller.        *)
(***************************************************************************)
\* Faulty variant: the acceptance is recorded in place of the outcome.
AcceptanceForOutcome(e, d, w) ==
    /\ gwProc = "up"
    /\ gwCall = Call("commit", e)
    /\ Msg("outcome", e, 0, d) \in msgs
    /\ Store(e, "accepted", "response", w)
    /\ gwCall' = NoCall
    /\ UNCHANGED <<pre, boot, msgs, gwQueries, gwPins, transmissions>>

GwCommitOutcome(e, d, w) ==
    /\ gwProc = "up"
    /\ gwCall = Call("commit", e)
    /\ Msg("outcome", e, 0, d) \in msgs
    /\ w # "refused"   \* an unretainable outcome is ambiguous: GwCommitAmbiguous
    /\ Store(e, d, "response", w)
    /\ gwCall' = NoCall
    /\ UNCHANGED <<pre, boot, msgs, gwQueries, gwPins, transmissions>>

(***************************************************************************)
(* _commit, no usable outcome: the attempt is marked ambiguous.  The       *)
(* record stays armed: the gateway does not know of an acceptance.         *)
(***************************************************************************)
\* Faulty variant: no answer is taken for no effect.
ClosedIfAmbiguous(e) == "not_dispatched"

StateIfAmbiguous(e) == gwState[e]

GwCommitAmbiguous(e, w) ==
    /\ gwProc = "up"
    /\ gwCall = Call("commit", e)
    /\ Store(e, StateIfAmbiguous(e), "unknown", w)
    /\ gwCall' = NoCall
    /\ UNCHANGED <<pre, boot, msgs, gwQueries, gwPins, transmissions>>

-------------------------------------------------------------------------------
(***************************************************************************)
(* Reconciliation of an open record that has no commit intent.             *)
(***************************************************************************)
\* Faulty variant: an intent that no outcome followed is taken for unsent.
IgnoringRetainedIntent(e) == gwState[e] \in GwOpen /\ gwCommit[e] \in {"none", "retained"}

UncommittedOpen(e) == gwState[e] \in GwOpen /\ gwCommit[e] = "none"

GwCloseUncommitted(e, w) ==
    /\ gwProc = "up"
    /\ gwCall = NoCall
    /\ UncommittedOpen(e)
    /\ Store(e, "not_dispatched", gwCommit[e], w)
    /\ UNCHANGED <<pre, boot, msgs, gwQueries, gwPins, gwCall, transmissions>>

(***************************************************************************)
(* _query of a record whose commit intent was retained by a run that did   *)
(* not survive (or could not mark it): marked ambiguous first.             *)
(***************************************************************************)
GwRecoverIntent(e, w) ==
    /\ gwProc = "up"
    /\ gwCall = NoCall
    /\ gwState[e] \in GwOpen /\ gwCommit[e] = "retained"
    /\ Store(e, gwState[e], "unknown", w)
    /\ gwCall' = IF w = "ok" THEN Call("reconcile", e) ELSE NoCall
    /\ UNCHANGED <<pre, boot, msgs, gwQueries, gwPins, transmissions>>

GwAttempts(e) == 2 + gwQueries[e]

(***************************************************************************)
(* _query: the query intent is retained, then one query is sent, with a    *)
(* nonce of its own.  A record at its attempt limit can no longer ask.     *)
(***************************************************************************)
GwQuery(e, ot, w) ==
    /\ gwProc = "up"
    /\ gwState[e] \in GwOpen
    /\ \/ gwCall = Call("reconcile", e)
       \/ gwCall = NoCall /\ gwCommit[e] \in {"unknown", "response"}
    /\ GwAttempts(e) < MaxAttempts
    /\ SpendWrite(w)
    /\ gwQueries' = [gwQueries EXCEPT ![e] = @ + (IF Written(w) THEN 1 ELSE 0)]
    /\ gwProc' = ProcAfter(w)
    /\ gwCall' = IF w = "ok" THEN QueryCall(e, ot) ELSE NoCall
    /\ msgs' = IF w = "ok"
               THEN msgs \cup {Msg("query", e, gwQueries[e] + 1, "none")}
               ELSE msgs
    /\ UNCHANGED <<pre, boot, gwState, gwCommit, gwPins, transmissions>>

GwQueryExhausted(e) ==
    /\ gwProc = "up"
    /\ gwCall = Call("reconcile", e)
    /\ GwAttempts(e) >= MaxAttempts
    /\ gwCall' = NoCall
    /\ UNCHANGED <<pre, boot, msgs, faults, gwState, gwCommit, gwQueries, gwProc,
                   gwPins, transmissions>>

(***************************************************************************)
(* _query, the signed answer to this very query.  not_dispatched conflicts *)
(* with a record that knows of an acceptance.                              *)
(***************************************************************************)
AcceptsAnswer(e, d) == d # "not_dispatched" \/ gwState[e] = "armed"

GwQueryOutcome(e, d, w) ==
    /\ gwProc = "up"
    /\ Querying(e)
    /\ Msg("answer", e, gwQueries[e], d) \in msgs
    /\ AcceptsAnswer(e, d)
    /\ w # "refused"   \* an unretainable answer fails the query: GwQueryFails
    /\ Store(e, d, gwCommit[e], w)
    /\ gwCall' = NoCall
    /\ UNCHANGED <<pre, boot, msgs, gwQueries, gwPins, transmissions>>

(***************************************************************************)
(* _query without a usable answer: the failure is retained (or not) and    *)
(* the record keeps its state.  A timeout of a query that the coordinator  *)
(* can answer costs a fault.                                               *)
(***************************************************************************)
GwQueryFails(e, answerable, w) ==
    /\ gwProc = "up"
    /\ Querying(e)
    /\ Spend((IF w = "ok" THEN 0 ELSE 1) + (IF answerable THEN 1 ELSE 0))
    /\ gwProc' = ProcAfter(w)
    /\ gwCall' = NoCall
    /\ UNCHANGED <<pre, boot, msgs, gwState, gwCommit, gwQueries, gwPins,
                   transmissions>>

-------------------------------------------------------------------------------
(***************************************************************************)
(* A crash costs a fault; stopping an idle gateway whose pins are stale,   *)
(* which can start no new effect, does not.                                *)
(***************************************************************************)
GwStop(pinsCurrent) ==
    /\ gwProc = "up"
    /\ Spend(IF pinsCurrent \/ gwCall # NoCall THEN 1 ELSE 0)
    /\ gwProc' = "down"
    /\ gwCall' = NoCall
    /\ UNCHANGED <<pre, boot, msgs, gwState, gwCommit, gwQueries, gwPins,
                   transmissions>>

(***************************************************************************)
(* Startup discovery pins the boot epochs the healthy services report.     *)
(***************************************************************************)
GwRestart(ot, plantEpoch) ==
    /\ gwProc = "down"
    /\ gwProc' = "up"
    /\ gwPins' = [ot |-> ot, plant |-> plantEpoch]
    /\ UNCHANGED <<pre, boot, msgs, faults, gwState, gwCommit, gwQueries, gwCall,
                   transmissions>>

===============================================================================
