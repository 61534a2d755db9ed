--------------------------- MODULE CoordinationBase ---------------------------
(***************************************************************************)
(* What the three services of the M4i coordinated path share: the effects  *)
(* they coordinate, the state a plant can be in, the requests and signed   *)
(* responses between them, the ways a durable write can end, and the       *)
(* verdict on a journal that precedes every operation.                     *)
(*                                                                         *)
(* An effect is one agent action bound to one authorised pre-state, one    *)
(* expected post-state and one OT boot epoch (EffectIdentity).  Signatures *)
(* and digests are not modelled: a message names the effect it binds.      *)
(***************************************************************************)
EXTENDS Integers, FiniteSets

CONSTANTS
    Effects,      \* semantic effects the gateway may be asked to execute
    Commands,     \* physical commands
    CommandOf,    \* the command an effect authorises; two effects may share one
    Baseline,     \* the plant content before any command
    NoEffect,     \* "no effect here" (an empty marker, call or work item)
    MaxFaults,    \* bound: crashes, failed writes and timeouts in a behaviour
    MaxAttempts   \* MAX_ATTEMPTS_PER_EFFECT (128 in the code)

ASSUME EffectAssumption ==
    /\ NoEffect \notin Effects
    /\ Baseline \notin Commands
    /\ CommandOf \in [Effects -> Commands]

ASSUME BoundAssumption == MaxFaults \in Nat /\ MaxAttempts \in Nat

VARIABLES
    pre,      \* pre[e]: the plant state effect e is authorised against
    boot,     \* boot[e]: the OT boot epoch the permit of e is bound to
    msgs,     \* every request and response ever sent
    faults    \* faults spent so far

(***************************************************************************)
(* A physical state as the CAS sees it: state_version and state_digest,    *)
(* the digest abstracted to the command that produced the state.  Two      *)
(* effects with the same command and the same pre-state therefore have     *)
(* the same post-state, as they have in the code.                          *)
(***************************************************************************)
PlantStates == [version : Nat, content : Commands \cup {Baseline}]

Post(e) == [version |-> pre[e].version + 1, content |-> CommandOf[e]]

(***************************************************************************)
(* Messages.  `n` is the query nonce or the plant boot epoch of a call,    *)
(* `d` the disposition of a response.  The set only grows: a message may   *)
(* be delayed past the caller's timeout, delivered twice or never read.    *)
(***************************************************************************)
Dispositions == {"not_dispatched", "unknown", "applied", "rejected"}

Msg(t, e, n, d) == [type |-> t, effect |-> e, n |-> n, d |-> d]

MessageTypes == {"prepare", "receipt", "commit", "outcome", "query", "answer",
                 "apply", "reply"}

Messages == [type : MessageTypes, effect : Effects, n : Nat,
             d : Dispositions \cup {"none"}]

(***************************************************************************)
(* A durable write of a journal or checkpoint.  "refused": rejected before *)
(* the file is touched (capacity, validation), the process goes on.        *)
(* "lost" / "kept": an OSError before / after os.replace.  The store is    *)
(* then unusable and refuses every call until the process is restarted,    *)
(* which reads back the old / the new file: the process counts as down.    *)
(***************************************************************************)
Writes == {"ok", "refused", "lost", "kept"}

Written(w) == w \in {"ok", "kept"}

ProcAfter(w) == IF w \in {"ok", "refused"} THEN "up" ELSE "down"

Spend(n) == faults + n <= MaxFaults /\ faults' = faults + n

SpendWrite(w) == Spend(IF w = "ok" THEN 0 ELSE 1)

Processes == {"up", "down"}

BaseTypeOK ==
    /\ pre \in [Effects -> PlantStates]
    /\ boot \in [Effects -> Nat]
    /\ msgs \subseteq Messages
    /\ faults \in 0..MaxFaults

BaseInit ==
    /\ pre = [e \in Effects |-> [version |-> 0, content |-> Baseline]]
    /\ boot = [e \in Effects |-> 0]
    /\ msgs = {}
    /\ faults = 0

-------------------------------------------------------------------------------
(***************************************************************************)
(* validate_coordination_recovery: the comparison of the OT journal with   *)
(* the plant's durable state that precedes every coordinated operation.    *)
(* Signature and schema checks of retained evidence always pass here: the  *)
(* model's journal holds only what the actions wrote.                      *)
(***************************************************************************)
PendingStates == {"armed", "accepted", "unknown"}

TerminalStates == {"not_dispatched", "applied", "rejected"}

PendingIn(st) == {e \in Effects : st[e] \in PendingStates}

AppliedIn(st) == {e \in Effects : st[e] = "applied"}

(***************************************************************************)
(* The applied links, sorted by pre-state version, start at version 0 and  *)
(* each one starts where the previous one ended.  (The first link's        *)
(* pre-state digest is not compared with anything, as in the code.)        *)
(***************************************************************************)
\* Faulty variant: two links may start at the same version.
ChainWithForks(links) ==
    \A e \in links : \/ pre[e].version = 0
                    \/ \E f \in links : Post(f) = pre[e]

ChainMatches(links) ==
    /\ \A e, f \in links : pre[e].version = pre[f].version => e = f
    /\ \A e \in links : \/ pre[e].version = 0
                        \/ \E f \in links : Post(f) = pre[e]

(***************************************************************************)
(* The end of a matching chain, as a set of at most one link.              *)
(***************************************************************************)
LatestOf(links) ==
    {e \in links : \A f \in links : pre[f].version <= pre[e].version}

\* Faulty variant: the pending effect may follow any link.
PendingAfterAnyLink(e, links) ==
    IF links = {} THEN pre[e].version = 0 ELSE \E f \in links : Post(f) = pre[e]

PendingChainMatches(e, links) ==
    IF links = {} THEN pre[e].version = 0
                  ELSE \E f \in LatestOf(links) : Post(f) = pre[e]

(***************************************************************************)
(* The reason a journal with states st is given for a plant state.         *)
(***************************************************************************)
PendingReason(e, plantState) ==
    IF plantState = pre[e] THEN "pending_effect_at_pre_state"
    ELSE IF plantState = Post(e) THEN "pending_effect_at_post_state"
    ELSE IF plantState.version < pre[e].version THEN "plant_state_rollback"
    ELSE IF plantState.version > Post(e).version THEN "plant_state_advanced"
    ELSE "pending_plant_state_mismatch"

SettledReason(links, plantState) ==
    IF links = {}
    THEN IF plantState.version = 0 THEN "aligned_empty_baseline"
                                   ELSE "baseline_state_not_zero"
    ELSE LET latest == CHOOSE e \in LatestOf(links) : TRUE
         IN  IF plantState.version < Post(latest).version THEN "plant_state_rollback"
             ELSE IF plantState.version > Post(latest).version THEN "plant_state_advanced"
             ELSE IF plantState # Post(latest) THEN "plant_state_digest_mismatch"
             ELSE "aligned_applied_chain"

RecoveryReason(st, plantState) ==
    LET pending == PendingIn(st)
        links == AppliedIn(st)
    IN  IF \E e, f \in pending : e # f THEN "multiple_pending_effects"
        ELSE IF ~ChainMatches(links) THEN "applied_chain_broken"
        ELSE IF \E e \in pending : ~PendingChainMatches(e, links) THEN "pending_chain_broken"
        ELSE IF pending # {} THEN PendingReason(CHOOSE e \in pending : TRUE, plantState)
        ELSE SettledReason(links, plantState)

UnavailableReasons ==
    {"multiple_pending_effects", "applied_chain_broken", "pending_chain_broken"}

InconsistentReasons ==
    {"plant_state_rollback", "plant_state_advanced", "pending_plant_state_mismatch",
     "baseline_state_not_zero", "plant_state_digest_mismatch"}

AlignedReasons == {"aligned_empty_baseline", "aligned_applied_chain"}

RecoveryUsable(st, plantState) ==
    RecoveryReason(st, plantState) \notin UnavailableReasons \cup InconsistentReasons

===============================================================================
