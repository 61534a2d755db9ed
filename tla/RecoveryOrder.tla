----------------------------- MODULE RecoveryOrder -----------------------------
(***************************************************************************)
(* validate_coordination_recovery walks the applied links in sorted order; *)
(* CoordinationBase states the same verdict with sets.  This module        *)
(* holds the walk, and compares the two on every journal and plant state   *)
(* of a bounded space, whether or not coordination could reach it.         *)
(***************************************************************************)
EXTENDS CoordinationBase, SequencesExt

CONSTANT MaxVersion  \* bound: highest plant version in the enumerated inputs

VARIABLES
    st,          \* the coordination state of each record
    plantState   \* the state the plant's health reports

orderVars == <<pre, boot, msgs, faults, st, plantState>>

BoundedStates == [version : 0..MaxVersion, content : Commands \cup {Baseline}]

\* "armed" stands for every pending state and "rejected" for both terminal
\* states without an effect: the validator does not tell them apart.
OrderInit ==
    /\ boot = [e \in Effects |-> 0] /\ msgs = {} /\ faults = 0
    /\ pre \in [Effects -> BoundedStates]
    /\ st \in [Effects -> {"none", "armed", "applied", "rejected"}]
    /\ plantState \in BoundedStates

(***************************************************************************)
(* The walk of the code over applied_links, sorted by pre-state version    *)
(* (ties broken by effect id: any order).                                  *)
(***************************************************************************)
SortedByVersion(links) ==
    \A i, j \in DOMAIN links : i < j => pre[links[i]].version <= pre[links[j]].version

SortedLinks == CHOOSE links \in SetToSeqs(AppliedIn(st)) : SortedByVersion(links)

WalkMatches(links) ==
    \A i \in 1..Len(links) :
        IF i = 1 THEN pre[links[i]].version = 0
                 ELSE pre[links[i]] = Post(links[i - 1])

WalkedReason ==
    LET links == SortedLinks
        end == Post(Last(links))
        pending == PendingIn(st)
        e == CHOOSE p \in pending : TRUE
    IN  IF Cardinality(pending) > 1 THEN "multiple_pending_effects"
        ELSE IF ~WalkMatches(links) THEN "applied_chain_broken"
        ELSE IF pending # {}
        THEN IF pre[e] # (IF links = <<>> THEN [pre[e] EXCEPT !.version = 0] ELSE end)
             THEN "pending_chain_broken"
             ELSE PendingReason(e, plantState)
        ELSE IF links = <<>>
        THEN IF plantState.version # 0 THEN "baseline_state_not_zero"
                                       ELSE "aligned_empty_baseline"
        ELSE IF plantState.version < end.version THEN "plant_state_rollback"
        ELSE IF plantState.version > end.version THEN "plant_state_advanced"
        ELSE IF plantState.content # end.content THEN "plant_state_digest_mismatch"
        ELSE "aligned_applied_chain"

(***************************************************************************)
(* The set form the coordination model uses gives the verdict of the walk. *)
(***************************************************************************)
VerdictsAgree == RecoveryReason(st, plantState) = WalkedReason

(***************************************************************************)
(* Whenever the validator lets the coordinator serve, the journal accounts *)
(* for every version the plant has been through: one applied record each,  *)
(* and at most the pending effect on top.                                  *)
(***************************************************************************)
UsableMeansAccounted ==
    RecoveryUsable(st, plantState) =>
        plantState.version
            = Cardinality(AppliedIn(st))
              + Cardinality({e \in PendingIn(st) : plantState = Post(e)})

===============================================================================
