----------------------------- MODULE EffectOutcome -----------------------------
(***************************************************************************)
(* What durable effect coordination promises the agent, with no journals,  *)
(* messages or failures.  One effect is open at a time.  While it is open  *)
(* the plant may take it, once, which advances the plant by one version;   *)
(* or it is refused for good.  The claim the gateway closes it with is     *)
(* true of what happened, and what happened never changes afterwards.      *)
(***************************************************************************)
EXTENDS Integers

CONSTANT Effects

VARIABLES
    claim,   \* what the gateway says: "none", "open" or how it was closed
    fate,    \* what happened: "undecided", "taken" or "void" (never will be)
    version  \* the plant's state version

vars == <<claim, fate, version>>

Init ==
    /\ claim = [e \in Effects |-> "none"]
    /\ fate = [e \in Effects |-> "undecided"]
    /\ version = 0

Begin(e) ==
    /\ \A f \in Effects : claim[f] # "open"
    /\ claim[e] = "none"
    /\ claim' = [claim EXCEPT ![e] = "open"]
    /\ UNCHANGED <<fate, version>>

Take(e) ==
    /\ claim[e] = "open"
    /\ fate[e] = "undecided"
    /\ fate' = [fate EXCEPT ![e] = "taken"]
    /\ version' = version + 1
    /\ UNCHANGED claim

Refuse(e) ==
    /\ claim[e] = "open"
    /\ fate[e] = "undecided"
    /\ fate' = [fate EXCEPT ![e] = "void"]
    /\ UNCHANGED <<claim, version>>

\* The gateway closes an effect that was taken, or that was refused.
Close(e) ==
    /\ claim[e] = "open"
    /\ \/ fate[e] = "taken" /\ claim' = [claim EXCEPT ![e] = "applied"]
       \/ /\ fate[e] = "void"
          /\ \E c \in {"rejected", "not_dispatched"} : claim' = [claim EXCEPT ![e] = c]
    /\ UNCHANGED <<fate, version>>

\* The gateway gives up on an effect that it never committed: closed and void.
Abandon(e) ==
    /\ claim[e] = "open"
    /\ fate[e] \in {"undecided", "void"}
    /\ claim' = [claim EXCEPT ![e] = "not_dispatched"]
    /\ fate' = [fate EXCEPT ![e] = "void"]
    /\ UNCHANGED version

Next == \E e \in Effects :
    Begin(e) \/ Take(e) \/ Refuse(e) \/ Close(e) \/ Abandon(e)

Spec == Init /\ [][Next]_vars

===============================================================================
