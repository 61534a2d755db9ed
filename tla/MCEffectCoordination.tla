------------------------- MODULE MCEffectCoordination -------------------------
(* Small instances of EffectCoordination. *)
EXTENDS EffectCoordination, TLC

CONSTANTS e1, e2, cmd

\* Both effects ask for the same command: their post-states coincide.
SameCommand == [e \in Effects |-> cmd]

Symmetry == Permutations(Effects)
===============================================================================
