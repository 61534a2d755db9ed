---------------------------- MODULE MCTrustSequence ----------------------------
(* Small instances of TrustSequence. *)
EXTENDS TrustSequence, TLC

CONSTANTS p1, c1, c2, t1, t2, t3, v1, v2

FirstCredential == [p \in Peers |-> c1]

\* Two threads of one verifier and one of another.
VerifierOfThread == [t \in Threads |-> IF t = t3 THEN v2 ELSE v1]

Symmetry == Permutations({t1, t2})
================================================================================
