--------------------------- MODULE MCDispatchReplay ----------------------------
(***************************************************************************)
(* The uncoordinated path: the two replay ledgers of the OT adapter under  *)
(* concurrent handlers and processes, and the loop of services around it.  *)
(* A behaviour is about one of the two while the other has not begun.      *)
(***************************************************************************)
EXTENDS DispatchReplay, SegmentedLoop

CONSTANTS p1, p2, p3, m1, m2, m3, m4, e1, e2, e3, e4, n1, n2, n3, t1, t2, t3, t4, i1, i2,
          q1, q2, q3

\* Two permits for one command, which share one identifier, and one apart.
PermitMarks == p1 :> {m1, m2} @@ p2 :> {m2, m3} @@ p3 :> {m4}

\* The first permit travels in two envelopes, one of which reuses the nonce of
\* the envelope of the second.
EnvelopeNonce == e1 :> n1 @@ e2 :> n2 @@ e3 :> n2 @@ e4 :> n3
EnvelopePermit == e1 :> p1 @@ e2 :> p1 @@ e3 :> p2 @@ e4 :> p3

\* Three handlers of one process and one of another.
HandlerInstance == t1 :> i1 @@ t2 :> i1 @@ t3 :> i1 @@ t4 :> i2

Symmetry == Permutations({q1, q2})

PathInit == Init /\ LoopInit

PathNext ==
    \/ LoopInit /\ Next /\ UNCHANGED loopVars
    \/ Init /\ LoopNext /\ UNCHANGED vars

PathSpec == PathInit /\ [][PathNext]_<<vars, loopVars>>
================================================================================
