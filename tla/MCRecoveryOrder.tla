---------------------------- MODULE MCRecoveryOrder ----------------------------
(***************************************************************************)
(* What the retained records say and what it is worth: the verdicts on     *)
(* every bounded journal and plant state, three records over two commands; *)
(* the exchange that fills a journal, with a coordinator credential that   *)
(* expires during the behaviour and one that does not; and the anchor kept *)
(* outside the rollback domain.  A behaviour is about one of the three;    *)
(* the variables of the others stand still.                                *)
(***************************************************************************)
EXTENDS RecoveryOrder, TimedExchange, CoordinationAnchor

CONSTANTS e1, e2, e3, open, close, g, o1, o2

TwoCommands == [e \in Effects |-> IF e = e3 THEN close ELSE open]

ShortAndLong == [c \in {g, o1, o2} |-> IF c = o1 THEN 2 ELSE 9]

\* The sites of the anchor are interchangeable, and nothing else names one.
SiteSymmetry == Permutations(Sites)

VARIABLE about

EmptyBaseline ==
    /\ boot = [e \in Effects |-> 0] /\ msgs = {} /\ faults = 0
    /\ pre = [e \in Effects |-> [version |-> 0, content |-> Baseline]]
    /\ st = [e \in Effects |-> "none"]
    /\ plantState = [version |-> 0, content |-> Baseline]

Init ==
    /\ about \in {"verdicts", "exchange", "anchor"}
    /\ IF about = "verdicts" THEN OrderInit ELSE EmptyBaseline
    /\ ExchangeInit /\ AnchorInit

Next ==
    \/ about = "exchange" /\ ExchangeNext /\ UNCHANGED <<about, orderVars, anchorVars>>
    \/ about = "anchor" /\ AnchorNext /\ UNCHANGED <<about, orderVars, exchangeVars>>

Spec == Init /\ [][Next]_<<about, orderVars, exchangeVars, anchorVars>>
===============================================================================
