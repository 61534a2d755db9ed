---------------------------- MODULE MCDegradedGate ----------------------------
(***************************************************************************)
(* Degraded operation: its gate and the publisher that feeds it, and the   *)
(* provisioning of the packages both are given.  A behaviour is about one  *)
(* of the two while the other has not begun.                               *)
(*                                                                         *)
(* For the gate, two leases for the loss of the management role, the older *)
(* one still inside its window when the newer one is used.  Three budgets: *)
(* crashes and health checks around the publisher, leases and reversals    *)
(* around the gate, and two requests that overtake each other.             *)
(***************************************************************************)
EXTENDS DegradedGate, ProvisionedPackages

\* The provisioning commands do not read the deployment contracts.
MCFlaws == [c \in Commits |-> {}]

ManagementLease(n) ==
  [id |-> n, sequence |-> n, roles |-> {"management"}, behavior |-> "mission_preserving",
   scope |-> {"inScope"}, from |-> 0, until |-> MaxTime]

MCLeases == {ManagementLease(1), ManagementLease(2)}
MCConditions == {[roles |-> {}, unresolved |-> FALSE],
                 [roles |-> {"management"}, unresolved |-> FALSE]}

Budget(f, c, s, p, i, r, e) ==
  [faults |-> f, checks |-> c, statuses |-> s, publications |-> p, installs |-> i, reversals |-> r,
   parallel |-> e]

MCBudgets == {Budget(2, 1, 1, 3, 0, 0, 1), Budget(0, 0, 1, 3, 2, 2, 1), Budget(0, 0, 2, 2, 0, 1, 2)}
Symmetry == Permutations(Requests) \cup Permutations(Commits)

\* What a behaviour is about, and the one initial state of the other part.
VARIABLE about

OperationInit ==
    /\ Init /\ PackagesInit
    /\ \/ about = "gate" /\ published = 0 /\ tool = "artifacts"
       \/ /\ about = "packages" /\ mode = "published"
          /\ installed = ManagementLease(1) /\ left = Budget(0, 0, 2, 2, 0, 1, 2)

OperationNext ==
    \/ about = "gate" /\ Next /\ UNCHANGED <<packageVars, about>>
    \/ about = "packages" /\ PackagesNext /\ UNCHANGED <<vars, about>>

OperationSpec == OperationInit /\ [][OperationNext]_<<vars, packageVars, about>>
=============================================================================
