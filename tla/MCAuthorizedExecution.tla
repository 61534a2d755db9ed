------------------------ MODULE MCAuthorizedExecution ------------------------
(***************************************************************************)
(* The authorization gateway with its plant, and the durable state files.  *)
(* A behaviour is about one of the two while the other has not begun.      *)
(*                                                                         *)
(* A root grant, a leaf within it, and a leaf that names a resource its    *)
(* parent does not have.  The first request and the approved third one are *)
(* each safe but not together; the second needs an approval and the third  *)
(* is its approved resubmission under the same nonce; the last uses the    *)
(* wide leaf.                                                              *)
(***************************************************************************)
EXTENDS AuthorizedExecution, DurableState

CONSTANTS h1, h2, r1, r2

MCGrants ==
  LET grant(issuer, subject, resources, operations, until, risk, depth, parent) ==
        [issuer |-> issuer, subject |-> subject, mission |-> "containment",
         resources |-> resources, operations |-> operations, notBefore |-> 0,
         expiresAt |-> until, risk |-> risk, depth |-> depth, parent |-> parent,
         sound |-> TRUE]
  IN  [root |-> grant("pi", "supervisor", {"feeder-1", "feeder-2"},
                      {"isolate_asset", "restore_asset", "shed_load"}, 4, 9, 2, NoGrant),
       leaf |-> grant("supervisor", "agent", {"feeder-1"},
                      {"isolate_asset", "shed_load"}, 4, 8, 1, "root"),
       wide |-> grant("supervisor", "agent", {"feeder-1", "feeder-3"},
                      {"isolate_asset"}, 4, 8, 1, "root")]

Req(nonce, resource, operation, amount, risk, approved, chain) ==
  [nonce |-> nonce, actor |-> "agent", mission |-> "containment",
   resource |-> resource, operation |-> operation, amount |-> amount,
   rise |-> 0, risk |-> risk, confident |-> TRUE, approved |-> approved, chain |-> chain]

MCRequests ==
  {Req("n1", "feeder-1", "isolate_asset", 2, 3, FALSE, <<"root", "leaf">>),
   Req("n2", "feeder-1", "shed_load", 1, 7, FALSE, <<"root", "leaf">>),
   Req("n2", "feeder-1", "shed_load", 1, 7, TRUE, <<"root", "leaf">>),
   Req("n1", "feeder-3", "isolate_asset", 1, 3, FALSE, <<"root", "wide">>)}

HandlerSymmetry == Permutations(Handlers)

MCActorIds == {"agent"}

MCNominal == [version |-> 1, load |-> 10, volt |-> 10, peak |-> 10, isolated |-> {}]

VARIABLE about

\* One initial configuration of the gateway while a behaviour is about the files.
ServicesInit ==
    /\ about \in {"authorization", "stores"}
    /\ Init /\ (about = "stores" => config = CHOOSE c \in Configs : TRUE)
    /\ DurableInit

ServicesNext ==
    \/ about = "authorization" /\ Next /\ UNCHANGED <<durableVars, about>>
    \/ about = "stores" /\ DurableNext /\ UNCHANGED <<vars, about>>

ServicesSpec == ServicesInit /\ [][ServicesNext]_<<vars, durableVars, about>>
===============================================================================
