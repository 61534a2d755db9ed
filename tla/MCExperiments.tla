---- MODULE MCExperiments ----
(***************************************************************************)
(* The closed-loop capability runtime, the live campaigns, the independent *)
(* evaluator and the evidence packages.  A behaviour is about one of the   *)
(* four while the others have not begun.                                   *)
(***************************************************************************)
EXTENDS ClosedLoop, LiveCampaign, IndependentEvaluator, EvidencePackage

\* Two campaigns with projects of their own and one name for the evidence: two
\* about effect coordination, or one about mutual TLS and one about workload identity.
CONSTANTS c1, c2

MCPairings ==
    {[c \in {c1, c2} |-> "m4i"]} \cup {[c \in {c1, c2} |-> IF c = d THEN "spire" ELSE "m4g"] : d \in {c1, c2}}
Symmetry == Permutations({c1, c2})

\* Everything some campaign is about, or nothing.
MCDefects == Excluded("m4i") \cup Excluded("m4g") \cup Excluded("spire") \cup {"none"}

\* A ring of three lines with a spur, the registered resource being on the ring.
MCEnds == ("ring1" :> <<1, 2>> @@ "ring2" :> <<3, 2>> @@ "ring3" :> <<1, 3>> @@ "spur" :> <<4, 3>>)
MCLoadBus == ("hospital" :> 4 @@ "homes" :> 2)

VARIABLE about

\* One initial state of each part while a behaviour is about another.
ExperimentsInit ==
    /\ about \in {"loop", "campaigns", "evaluator", "packages"}
    /\ Init /\ (about # "loop" => postSource = "plant")
    /\ CampaignInit
    /\ about # "campaigns" => defect = "none" /\ \A c \in Campaigns : kind[c] = "m4i"
    /\ PackageInit /\ (about # "packages" => shortcoming = "none")
    /\ \/ about = "evaluator" /\ EvaluatorInit
       \/ /\ about # "evaluator" /\ evaluator = Launched
          /\ fixture = [sound |-> TRUE, closed |-> Branches, sources |-> {1},
                        loads |-> DOMAIN LoadBus]
          /\ question = Faithful(fixture, 0)

ExperimentsNext ==
    \/ about = "loop" /\ Next /\ UNCHANGED <<campaignVars, evaluatorVars, packageVars, about>>
    \/ about = "campaigns" /\ CampaignNext /\ UNCHANGED <<vars, evaluatorVars, packageVars, about>>
    \/ about = "evaluator" /\ EvaluatorNext /\ UNCHANGED <<vars, campaignVars, packageVars, about>>
    \/ about = "packages" /\ PackageNext /\ UNCHANGED <<vars, campaignVars, evaluatorVars, about>>

ExperimentsSpec ==
    ExperimentsInit /\ [][ExperimentsNext]_<<vars, campaignVars, evaluatorVars, packageVars, about>>

\* The behaviours that are about the campaigns.
CampaignsOnly ==
    /\ ExperimentsInit /\ about = "campaigns"
    /\ [][ExperimentsNext]_<<vars, campaignVars, evaluatorVars, packageVars, about>>
====
