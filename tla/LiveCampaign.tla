---- MODULE LiveCampaign ----
(***************************************************************************)
(* The live campaigns that retain evidence about a commit: "m4i" for       *)
(* effect coordination (scripts/run_m4i_experiment.py), "m4g" for workload *)
(* identity (scripts/run_m4g_experiment.py) and "spire" for mutual TLS     *)
(* (scripts/run_m4g_spire_mtls_experiment.py).  A campaign brings          *)
(* up one Compose project, provokes faults in it, removes it again, and    *)
(* writes evidence only when all its gates hold.  The commit under test    *)
(* may have a defect, any Docker command may fail, and the process may be  *)
(* killed.  Campaigns have projects of their own; they share the           *)
(* gateway's port and the name of the evidence file.                       *)
(***************************************************************************)
EXTENDS Naturals, FiniteSets

CONSTANTS
    Campaigns,   \* invocations of run_experiment
    Pairings,    \* what each of them may be about, in functions from Campaigns
    Defects,     \* what may be wrong with the commit, "none" included
    MaxFaults,   \* bound on commands that fail and processes that are killed
    Nobody       \* no campaign

ASSUME CampaignAssumption ==
    /\ Pairings \subseteq [Campaigns -> {"m4i", "m4g", "spire"}]
    /\ Nobody \notin Campaigns /\ MaxFaults \in Nat /\ "none" \in Defects

Services == {"gateway", "ot", "plant"}
Verifiers == {"agent", "gateway", "ot"}
Actions == {"nominal", "lost", "fresh"}

VARIABLES
    kind,       \* what each campaign is about
    defect,     \* what is wrong with the commit under test
    checkout,   \* the working tree: "clean", or "edited" and not as HEAD has it
    site,       \* per campaign: what Docker and the host hold for it
    run,        \* per campaign: the process and what it has observed
    output,     \* whose evidence is retained, or Nobody
    reported,   \* campaigns that returned their evidence as retained
    faults      \* commands failed and processes killed so far

campaignVars == <<kind, defect, checkout, site, run, output, reported, faults>>

----
(* The deployed project: the two journals, the plant's state version, the   *)
(* private files, the trust bundle and each verifier's floor.               *)

Missing == 0      \* no trust bundle file
Unparsed == 9     \* a file that is no bundle; otherwise its sequence, 1 or 2
Unheard == [state |-> "none", prepare |-> 0, commit |-> 0, query |-> 0]
Settled == [state |-> "applied", prepare |-> 1, commit |-> 1, query |-> 0]

FreshProject ==
    [gateway |-> [a \in Actions |-> Unheard], ot |-> [a \in Actions |-> Unheard], plant |-> 0,
     file |-> [x \in Services |-> "intact"], up |-> {}, born |-> [x \in Services |-> 0],
     mode |-> "off", bundle |-> 1, floor |-> [v \in Verifiers |-> 0], leaf |-> "first", revoked |-> {}, spent |-> {},
     svid |-> 1, registered |-> TRUE]

\* keys is the private directory of the running process, stray that of one that
\* was killed; image is what the running process had its images built from.
NoSite == [made |-> FALSE, relay |-> FALSE, keys |-> FALSE, stray |-> FALSE, image |-> "none",
           sys |-> FreshProject]

\* restored is history: the tree was edited and put back while the process ran.
Started == [pc |-> "idle", relaying |-> FALSE, saw |-> <<>>, masked |-> {}, left |-> {}, restored |-> FALSE]

CampaignInit ==
    /\ kind \in Pairings /\ defect \in Defects /\ checkout = "clean"
    /\ site = [p \in Campaigns |-> NoSite] /\ run = [p \in Campaigns |-> Started]
    /\ output = Nobody /\ reported = {} /\ faults = 0

Sys(p) == site[p].sys
At(p, k, pc) == kind[p] = k /\ run[p].pc = pc
Records(journal) == Cardinality({a \in Actions : journal[a].state # "none"})
AppliedIn(journal) == Cardinality({a \in Actions : journal[a].state = "applied"})

\* A verifier takes the bundle it finds, unless its floor is higher.
TrustHolds(s, v) ==
    \/ /\ s.bundle \in {1, 2}
       /\ s.bundle >= s.floor[v] \/ defect = (IF v = "agent" THEN "agent_ignores_floor" ELSE "floor_ignored")
    \/ s.bundle = Unparsed /\ defect = "opens_corrupt_bundle"
    \/ s.bundle = Missing /\ defect = "opens_without_bundle"

OpensCorrupt == [gateway |-> "opens_corrupt_gateway", ot |-> "opens_corrupt_ot", plant |-> "opens_corrupt_plant"]

\* _await_service_ready and _await_gateway: a service that runs answers
\* "ready" when it can use what it retains; the OT adapter also compares the
\* plant's version with the effects it has applied.
Ready(s, x) ==
    /\ x \in s.up
    /\ s.file[x] = "intact" \/ defect = OpensCorrupt[x]
    /\ x = "ot" /\ s.mode = "required" => s.plant = AppliedIn(s.ot) \/ s.file["ot"] = "corrupt"
    /\ x \in Verifiers => TrustHolds(s, x)

\* docker compose up --force-recreate: new containers over the same volumes;
\* a faulty plant forgets its state, a faulty gateway its journal.
Recreate(s, xs) ==
    [s EXCEPT !.up = @ \cup xs, !.born = [x \in Services |-> IF x \in xs THEN @[x] + 1 ELSE @[x]],
              !.plant = IF "plant" \in xs /\ defect = "plant_resets" THEN 0 ELSE @,
              !.gateway = IF "gateway" \in xs /\ defect = "gateway_forgets" THEN FreshProject.gateway ELSE @]

Stop(s, xs) == [s EXCEPT !.up = @ \ xs]

----
(* How a campaign moves on. *)

\* What has been observed, with what was seen just now.
Noting(seen, saw) ==
    [f \in DOMAIN seen \cup DOMAIN saw |-> IF f \in DOMAIN seen THEN seen[f] ELSE saw[f]]

\* Every step that does not fail moves to `next`, leaving s and one observation.
Proceed(p, next, s, seen) ==
    /\ site' = [site EXCEPT ![p].sys = s]
    /\ run' = [run EXCEPT ![p].pc = next, ![p].saw = Noting(seen, @)]
    /\ UNCHANGED <<kind, defect, checkout, output, reported, faults>>

\* ExperimentError: control passes to the `finally` of _campaign.
Raise(p, s) ==
    /\ site' = [site EXCEPT ![p].sys = s]
    /\ run' = [run EXCEPT ![p].pc = "cleanup", ![p].saw = <<>>]
    /\ UNCHANGED <<kind, defect, checkout, output, reported, faults>>

----
(* What both campaigns begin with. *)

\* run_experiment: nothing retained under the name yet, and a clean checkout.
BeginCampaign(p) ==
    /\ run[p].pc = "idle"
    /\ run' = [run EXCEPT ![p].pc = IF output = Nobody /\ checkout = "clean" THEN "absent" ELSE "failed"]
    /\ UNCHANGED <<kind, defect, checkout, site, output, reported, faults>>

\* _assert_project_absent: what a killed campaign left is never cleaned up by
\* another one.
ProjectAbsent(p) == ~site[p].made /\ ~site[p].relay

\* _campaign up to its `try`: checks, then the private key directory.
Claim(p) ==
    /\ run[p].pc = "absent"
    /\ IF ProjectAbsent(p) /\ checkout = "clean"
       THEN /\ run' = [run EXCEPT ![p].pc = "bind"]
            /\ site' = [site EXCEPT ![p].keys = TRUE,
                                     ![p].sys = [FreshProject EXCEPT !.mode = IF kind[p] = "m4i" THEN "required" ELSE "off"]]
       ELSE run' = [run EXCEPT ![p].pc = "failed"] /\ UNCHANGED site
    /\ UNCHANGED <<kind, defect, checkout, output, reported, faults>>

\* _configuration_binding of M4i: three state paths, three volumes, required
\* coordination mode, services gated on the initializer.
ConfigurationBound == defect # "shared_volume"

\* _trust_sequence_compose_bound of M4g: a floor volume per verifier, none for
\* the administrator.
TrustSequenceBound == defect # "shared_floor"

\* _workload_trust_sequence_binding: the SPIRE campaign's own look at the volumes.
VolumesBound == defect # "shared_floor"

\* _configuration_binding of the SPIRE campaign: clients and servers require
\* mutual TLS, five workloads with users of their own.
MtlsBound == defect # "plaintext_link"

\* The private keys, the resolved Compose configuration, and what it must say:
\* M4i stops at once, the others keep the verdict for their gates.
BindCoordination(p) ==
    /\ At(p, "m4i", "bind")
    /\ IF ConfigurationBound THEN Proceed(p, "build", Sys(p), <<>>) ELSE Raise(p, Sys(p))

BindIdentity(p) ==
    /\ At(p, "m4g", "bind")
    /\ Proceed(p, "build", Sys(p), [bound |-> TrustSequenceBound])

BindMtls(p) ==
    /\ At(p, "spire", "bind")
    /\ Proceed(p, "build", Sys(p), [bound |-> VolumesBound /\ MtlsBound])

\* docker compose build, and _image_provenance: the label is the commit,
\* whatever the working tree holds by now.
Build(p) ==
    /\ run[p].pc = "build"
    /\ site' = [site EXCEPT ![p].image = checkout]
    /\ run' = [run EXCEPT ![p].pc = "up"]
    /\ UNCHANGED <<kind, defect, checkout, output, reported, faults>>

\* The gateway publishes one fixed port of the host.
PortFree(p) == \A q \in Campaigns \ {p} : ~("gateway" \in Sys(q).up)

FirstStep == [m4i |-> "nominal", m4g |-> "probe", spire |-> "identities"]

\* docker compose up of the operational services, then _await_gateway,
\* _health_snapshot, the initializers' logs and the first snapshots.
Up(p) ==
    /\ run[p].pc = "up"
    /\ LET s == Recreate(Sys(p), IF PortFree(p) THEN Services ELSE Services \ {"gateway"})
           seen == [health |-> [required |-> defect # "not_required", aligned |-> Records(s.ot) = 0 /\ s.plant = 0],
                    private |-> defect # "readable_state",
                    before |-> s.born]
       IN /\ site' = [site EXCEPT ![p].sys = s, ![p].made = TRUE]
          /\ run' = IF Ready(s, "gateway")
                    THEN [run EXCEPT ![p].pc = FirstStep[kind[p]], ![p].saw = Noting(seen, @)]
                    ELSE [run EXCEPT ![p].pc = "cleanup", ![p].saw = <<>>]
    /\ UNCHANGED <<kind, defect, checkout, output, reported, faults>>

----
(* M4i: effect coordination. *)

\* A submitted action that reaches the OT adapter and whose answer comes back.
Applied(s, a) == [s EXCEPT !.gateway[a] = Settled, !.ot[a] = Settled, !.plant = @ + 1]

\* _run_nominal_action, then the two journals' records of it.
Nominal(p) ==
    /\ At(p, "m4i", "nominal")
    /\ LET s == Applied(Sys(p), "nominal")
       IN Proceed(p, "start_relay", s, [nominal |-> [gateway |-> s.gateway["nominal"], ot |-> s.ot["nominal"]]])

\* _start_relay: the gateway is recreated with its route through the relay.
StartRelay(p) ==
    /\ At(p, "m4i", "start_relay")
    /\ LET s == Recreate(Sys(p), {"gateway"})
       IN /\ site' = [site EXCEPT ![p].sys = s, ![p].relay = TRUE]
          /\ run' = [run EXCEPT ![p].pc = "lose", ![p].relaying = TRUE]
    /\ UNCHANGED <<kind, defect, checkout, output, reported, faults>>

\* The relay's prepare: one, of the armed action, before any commit.
RelayTakesPrepare(relay, a) == relay.prepare = 0 /\ relay.commit = 0 /\ a = "lost"

\* The relay's commit: one, of the armed and prepared action; its answer is
\* read, recorded as discarded, and the connection closed.
RelayTakesCommit(relay, a) == relay.prepare = 1 /\ relay.commit = 0 /\ a = "lost"

\* What the relay has counted after the gateway sent `commits` commits of the
\* armed action: a commit it does not take is a violation.
Relayed(commits) ==
    LET armed == [prepare |-> 0, commit |-> 0, violations |-> 0]
        prepared == IF RelayTakesPrepare(armed, "lost") THEN [armed EXCEPT !.prepare = 1] ELSE armed
        once == IF RelayTakesCommit(prepared, "lost") THEN [prepared EXCEPT !.commit = 1] ELSE prepared
    IN IF commits > 1 /\ ~RelayTakesCommit(once, "lost") THEN [once EXCEPT !.violations = 1] ELSE once

\* The commit is applied and its answer lost: the gateway keeps the effect
\* armed with an unknown outcome, unless it assumes the best.
LoseResponse(p) ==
    /\ At(p, "m4i", "lose")
    /\ LET guess == defect = "assumes_applied"
           entry == [Settled EXCEPT !.state = IF guess THEN "applied" ELSE "dispatch_armed"]
           s == [Applied(Sys(p), "lost") EXCEPT !.gateway["lost"] = entry]
       IN Proceed(p, "fresh", s,
              [lost |-> [status |-> IF guess THEN "completed" ELSE "unknown_effect",
                         gateway |-> entry, ot |-> s.ot["lost"],
                         relay |-> Relayed(IF defect = "resends" THEN 2 ELSE 1)]])

\* A fresh action while the first is unresolved: refused with 409 and left out
\* of both journals; a gateway that sends it meets the relay.
Fresh(p) ==
    /\ At(p, "m4i", "fresh")
    /\ LET s == IF defect = "admits_second"
                THEN [Sys(p) EXCEPT !.gateway["fresh"] = [Unheard EXCEPT !.state = "prepare_armed", !.prepare = 1]]
                ELSE Sys(p)
       IN Proceed(p, "stop_relay", s,
              [fresh |-> [refused |-> Sys(p).gateway["lost"].state = "dispatch_armed" /\ defect # "admits_second",
                          before |-> Records(Sys(p).gateway), after |-> Records(s.gateway)]])

\* _stop_relay: the relay goes first, and the gateway is back on its own route
\* before anything is reconciled.
StopRelay(p) ==
    /\ At(p, "m4i", "stop_relay")
    /\ LET s == Recreate(Sys(p), {"gateway"})
       IN /\ site' = [site EXCEPT ![p].sys = s, ![p].relay = FALSE]
          /\ run' = [run EXCEPT ![p].pc = "reconcile", ![p].relaying = FALSE]
    /\ UNCHANGED <<kind, defect, checkout, output, reported, faults>>

\* One signed query of the agent settles the effect in both journals.
Reconcile(p) ==
    /\ At(p, "m4i", "reconcile")
    /\ LET entry == [Settled EXCEPT !.query = 1, !.commit = IF defect = "commits_again" THEN 2 ELSE 1]
           s == [Sys(p) EXCEPT !.gateway["lost"] = entry, !.ot["lost"] = entry]
       IN IF Sys(p).gateway["lost"].state = "none" THEN Raise(p, Sys(p))   \* no record of the action
          ELSE Proceed(p, "restart", s, [resolved |-> [gateway |-> entry, ot |-> entry]])

\* _restart_gateway_and_ot: the OT adapter first, then the gateway, each
\* awaited; both terminal outcomes are read again.
RestartBoth(p) ==
    /\ At(p, "m4i", "restart")
    /\ LET s == Recreate(Recreate(Stop(Sys(p), {"gateway", "ot"}), {"ot"}), {"gateway"})
       IN IF Ready(s, "ot") /\ Ready(s, "gateway") /\ s.gateway["lost"].state = "applied"
          THEN Proceed(p, "plant", s,
                   [restarted |-> [renewed |-> \A x \in {"gateway", "ot"} : s.born[x] # Sys(p).born[x],
                                   gateway |-> s.gateway["lost"], ot |-> s.ot["lost"],
                                   records |-> Records(s.ot), applied |-> AppliedIn(s.ot)]])
          ELSE Raise(p, s)

\* _restart_plant_stack: every service stopped, the plant first to come back.
RestartPlant(p) ==
    /\ At(p, "m4i", "plant")
    /\ LET s == Recreate(Stop(Sys(p), Services), Services)
       IN IF \A x \in Services : Ready(s, x)
          THEN Proceed(p, "corrupt_gateway", s,
                   [plant |-> [renewed |-> s.born["plant"] # Sys(p).born["plant"],
                               before |-> Sys(p).plant, after |-> s.plant]])
          ELSE Raise(p, s)

NextCase == [gateway |-> "corrupt_ot", ot |-> "corrupt_plant", plant |-> "checkout"]
Behind == [gateway |-> {}, ot |-> {"gateway"}, plant |-> {"gateway", "ot"}]   \* stopped for the case
CaseOf == [gateway |-> "corrupt_gateway", ot |-> "corrupt_ot", plant |-> "corrupt_plant"]

\* _await_service_not_ready: an answer other than 200 is a refusal, and so is
\* no answer at all for five seconds.
ReportsReady(s, x, slow) == Ready(s, x) /\ ~slow

\* _mutate_artifact: another container over the same volume replaces the file.
Mutated(s, x, content) == [s EXCEPT !.file[x] = content]

\* _artifact_fault_case: stop, corrupt, start, see that it does not become
\* ready, stop, restore the exact bytes; then the service is brought back.
FaultCase(p, x, slow) ==
    /\ At(p, "m4i", CaseOf[x])
    /\ LET with == {x} \cup Behind[x]
           broken == Recreate(Mutated(Stop(Sys(p), with), x, "corrupt"), {x})
           back == Recreate(Mutated(Stop(broken, {x}), x, "intact"), with)
           seen == [ready |-> ReportsReady(broken, x, slow), restored |-> back.file[x] = "intact"]
       IN /\ slow => Ready(broken, x)
          /\ IF \A y \in Services : Ready(back, y)
             THEN /\ site' = [site EXCEPT ![p].sys = back]
                  /\ run' = [run EXCEPT ![p].pc = NextCase[x],
                                         ![p].masked = IF slow THEN @ \cup {OpensCorrupt[x]} ELSE @,
                                         ![p].saw = Noting([f \in {CaseOf[x]} |-> seen], @)]
                  /\ UNCHANGED <<kind, defect, checkout, output, reported, faults>>
             ELSE Raise(p, back)

----
(* The gates of M4i (_accepted_gates). *)

RequiredHealth(o) == o.health.required /\ o.health.aligned

NominalAccepted(o) == o.nominal.gateway = Settled /\ o.nominal.ot = o.nominal.gateway

\* Faulty variant: what the relay saw is not compared.
LossUnseen(o) ==
    /\ o.lost.status = "unknown_effect"
    /\ o.lost.gateway = [Settled EXCEPT !.state = "dispatch_armed"] /\ o.lost.ot = Settled

LossUnknown(o) ==
    /\ o.lost.status = "unknown_effect"
    /\ o.lost.gateway = [Settled EXCEPT !.state = "dispatch_armed"] /\ o.lost.ot = Settled
    /\ o.lost.relay = [prepare |-> 1, commit |-> 1, violations |-> 0]

ReconciliationAccepted(o) ==
    /\ o.resolved.gateway = [Settled EXCEPT !.query = 1]
    /\ o.resolved.ot = o.resolved.gateway /\ o.lost.relay.commit = 1

RestartAccepted(o) ==
    /\ o.restarted.renewed
    /\ o.restarted.gateway = o.resolved.gateway /\ o.restarted.ot = o.resolved.ot
    /\ o.restarted.records = 2 /\ o.restarted.applied = 2

PlantAccepted(o) == o.plant.renewed /\ o.plant.before = o.plant.after

FreshBlocked(o) == o.fresh.refused /\ o.fresh.before = o.fresh.after

IsolatedPrivate(o) == o.private

CorruptionClosed(o) == \A x \in Services : ~o[CaseOf[x]].ready /\ o[CaseOf[x]].restored

CoordinationAccepted(o) ==
    /\ RequiredHealth(o) /\ NominalAccepted(o) /\ LossUnknown(o) /\ ReconciliationAccepted(o)
    /\ RestartAccepted(o) /\ PlantAccepted(o) /\ FreshBlocked(o) /\ IsolatedPrivate(o) /\ CorruptionClosed(o)

----
(* M4g: workload identity. *)

\* Every verifier that resolves an identity persists the bundle's sequence.
Admit(s) ==
    [s EXCEPT !.floor = IF defect = "floor_not_kept" THEN @
                        ELSE [v \in Verifiers |-> IF s.bundle \in {1, 2} /\ s.bundle > @[v] THEN s.bundle ELSE @[v]]]

\* The agent's probe: an action that completes, the same again and an unsafe
\* one, both refused; the exit code is not 0 when the agent, the gateway or the
\* OT adapter does not trust what it finds.
ProbeSucceeds(s) == TrustHolds(s, "agent") /\ Ready(s, "gateway") /\ Ready(s, "ot")
Probed(s) == IF ProbeSucceeds(s) THEN [Admit(s) EXCEPT !.plant = @ + 1] ELSE s

\* _probe_accepted also reads the replayed and the unsafe request, and what the
\* agent could reach without the gateway.
ProbeAccepted(s) == ProbeSucceeds(s) /\ defect # "agent_reaches_ot"

\* _trust_sequence_snapshot fails where a verifier has no state file.
FloorsReadable(s) == \A v \in Verifiers : s.floor[v] # 0
\* _trust_sequence_snapshot_at
FloorsAt(floors, n) == \A v \in Verifiers : floors[v] = n

Probe(p) ==
    /\ At(p, "m4g", "probe")
    /\ LET s == Probed(Sys(p))
       IN IF ProbeSucceeds(Sys(p)) /\ FloorsReadable(s)
          THEN Proceed(p, "direct", s, [primary |-> ProbeAccepted(Sys(p)), first |-> s.floor])
          ELSE Raise(p, s)

\* _rotation_fixture: a fresh transaction under the fixed transport nonce.  The
\* OT adapter reserves the nonce for the gateway's subject, not for its leaf.
NonceKey(s) == IF defect = "nonce_per_leaf" THEN s.leaf ELSE "subject"
Dispatched(s) ==
    IF NonceKey(s) \in s.spent THEN s ELSE [s EXCEPT !.spent = @ \cup {NonceKey(s)}, !.plant = @ + 1]
DispatchStatus(s) == IF NonceKey(s) \in s.spent THEN 409 ELSE 200

Direct(p) ==
    /\ At(p, "m4g", "direct")
    /\ Proceed(p, "rotate", Dispatched(Sys(p)),
           [sent |-> [status |-> DispatchStatus(Sys(p)), leaf |-> Sys(p).leaf]])

\* _rotate_gateway at sequence 1, then only the gateway is recreated, with the
\* new private key.
Rotate(p) ==
    /\ At(p, "m4g", "rotate")
    /\ LET s == Recreate([Sys(p) EXCEPT !.bundle = 2, !.leaf = "second",
                                        !.revoked = IF defect = "old_leaf_trusted" THEN @ ELSE {"first"}],
                         {"gateway"})
       IN IF Ready(s, "gateway")
          THEN Proceed(p, "probe_again", s, [revoked |-> s.revoked, after |-> s.born])
          ELSE Raise(p, s)

ProbeAgain(p) ==
    /\ At(p, "m4g", "probe_again")
    /\ LET s == Probed(Sys(p))
       IN IF ProbeSucceeds(Sys(p))
          THEN Proceed(p, "direct_again", s, [again |-> ProbeAccepted(Sys(p))]) ELSE Raise(p, s)

DirectAgain(p) ==
    /\ At(p, "m4g", "direct_again")
    /\ LET s == Dispatched(Sys(p))
       IN IF FloorsReadable(s)
          THEN Proceed(p, "rollback", s,
                   [resent |-> [status |-> DispatchStatus(Sys(p)), leaf |-> s.leaf], second |-> s.floor])
          ELSE Raise(p, s)

\* _mutate_bundle: the administrator's container removes or replaces the file.
BundleSet(s, content) == [s EXCEPT !.bundle = content]

\* _await_gateway_ot_unavailable: both run and both answer 503.
BothUnavailable(s) == {"gateway", "ot"} \subseteq s.up /\ ~Ready(s, "gateway") /\ ~Ready(s, "ot")

\* _restart_durable_bundle_rollback_case: gateway and OT adapter are recreated
\* over intact volumes and probed; the first bundle is put back, both must
\* come up unavailable and all three verifiers refuse it; the second bundle is
\* restored and both are recreated once more.
RollbackCase(p) ==
    /\ At(p, "m4g", "rollback")
    /\ LET intact == Probed(Recreate(Sys(p), {"gateway", "ot"}))
           rolled == Recreate(BundleSet(intact, 1), {"gateway", "ot"})
           back == Recreate(BundleSet(rolled, 2), {"gateway", "ot"})
       IN IF BothUnavailable(rolled) /\ ProbeSucceeds(back)
          THEN Proceed(p, "missing", Probed(back),
                   [rollback |-> [floors |-> FloorsAt(intact.floor, 2) /\ FloorsAt(rolled.floor, 2) /\ FloorsAt(back.floor, 2),
                                  refused |-> \A v \in Verifiers : ~TrustHolds(rolled, v),
                                  probes |-> ProbeAccepted(back),
                                  quiet |-> rolled.plant = intact.plant]])
          ELSE Raise(p, back)

NextBundleCase == [missing |-> "corrupt", corrupt |-> "evaluate"]
OpensBundle == [missing |-> "opens_without_bundle", corrupt |-> "opens_corrupt_bundle"]

\* _bundle_fault_case: the bundle is removed or replaced, the probe must exit
\* with an error and the plant stay as it is; a probe whose container never
\* ran exits with an error as well.
BundleFault(p, c, lame) ==
    /\ At(p, "m4g", c)
    /\ LET faulty == BundleSet(Sys(p), IF c = "missing" THEN Missing ELSE Unparsed)
           s == IF lame THEN faulty ELSE Probed(faulty)
           seen == [failed |-> lame \/ ~ProbeSucceeds(faulty), quiet |-> s.plant = faulty.plant]
       IN /\ lame => ProbeSucceeds(faulty)
          /\ site' = [site EXCEPT ![p].sys = BundleSet(s, 2)]
          /\ run' = [run EXCEPT ![p].pc = NextBundleCase[c],
                                 ![p].masked = IF lame THEN @ \cup {OpensBundle[c]} ELSE @,
                                 ![p].saw = Noting([f \in {c} |-> seen], @)]
    /\ UNCHANGED <<kind, defect, checkout, output, reported, faults>>

----
(* The gates of M4g (the acceptance of _campaign). *)

PrimaryAccepted(o) == o.primary /\ o.again

LeafRotated(o) == o.revoked = {"first"} /\ o.sent.leaf # o.resent.leaf

\* _only_gateway_recreated
OnlyGatewayRecreated(o) == \A x \in Services : o.before[x] # o.after[x] <=> x = "gateway"

\* _cross_leaf_accepted
CrossLeafAccepted(o) == o.sent.status = 200 /\ o.resent.status = 409 /\ o.sent.leaf # o.resent.leaf

FaultsFailedClosed(o) == \A c \in {"missing", "corrupt"} : o[c].failed /\ o[c].quiet

RollbackRefused(o) == o.rollback.floors /\ o.rollback.refused /\ o.rollback.probes /\ o.rollback.quiet

IdentityAccepted(o) ==
    /\ o.private /\ o.bound /\ PrimaryAccepted(o) /\ FloorsAt(o.first, 1) /\ FloorsAt(o.second, 2)
    /\ LeafRotated(o) /\ OnlyGatewayRecreated(o) /\ CrossLeafAccepted(o)
    /\ FaultsFailedClosed(o) /\ RollbackRefused(o)

----
(* The SPIRE campaign: identities issued by the workload API. *)

\* The gateway dispatches while it can fetch an identity, or after all if it
\* does without.
Speaks(s) == s.registered \/ defect = "acts_without_identity"

\* _collect_identities, the primary probe and the running services.
Identities(p) ==
    /\ At(p, "spire", "identities")
    /\ Proceed(p, "await_svid", Probed(Sys(p)),
           [distinct |-> defect # "shared_identity", primary |-> ProbeAccepted(Sys(p))])

\* _await_issued_rotation: a new certificate of the same identity in time.
AwaitSvid(p) ==
    /\ At(p, "spire", "await_svid")
    /\ IF defect = "never_rotates" THEN Raise(p, Sys(p))
       ELSE Proceed(p, "unregister", [Probed(Sys(p)) EXCEPT !.svid = @ + 1],
                [again |-> ProbeAccepted(Sys(p)), rotated |-> TRUE])

\* _delete_gateway_registration and _await_fresh_fetch_unavailable, then the
\* action prepared before is submitted: the gateway must not dispatch it.
Unregister(p) ==
    /\ At(p, "spire", "unregister")
    /\ LET gone == [Sys(p) EXCEPT !.registered = defect = "fetch_survives"]
           s == IF Speaks(gone) THEN [gone EXCEPT !.plant = @ + 1] ELSE gone
       IN IF gone.registered THEN Raise(p, gone)
          ELSE Proceed(p, "evaluate", s,
                   [deleted |-> [status |-> IF Speaks(gone) THEN "completed" ELSE "not_dispatched",
                                 quiet |-> s.plant = gone.plant]])

\* _identity_acceptance
IdentitiesAccepted(o) == o.distinct

\* _post_deletion_acceptance
DeletionAccepted(o) == o.deleted.status = "not_dispatched" /\ o.deleted.quiet

MtlsAccepted(o) ==
    /\ o.bound /\ IdentitiesAccepted(o) /\ PrimaryAccepted(o) /\ o.rotated /\ DeletionAccepted(o)

----
(* How a campaign ends. *)

\* The end of the `try`: _assert_checkout, and for M4g and SPIRE the verdict on
\* their gates; M4i judges its own after the cleanup.
ConcludeCoordination(p) ==
    /\ At(p, "m4i", "checkout")
    /\ IF checkout = "clean" THEN Proceed(p, "cleanup", Sys(p), <<>>) ELSE Raise(p, Sys(p))

ConcludeIdentity(p) ==
    /\ At(p, "m4g", "evaluate")
    /\ IF checkout = "clean" /\ IdentityAccepted(run[p].saw)
       THEN Proceed(p, "cleanup", Sys(p), <<>>) ELSE Raise(p, Sys(p))

ConcludeMtls(p) ==
    /\ At(p, "spire", "evaluate")
    /\ IF checkout = "clean" /\ MtlsAccepted(run[p].saw)
       THEN Proceed(p, "cleanup", Sys(p), <<>>) ELSE Raise(p, Sys(p))

Removable == {"relay", "project", "keys"}

\* The `finally` of _campaign: the relay if it is still active, then
\* docker compose down -v, then the private directories; each may fail, and
\* what is still there afterwards is recorded.
Cleanup(p) ==
    /\ run[p].pc = "cleanup"
    /\ \E stuck \in SUBSET Removable :
        /\ faults + Cardinality(stuck) <= MaxFaults /\ faults' = faults + Cardinality(stuck)
        /\ LET h == [site[p] EXCEPT !.relay = @ /\ ("relay" \in stuck \/ ~run[p].relaying),
                                    !.made = @ /\ "project" \in stuck,
                                    !.sys.up = IF "project" \in stuck THEN @ ELSE {},
                                    !.keys = "keys" \in stuck]
           IN site' = [site EXCEPT ![p] = h]
        /\ run' = [run EXCEPT ![p].pc = "judge", ![p].left = stuck]
    /\ UNCHANGED <<kind, defect, checkout, output, reported>>

\* What a campaign says after its cleanup: complete observations and nothing
\* left behind, for M4i the gates as well.
JudgedCoordination(p) ==
    run[p].saw # <<>> /\ CoordinationAccepted(run[p].saw) /\ run[p].left = {} /\ ~site[p].relay
JudgedOther(p) == run[p].saw # <<>> /\ run[p].left = {}

Judge(p) ==
    /\ run[p].pc = "judge"
    /\ LET accepted == IF kind[p] = "m4i" THEN JudgedCoordination(p) ELSE JudgedOther(p)
       IN run' = [run EXCEPT ![p].pc = IF accepted /\ checkout = "clean" THEN "write" ELSE "failed"]
    /\ UNCHANGED <<kind, defect, checkout, site, output, reported, faults>>

\* output.unlink: a file goes, and a directory of results stays with an error.
Unlinked == IF output # Nobody /\ kind[output] = "spire" THEN output ELSE Nobody

\* run_experiment's end: _atomic_write_json refuses a name that is taken, and
\* the handler of that refusal unlinks the name.
WriteEvidence(p) ==
    /\ run[p].pc = "write" /\ kind[p] # "spire"
    /\ IF output = Nobody
       THEN run' = [run EXCEPT ![p].pc = "staged"] /\ UNCHANGED output
       ELSE run' = [run EXCEPT ![p].pc = "failed"] /\ output' = Unlinked
    /\ UNCHANGED <<kind, defect, checkout, site, reported, faults>>

\* os.replace of the temporary file, over any file that has the name by now; a
\* directory is not replaced.
ReplaceEvidence(p) ==
    /\ run[p].pc = "staged" /\ kind[p] # "spire"
    /\ IF Unlinked = Nobody
       THEN run' = [run EXCEPT ![p].pc = "done"] /\ output' = p /\ reported' = reported \cup {p}
       ELSE run' = [run EXCEPT ![p].pc = "failed"] /\ UNCHANGED <<output, reported>>
    /\ UNCHANGED <<kind, defect, checkout, site, faults>>

\* Any other failure of the write, before or after the replacement, unlinks
\* the name as well.
WriteFails(p) ==
    /\ run[p].pc \in {"write", "staged"} /\ kind[p] # "spire"
    /\ faults < MaxFaults /\ faults' = faults + 1
    /\ run' = [run EXCEPT ![p].pc = "failed"] /\ output' = Unlinked
    /\ UNCHANGED <<kind, defect, checkout, site, reported>>

\* _retain_results: a directory is staged next to the name and renamed to it;
\* the rename of a directory refuses a name that is taken by now.
StageResults(p) ==
    /\ run[p].pc = "write" /\ kind[p] = "spire"
    /\ run' = [run EXCEPT ![p].pc = IF output = Nobody THEN "staged" ELSE "failed"]
    /\ UNCHANGED <<kind, defect, checkout, site, output, reported, faults>>

RetainResults(p) ==
    /\ run[p].pc = "staged" /\ kind[p] = "spire"
    /\ IF output = Nobody
       THEN run' = [run EXCEPT ![p].pc = "done"] /\ output' = p /\ reported' = reported \cup {p}
       ELSE run' = [run EXCEPT ![p].pc = "failed"] /\ UNCHANGED <<output, reported>>
    /\ UNCHANGED <<kind, defect, checkout, site, faults>>

\* m4d._run with check: any other command may fail; _start_relay removes a
\* relay it could not put into the route.
CommandFails(p) ==
    /\ run[p].pc \notin {"idle", "absent", "cleanup", "judge", "write", "staged", "done", "failed"}
    /\ faults < MaxFaults /\ faults' = faults + 1
    /\ site' = [site EXCEPT ![p].made = @ \/ run[p].pc = "up"]
    /\ run' = [run EXCEPT ![p].pc = "cleanup", ![p].saw = <<>>]
    /\ UNCHANGED <<kind, defect, checkout, output, reported>>

\* The process is killed: nothing runs the `finally`.  It may be called again,
\* with a key directory and images of its own; the old key directory stays under
\* its random name.
Killed(p) ==
    /\ run[p].pc \notin {"idle", "done", "failed"}
    /\ faults < MaxFaults /\ faults' = faults + 1
    /\ run' = [run EXCEPT ![p] = Started]
    /\ site' = [site EXCEPT ![p].keys = FALSE, ![p].stray = @ \/ site[p].keys, ![p].image = "none"]
    /\ UNCHANGED <<kind, defect, checkout, output, reported>>

\* Somebody edits a tracked file, and may put it back.
EditCheckout ==
    /\ checkout = "clean" /\ checkout' = "edited"
    /\ UNCHANGED <<kind, defect, site, run, output, reported, faults>>

RestoreCheckout ==
    /\ checkout = "edited" /\ checkout' = "clean"
    /\ run' = [p \in Campaigns |-> [run[p] EXCEPT !.restored = run[p].pc # "idle"]]
    /\ UNCHANGED <<kind, defect, site, output, reported, faults>>

CampaignNext ==
    \/ \E p \in Campaigns :
        \/ BeginCampaign(p) \/ Claim(p) \/ BindCoordination(p) \/ BindIdentity(p) \/ BindMtls(p)
        \/ Build(p) \/ Up(p)
        \/ Nominal(p) \/ StartRelay(p) \/ LoseResponse(p) \/ Fresh(p) \/ StopRelay(p) \/ Reconcile(p)
        \/ RestartBoth(p) \/ RestartPlant(p)
        \/ \E x \in Services, slow \in BOOLEAN : FaultCase(p, x, slow)
        \/ Probe(p) \/ Direct(p) \/ Rotate(p) \/ ProbeAgain(p) \/ DirectAgain(p) \/ RollbackCase(p)
        \/ \E c \in {"missing", "corrupt"}, lame \in BOOLEAN : BundleFault(p, c, lame)
        \/ Identities(p) \/ AwaitSvid(p) \/ Unregister(p)
        \/ ConcludeCoordination(p) \/ ConcludeIdentity(p) \/ ConcludeMtls(p)
        \/ Cleanup(p) \/ Judge(p) \/ WriteEvidence(p) \/ ReplaceEvidence(p) \/ WriteFails(p)
        \/ StageResults(p) \/ RetainResults(p) \/ CommandFails(p) \/ Killed(p)
    \/ EditCheckout \/ RestoreCheckout

CampaignSpec == CampaignInit /\ [][CampaignNext]_campaignVars

----
(* Properties. *)

\* What each campaign can notice; the rest of Defects is the other's business.
Excluded(k) ==
    CASE k = "m4i" -> {"shared_volume", "not_required", "readable_state", "assumes_applied", "resends",
                          "admits_second", "commits_again", "gateway_forgets", "plant_resets",
                          "opens_corrupt_gateway", "opens_corrupt_ot", "opens_corrupt_plant"}
      [] k = "m4g" -> {"shared_floor", "readable_state", "floor_not_kept", "floor_ignored", "agent_ignores_floor",
                          "agent_reaches_ot", "nonce_per_leaf", "old_leaf_trusted",
                          "opens_without_bundle", "opens_corrupt_bundle"}
      [] k = "spire" -> {"shared_floor", "plaintext_link", "shared_identity", "agent_reaches_ot", "never_rotates",
                         "fetch_survives", "acts_without_identity"}

\* Evidence is earned: when a campaign reports its evidence as retained, its
\* images were built from the commit, unless somebody edited the tree and put it
\* back while it ran, which neither look at the checkout nor the images' label
\* shows; images of the commit have none of the defects the campaign is about,
\* except one whose fault case passed only because the service was slow to start
\* or the probe's container never ran; and its containers, volumes, relay and own
\* private keys are gone (_assert_checkout, _accepted_gates, _campaign).
EvidenceIsEarned ==
    \A p \in reported :
        /\ site[p].image = "clean" \/ run[p].restored
        /\ site[p].image = "clean" /\ defect \in Excluded(kind[p]) => defect \in run[p].masked
        /\ ~site[p].made /\ ~site[p].relay /\ ~site[p].keys

\* Evidence that was reported as retained stays where it was written: a
\* campaign that finds the name taken refuses to overwrite it (run_experiment,
\* _atomic_write_json).
ReportedEvidenceRemains == reported # {} => output \in reported
====
