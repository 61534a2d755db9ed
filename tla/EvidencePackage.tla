---- MODULE EvidencePackage ----
(***************************************************************************)
(* The signed evidence packages of the capability experiment               *)
(* (m4b_experiment.py, m4b_package.py, m4b_models.py).  A writer runs its  *)
(* sessions, reads the sources it ran from, signs a manifest of            *)
(* everything, verifies the staged package and publishes first the trust   *)
(* anchor and then the directory; a verifier reads both later.  A digest   *)
(* is the thing it covers, and a key is the process that holds it.  The    *)
(* checkout may be edited and committed to at any time, a writer may be    *)
(* killed, two writers may share the two names, and what was published may *)
(* be changed on disk.                                                     *)
(***************************************************************************)
EXTENDS Naturals, Sequences, FiniteSets

CONSTANTS
    Writers,        \* invocations of write_m4b_experiment
    Controlled,     \* those with require_clean_checkout
    Shortcomings,   \* what may be wrong with the system, "none" included
    Slips,          \* how the assembled records may differ, "none" included
    MaxMishaps,     \* bound on everything that goes wrong or changes
    NoOne           \* no writer

\* What a session notices by itself, each followed by an exception.
SeenInSession ==
    {"unknown identity admitted", "stale observation admitted", "dispatched twice",
     "forbidden request granted", "replay granted", "state moved by a replay", "shared key"}

\* What only the evaluator or the verifier notices.
KnownShortcomings ==
    SeenInSession \cup {"none", "another consequence", "refused for another reason", "applied twice"}

KnownSlips ==
    {"none", "evidence extra", "evidence missing", "evidence edited", "evidence of another session",
     "transactions reordered", "transaction of another session", "health read again",
     "health phase twice", "state changed by the replay", "replacement shares a key",
     "replay answered by the first PLC", "replay of another session",
     "replay names other registrations", "probe missing", "request about another command",
     "reports exchanged", "evaluator registered anew"}

ASSUME PackageAssumption ==
    /\ NoOne \notin Writers /\ Controlled \subseteq Writers /\ MaxMishaps \in Nat
    /\ "none" \in Shortcomings /\ Shortcomings \subseteq KnownShortcomings
    /\ "none" \in Slips /\ Slips \subseteq KnownSlips

Sessions == {0, 1}
Parts == {"laboratory", "evaluator"}     \* src/aegis_ot, src/aegis_ot_independent

VARIABLES
    shortcoming,   \* what is wrong with the system the sessions run
    tree,          \* part -> version in the working tree
    commit,        \* [id, parts]: HEAD
    writer,        \* per writer: its place and what it holds
    package,       \* the directory at the output name
    trustAnchor,   \* whose public key is at the anchor's name
    reader,        \* the verification in progress
    mishaps        \* edits, commits, slips, kills and changes on disk so far

packageVars == <<shortcoming, tree, commit, writer, package, trustAnchor, reader, mishaps>>

Nothing0 == <<"nothing">>
Unpublished == [files |-> Nothing0, manifest |-> Nothing0, key |-> NoOne, signed |-> Nothing0]
Waiting == [pc |-> "idle", dirty |-> <<FALSE, FALSE>>, head |-> 0, next |-> 0,
            ran |-> [s \in Sessions |-> 0], kept |-> [p \in Parts |-> 0], slip |-> "none"]
Resting == [pc |-> "idle", seen |-> Unpublished, anchor |-> NoOne, verdict |-> "none"]

PackageInit ==
    /\ shortcoming \in Shortcomings
    /\ tree = [p \in Parts |-> 1]
    /\ commit = [id |-> 1, parts |-> tree]
    /\ writer = [w \in Writers |-> Waiting]
    /\ package = Unpublished /\ trustAnchor = NoOne
    /\ reader = Resting
    /\ mishaps = IF shortcoming = "none" THEN 0 ELSE 1

----
(* What one session records. *)

RuntimeRoles == <<"plant", "observer", "plc", "permit_signer", "replacement_plc">>
SessionRoles == Append(RuntimeRoles, "evaluator")
Conditions == <<"unknown_identity", "stale_observation", "nominal">>
Phases == {"pre_transactions", "post_nominal", "pre_replay", "post_replay"}
ForbiddenRequests == {"telemetry_post", "observer_apply", "admin_apply", "simulation_apply"}

\* One registration per process; only the plant has no key.
Registration(w, s, role) ==
    [session |-> s, role |-> role, boot |-> <<w, s, role>>,
     key |-> IF role = "plant" THEN Nothing0 ELSE <<w, s, role>>]
Registrations(w, s) ==
    [i \in 1..Len(SessionRoles) |-> Registration(w, s, SessionRoles[i])]

\* The plant is at version 1 once the nominal command is applied.
Health(w, s) ==
    [p \in Phases |-> [session |-> s, phase |-> p,
                       version |-> IF p = "pre_transactions" THEN 0 ELSE 1]]

\* The gateway decides on unknown_identity and nominal; every transaction ends in
\* one record of its disposition.
Bodies(w, s) ==
    <<<<w, s, "unknown_identity", "decision">>, <<w, s, "unknown_identity", "disposition">>,
      <<w, s, "stale_observation", "disposition">>,
      <<w, s, "nominal", "decision">>, <<w, s, "nominal", "disposition">>>>
FirstOf(i) == <<0, 2, 3>>[i]
LastOf(i) == <<1, 2, 4>>[i]

\* Each record carries its predecessor's hash and its own; a hash is what it
\* covers, the bodies up to its record.
Chained(bodies) ==
    [i \in 1..Len(bodies) |-> [seq |-> i - 1, body |-> bodies[i],
                               prev |-> [j \in 1..(i - 1) |-> bodies[j]],
                               hash |-> [j \in 1..i |-> bodies[j]]]]

\* _transaction_record without the report it may be given afterwards.
Transaction(w, s, i) ==
    [session |-> s, condition |-> Conditions[i],
     status |-> IF i = 3 THEN "completed" ELSE "not_dispatched",
     first |-> FirstOf(i), last |-> LastOf(i),
     head |-> Chained(Bodies(w, s))[LastOf(i) + 1].hash, ends |-> Bodies(w, s)[LastOf(i) + 1],
     registrations |-> SubSeq(Registrations(w, s), 1, 5),
     pre |-> Health(w, s)["pre_transactions"], post |-> Health(w, s)["post_nominal"],
     observer |-> <<w, s, "observer">>, permit |-> <<w, s, "permit_signer">>,
     ack |-> <<w, s, "plc">>]

\* The request is made from the nominal transaction as it is before the report.
Request(w, s) ==
    [session |-> s, binding |-> Transaction(w, s, 3), fixture |-> "registered",
     command |-> <<w, s, "command">>, observer |-> <<w, s, "observer">>]
EvaluationReport(w, s) ==
    [request |-> Request(w, s), status |-> "agree", boot |-> <<w, s, "evaluator">>,
     key |-> <<w, s, "evaluator">>]

\* M4bOrderlyRestartReplayRecord: the replacement refuses the nominal permit.
Replay(w, s) ==
    [session |-> s, original |-> Transaction(w, s, 3), reported |-> EvaluationReport(w, s),
     prior |-> <<w, s, "plc">>, replacement |-> <<w, s, "replacement_plc">>,
     ack |-> <<w, s, "replacement_plc">>, observer |-> <<w, s, "observer">>,
     before |-> Health(w, s)["pre_replay"], after |-> Health(w, s)["post_replay"],
     state |-> 1, unchanged |-> TRUE]

ProbeBundle(s) == [session |-> s, denied |-> ForbiddenRequests]

Recorded(w, s) ==
    [registrations |-> Registrations(w, s), health |-> Health(w, s),
     evidence |-> Chained(Bodies(w, s)),
     transactions |-> [i \in 1..3 |-> Transaction(w, s, i)],
     reported |-> EvaluationReport(w, s), command |-> <<w, s, "command">>,
     probes |-> ProbeBundle(s), replay |-> Replay(w, s),
     request |-> Request(w, s), report |-> EvaluationReport(w, s)]

----
(* What finalize_m4b_package is handed: the records of all sessions, or     *)
(* those records with one slip in session 0.                                *)

Extra(w) == Append(Bodies(w, 0), <<w, 0, "nominal", "disposition again">>)

Assembled(w, slip) ==
    LET c == [s \in Sessions |-> Recorded(w, s)] IN
    CASE slip = "evidence extra" -> [c EXCEPT ![0].evidence = Chained(Extra(w))]
      [] slip = "evidence missing" -> [c EXCEPT ![0].evidence = SubSeq(@, 1, 4)]
      [] slip = "evidence edited" -> [c EXCEPT ![0].evidence[4].body = <<w, 0, "nominal", "denied">>]
      [] slip = "evidence of another session" -> [c EXCEPT ![0].evidence = c[1].evidence]
      [] slip = "transactions reordered" ->
            [c EXCEPT ![0].transactions = <<@[2], @[1], @[3]>>]
      [] slip = "transaction of another session" ->
            [c EXCEPT ![0].transactions[1] = [c[1].transactions[1] EXCEPT !.session = 0]]
      [] slip = "health read again" ->
            [c EXCEPT ![0].health["post_nominal"].version = 2]
      [] slip = "health phase twice" ->
            [c EXCEPT ![0].health["post_replay"] = c[0].health["pre_replay"]]
      [] slip = "state changed by the replay" ->
            [c EXCEPT ![0].health["post_replay"].version = 2, ![0].replay.after.version = 2]
      [] slip = "replacement shares a key" ->
            [c EXCEPT ![0].registrations[5].key = <<w, 0, "plc">>]
      [] slip = "replay answered by the first PLC" -> [c EXCEPT ![0].replay.ack = <<w, 0, "plc">>]
      [] slip = "replay of another session" ->
            [c EXCEPT ![0].replay = [c[1].replay EXCEPT !.session = 0]]
      [] slip = "replay names other registrations" ->
            [c EXCEPT ![0].replay.prior = <<w, 1, "plc">>]
      [] slip = "probe missing" -> [c EXCEPT ![0].probes.denied = @ \ {"admin_apply"}]
      [] slip = "request about another command" ->
            [c EXCEPT ![0].request.command = <<w, 1, "command">>]
      [] slip = "reports exchanged" ->
            [c EXCEPT ![0].report = c[1].report, ![1].report = c[0].report]
      [] slip = "evaluator registered anew" ->
            [c EXCEPT ![0].registrations[6].boot = <<w, 1, "evaluator">>]
      [] OTHER -> c

----
(* _verify_semantics, over the records of all sessions; reading a record    *)
(* validates it first.                                                      *)

WellFormedTransaction(t) == t.first <= t.last
WellFormedReplay(r) == r.prior # r.replacement /\ (r.unchanged => r.state = r.before.version)
WellFormedRequest(q) == q.observer[1] = q.command[1] /\ q.observer[2] = q.command[2]
WellFormed(c) ==
    \A s \in Sessions :
        /\ \A i \in DOMAIN c[s].transactions : WellFormedTransaction(c[s].transactions[i])
        /\ WellFormedReplay(c[s].replay) /\ WellFormedRequest(c[s].request)

HealthPhases(c) ==
    \A s \in Sessions, p \in Phases : c[s].health[p].session = s /\ c[s].health[p].phase = p

\* One chain per session from the first record on, no record in two of them.
EvidenceChains(c) ==
    /\ \A s \in Sessions : \A i \in DOMAIN c[s].evidence :
        LET r == c[s].evidence[i] IN
        /\ r.seq = i - 1
        /\ r.prev = IF i = 1 THEN <<>> ELSE c[s].evidence[i - 1].hash
        /\ r.hash = Append(r.prev, r.body)
    /\ {r.hash : r \in {c[0].evidence[i] : i \in DOMAIN c[0].evidence}}
         \cap {r.hash : r \in {c[1].evidence[i] : i \in DOMAIN c[1].evidence}} = {}

RegistrationGroups(c) ==
    \A s \in Sessions :
        LET regs == c[s].registrations IN
        /\ \A i \in DOMAIN SessionRoles : regs[i].role = SessionRoles[i]
        /\ \A i, j \in DOMAIN regs : regs[i].boot = regs[j].boot => i = j
        /\ \A i, j \in 2..Len(regs) : regs[i].key = regs[j].key => i = j

\* The signatures of one transaction, under the registered keys.
TransactionSigned(t, regs) ==
    t.observer = regs[2].key /\ t.ack = regs[3].key /\ t.permit = regs[4].key

\* Registered order, package bindings, and evidence ranges that follow each other,
\* each ending in the transaction's own disposition.
TransactionsBound(c) ==
    \A s \in Sessions :
        LET x == c[s] IN
        \A i \in 1..3 :
            LET t == x.transactions[i] IN
            /\ t.condition = Conditions[i]
            /\ t.registrations = SubSeq(x.registrations, 1, 5)
            /\ t.pre = x.health["pre_transactions"] /\ t.post = x.health["post_nominal"]
            /\ t.first = IF i = 1 THEN 0 ELSE x.transactions[i - 1].last + 1
            /\ t.last < Len(x.evidence)
            /\ x.evidence[t.last + 1].hash = t.head /\ x.evidence[t.last + 1].body = t.ends
            /\ TransactionSigned(t, x.registrations)

\* Faulty variant: records after the last transaction's are not looked at.
EvidenceUnassigned(c) ==
    \A s \in Sessions : c[s].transactions[3].last + 1 <= Len(c[s].evidence)

\* Every evidence record belongs to a transaction.
EvidenceAssigned(c) ==
    \A s \in Sessions : c[s].transactions[3].last + 1 = Len(c[s].evidence)

\* The replay is one of this session's nominal transaction, answered by the
\* replacement, and left the plant alone.  The registrations it names are not
\* compared with the registered ones.
ReplayBound(c) ==
    \A s \in Sessions :
        LET x == c[s] IN
        /\ x.replay.original = x.transactions[3] /\ x.replay.reported = x.reported
        /\ x.replay.ack = x.registrations[5].key /\ x.replay.observer = x.registrations[2].key
        /\ x.replay.before = x.health["pre_replay"] /\ x.replay.after = x.health["post_replay"]
        /\ x.replay.before.version = x.replay.after.version
        /\ x.replay.state = x.replay.after.version
        /\ x.probes.session = s /\ x.probes.denied = ForbiddenRequests

\* Request, report, nominal transaction and registrations speak of one evaluation.
EvaluationBound(c) ==
    \A s \in Sessions :
        LET x == c[s] IN
        /\ x.request.session = s /\ x.request.binding = x.transactions[3]
        /\ x.request.command = x.command /\ x.request.fixture = "registered"
        /\ x.request.observer = x.registrations[2].key
        /\ x.report.request = x.request /\ x.reported = x.report
        /\ x.registrations[6].boot = x.report.boot /\ x.registrations[6].key = x.report.key

\* The source digest a report names must be that of the source files in the package.
SourceDigestsMatch(w) == \A s \in Sessions : writer[w].ran[s] = writer[w].kept["evaluator"]

\* What only the verifier looks at: reasons and attempts of the refused
\* transactions, and the plant's counters.  The writer's summary says the criteria
\* are met without them, so here the recomputed summary differs.
CriteriaMet == shortcoming \notin {"refused for another reason", "applied twice"}

RecordsCohere(c) ==
    /\ WellFormed(c) /\ HealthPhases(c) /\ EvidenceChains(c) /\ RegistrationGroups(c)
    /\ TransactionsBound(c) /\ EvidenceAssigned(c) /\ ReplayBound(c) /\ EvaluationBound(c)
Coherent == [w \in Writers |-> {slip \in Slips : RecordsCohere(Assembled(w, slip))}]

SemanticsHold(files) == files[2] \in Coherent[files[1]] /\ SourceDigestsMatch(files[1]) /\ CriteriaMet

\* The detached signature, under the key of the anchor.
RootTrusted(p, anchor) == p.key = anchor /\ p.signed = p.manifest

\* Every file is the one the manifest describes.
ArtifactsIntact(files, manifest) == files = manifest

PackageValid(p, anchor, files) ==
    /\ RootTrusted(p, anchor) /\ ArtifactsIntact(files, p.manifest)
    /\ SemanticsHold(files)

\* package_valid, a clean checkout at both ends and complete.
ExperimentAccepted(p, anchor, files) ==
    PackageValid(p, anchor, files) /\ writer[p.manifest[1]].dirty = <<FALSE, FALSE>>

----
(* The writer. *)

Step(w, changes) == writer' = [writer EXCEPT ![w] = changes]
Gone == [Waiting EXCEPT !.pc = "gone"]
GiveUp(w) == Step(w, Gone)
Onward(w, pc) == Step(w, [writer[w] EXCEPT !.pc = pc])
WriterOnly == UNCHANGED <<shortcoming, tree, commit, package, trustAnchor, reader, mishaps>>

Dirty == tree # commit.parts

\* git status as the code reads it: a command that fails counts as clean.
ReadsAsDirty(d) == d = Dirty \/ d = FALSE

\* write_m4b_experiment: nothing may be at either name yet; a controlled run wants
\* a clean checkout.
BeginRun(w) ==
    /\ writer[w].pc = "idle"
    /\ \E d \in BOOLEAN :
        /\ ReadsAsDirty(d)
        /\ IF package # Unpublished \/ trustAnchor # NoOne \/ (w \in Controlled /\ d) THEN GiveUp(w)
           ELSE Step(w, [writer[w] EXCEPT !.pc = "session", !.dirty = <<d, FALSE>>,
                                          !.head = commit.id])
    /\ WriterOnly

\* _run_session up to the end of the laboratory's processes: probes, health, the
\* three transactions, the replacement PLC and the replay.
RunSession(w) ==
    /\ writer[w].pc = "session"
    /\ IF shortcoming \in SeenInSession THEN GiveUp(w) ELSE Onward(w, "evaluate")
    /\ WriterOnly

\* The evaluator is a process of its own.  It reads its sources from the tree for the
\* digest its report names, after it has imported them: the step is that reading, and
\* what was imported is compared with nothing.  The session ends only if it agrees.
Evaluate(w) ==
    /\ writer[w].pc = "evaluate"
    /\ IF shortcoming = "another consequence" THEN GiveUp(w)
       ELSE LET s == writer[w].next IN
            Step(w, [writer[w] EXCEPT !.ran[s] = tree["evaluator"], !.next = s + 1,
                                      !.pc = IF s + 1 \in Sessions THEN "session" ELSE "ran"])
    /\ WriterOnly

\* The checkout must still be at the same commit, and clean.
EndProvenance(w) ==
    /\ writer[w].pc = "ran"
    /\ \E d \in BOOLEAN :
        /\ ReadsAsDirty(d)
        /\ IF commit.id # writer[w].head \/ (w \in Controlled /\ d) THEN GiveUp(w)
           ELSE Step(w, [writer[w] EXCEPT !.pc = "retain", !.dirty = <<@[1], d>>])
    /\ WriterOnly

\* Only now are sources, schemas and the fixture read.
Retain(w) ==
    /\ writer[w].pc = "retain"
    /\ \E slip \in Slips :
        /\ mishaps' = IF slip = "none" THEN mishaps ELSE mishaps + 1
        /\ mishaps' <= MaxMishaps
        /\ Step(w, [writer[w] EXCEPT !.pc = "assembled", !.kept = tree, !.slip = slip])
    /\ UNCHANGED <<shortcoming, tree, commit, package, trustAnchor, reader>>

Signed(w) ==
    LET manifest == <<w, writer[w].slip>> IN
    [files |-> manifest, manifest |-> manifest, key |-> w, signed |-> manifest]

\* finalize_m4b_package up to its own verification of what it staged.
Stage(w) ==
    /\ writer[w].pc = "assembled"
    /\ IF /\ package = Unpublished /\ trustAnchor = NoOne
          /\ PackageValid(Signed(w), w, Signed(w).files)
       THEN Onward(w, "staged") ELSE GiveUp(w)
    /\ WriterOnly

\* The anchor's name is looked at, and then renamed over.
CheckAnchorName(w) ==
    /\ writer[w].pc = "staged"
    /\ IF trustAnchor = NoOne THEN Onward(w, "anchor free") ELSE GiveUp(w)
    /\ WriterOnly
PublishAnchor(w) ==
    /\ writer[w].pc = "anchor free"
    /\ trustAnchor' = w
    /\ Onward(w, "anchored")
    /\ UNCHANGED <<shortcoming, tree, commit, package, reader, mishaps>>

\* A directory is never renamed over one that is not empty.
PublishPackage(w) ==
    /\ writer[w].pc = "anchored"
    /\ IF package = Unpublished THEN package' = Signed(w) /\ Onward(w, "returned")
       ELSE GiveUp(w) /\ UNCHANGED package
    /\ UNCHANGED <<shortcoming, tree, commit, trustAnchor, reader, mishaps>>

KillWriter(w) ==
    /\ writer[w].pc \notin {"idle", "gone", "returned"}
    /\ mishaps < MaxMishaps /\ mishaps' = mishaps + 1
    /\ GiveUp(w)
    /\ UNCHANGED <<shortcoming, tree, commit, package, trustAnchor, reader>>

----
(* Everybody else. *)

Edit(p) ==
    /\ mishaps < MaxMishaps
    /\ tree' = [tree EXCEPT ![p] = 3 - @]
    /\ mishaps' = mishaps + 1
    /\ UNCHANGED <<shortcoming, commit, writer, package, trustAnchor, reader>>

Commit ==
    /\ mishaps < MaxMishaps /\ Dirty
    /\ commit' = [id |-> commit.id + 1, parts |-> tree]
    /\ mishaps' = mishaps + 1
    /\ UNCHANGED <<shortcoming, tree, writer, package, trustAnchor, reader>>

\* A file of the published package changes, its manifest entry with it or not.
ChangeOnDisk ==
    /\ mishaps < MaxMishaps /\ package # Unpublished
    /\ \E slip \in Slips, described \in BOOLEAN :
        LET files == <<package.files[1], slip>> IN
        package' = [package EXCEPT !.files = files, !.manifest = IF described THEN files ELSE @]
    /\ mishaps' = mishaps + 1
    /\ UNCHANGED <<shortcoming, tree, commit, writer, trustAnchor, reader>>

\* verify_m4b_package: manifest and signature, then the anchor, then every file.
ReadManifest ==
    /\ reader.pc \in {"idle", "done"} /\ package # Unpublished
    /\ reader' = [Resting EXCEPT !.pc = "manifest", !.seen = package]
    /\ UNCHANGED <<shortcoming, tree, commit, writer, package, trustAnchor, mishaps>>
ReadAnchor ==
    /\ reader.pc = "manifest"
    /\ reader' = [reader EXCEPT !.pc = "anchor", !.anchor = trustAnchor]
    /\ UNCHANGED <<shortcoming, tree, commit, writer, package, trustAnchor, mishaps>>
Conclude ==
    /\ reader.pc = "anchor"
    /\ reader' = [reader EXCEPT !.pc = "done", !.seen.files = package.files,
                    !.verdict = IF ExperimentAccepted(reader.seen, reader.anchor, package.files)
                                THEN "accepted"
                                ELSE IF PackageValid(reader.seen, reader.anchor, package.files)
                                THEN "valid" ELSE "refused"]
    /\ UNCHANGED <<shortcoming, tree, commit, writer, package, trustAnchor, mishaps>>

PackageNext ==
    \/ \E w \in Writers :
        \/ BeginRun(w) \/ RunSession(w) \/ Evaluate(w) \/ EndProvenance(w) \/ Retain(w) \/ Stage(w)
        \/ CheckAnchorName(w) \/ PublishAnchor(w) \/ PublishPackage(w) \/ KillWriter(w)
    \/ \E p \in Parts : Edit(p)
    \/ Commit \/ ChangeOnDisk
    \/ ReadManifest \/ ReadAnchor \/ Conclude

PackageSpec == PackageInit /\ [][PackageNext]_packageVars

----
(* Properties. *)

\* A package is accepted only under the anchor of the writer whose sessions it
\* records, only if it holds exactly what those sessions recorded, only if the
\* system had no shortcoming, and only if every report names the evaluator
\* source the package keeps - whatever was edited, overwritten or changed on
\* disk meanwhile (finalize_m4b_package, _verify_semantics).  The two registrations
\* a replay names are the one thing the verifier never compares.
AcceptedMeansRecorded ==
    reader.verdict = "accepted" =>
        LET w == reader.seen.files[1] IN
        /\ reader.anchor = w
        /\ reader.seen.files[2] \in {"none", "replay names other registrations"}
        /\ shortcoming = "none"
        /\ \A s \in Sessions : writer[w].ran[s] = writer[w].kept["evaluator"]
====
