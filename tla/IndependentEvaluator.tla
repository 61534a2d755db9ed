---- MODULE IndependentEvaluator ----
(***************************************************************************)
(* The independent consequence evaluator                                   *)
(* (src/aegis_ot_independent/evaluator.py, cli.py): a process that reads   *)
(* one request and one topology fixture from files, refuses what it cannot *)
(* validate, works out by a search from the sources which buses the        *)
(* commanded line leaves connected, and reports whether the signed         *)
(* observation agrees.  A digest or signature is what it covers: sound or  *)
(* not.  Every load demands one unit; two values are within the tolerance  *)
(* when they are equal.                                                    *)
(***************************************************************************)
EXTENDS Naturals, FiniteSets

CONSTANTS
    Buses,       \* bus identifiers
    Branches,    \* branch identifiers
    Ends,        \* branch -> <<from_bus, to_bus>>
    LoadBus,     \* load -> bus
    Priority,    \* the loads whose priority flag is set
    Feeder       \* the branch the registered resource controls

ASSUME TopologyAssumption ==
    /\ Ends \in [Branches -> Buses \X Buses]
    /\ DOMAIN LoadBus # {} /\ LoadBus \in [DOMAIN LoadBus -> Buses]
    /\ Priority \subseteq DOMAIN LoadBus /\ Feeder \in Branches

VARIABLES
    fixture,     \* the fixture file: branches and loads in service, live sources
    question,    \* the request file
    evaluator    \* the process: its place, the search, the report

evaluatorVars == <<fixture, question, evaluator>>

Absent == [absent |-> TRUE]
NoReport == [status |-> "none"]

----
(* The search. *)

\* The branches that are in service: the fixture's, one of them overridden.
\* command.setpoint is 1 to close the line and 0 to open it.
Closed(fx, setpoint) == IF setpoint = 1 THEN fx.closed \cup {Feeder} ELSE fx.closed \ {Feeder}

\* Faulty variant: a branch is followed from from_bus to to_bus only.
NeighboursForward(closed, bus) ==
    {b \in Buses : \E br \in closed : Ends[br] = <<bus, b>>}

\* A branch connects its two buses both ways.
Neighbours(closed, bus) ==
    {b \in Buses : \E br \in closed : Ends[br] = <<bus, b>> \/ Ends[br] = <<b, bus>>}

\* What a set of reached buses means for the loads that are switched on.
Percent(part, whole) == IF whole = 0 THEN 100 ELSE (part * 100) \div whole
TopologyValues(fx, reached, isolated) ==
    LET served == {l \in fx.loads : LoadBus[l] \in reached}
        wanted == fx.loads \cap Priority IN
    [demand |-> Cardinality(fx.loads), served |-> Cardinality(served),
     priorityDemand |-> Cardinality(wanted), priorityServed |-> Cardinality(served \cap wanted),
     servedPct |-> Percent(Cardinality(served), Cardinality(fx.loads)),
     priorityPct |-> Percent(Cardinality(served \cap wanted), Cardinality(wanted)),
     isolated |-> isolated]

\* What an observation says about the same quantities; no bus count.
ObservedValues(observation) == observation.values

\* Every metric within its tolerance, the isolated resources exactly.
Matches(predicted, observed) == predicted = observed

Isolated(setpoint) == IF setpoint = 1 THEN {} ELSE {"feeder"}

----
(* What the evaluator may be asked.  The connected buses by definition: the *)
(* least set that holds the live sources and is closed under branches.      *)

Reaches(closed, sources, bus) ==
    \A S \in SUBSET Buses :
        (sources \subseteq S /\ \A br \in closed : Ends[br][1] \in S <=> Ends[br][2] \in S)
            => bus \in S
Supplied(closed, sources) == {b \in Buses : Reaches(closed, sources, b)}

BaselineValues(fx) == TopologyValues(fx, Supplied(fx.closed, fx.sources), {})
Consequence(fx, setpoint) ==
    TopologyValues(fx, Supplied(Closed(fx, setpoint), fx.sources), Isolated(setpoint))

\* A transaction that happened as commanded and was recorded as it happened.
Faithful(fx, setpoint) ==
    [decoded |-> TRUE, shape |-> TRUE, fixture |-> "registered",
     pre |-> [sound |-> TRUE, phase |-> "pre_authorization", key |-> "observer", boot |-> 1,
              seq |-> 1, converged |-> TRUE, values |-> BaselineValues(fx)],
     post |-> [sound |-> TRUE, phase |-> "post_dispatch", key |-> "observer", boot |-> 1,
               seq |-> 2, previous |-> 1, command |-> "bound", converged |-> TRUE,
               values |-> Consequence(fx, setpoint)],
     command |-> [type |-> "set_line_service", unit |-> "boolean", setpoint |-> setpoint,
                  resource |-> "feeder", target |-> "line"]]

\* Requests that differ from it in one thing.
Questions(fx) ==
    UNION {LET q == Faithful(fx, setpoint) IN
        {q, [q EXCEPT !.decoded = FALSE], [q EXCEPT !.shape = FALSE],
         [q EXCEPT !.fixture = "other"], [q EXCEPT !.pre = Absent],
         [q EXCEPT !.post = Absent], [q EXCEPT !.command = Absent],
         [q EXCEPT !.post = Absent, !.command = Absent],
         [q EXCEPT !.pre.sound = FALSE], [q EXCEPT !.pre.phase = "post_dispatch"],
         [q EXCEPT !.pre.key = "other"], [q EXCEPT !.pre.converged = FALSE],
         [q EXCEPT !.pre.values.isolated = {"feeder"}], [q EXCEPT !.pre.values.served = @ + 1],
         [q EXCEPT !.post.sound = FALSE], [q EXCEPT !.post.boot = 2],
         [q EXCEPT !.post.seq = 1], [q EXCEPT !.post.previous = 0],
         [q EXCEPT !.post.command = "other"], [q EXCEPT !.post.converged = FALSE],
         [q EXCEPT !.post.values = q.pre.values], [q EXCEPT !.post.values.priorityServed = @ + 1],
         [q EXCEPT !.post.values.servedPct = @ + 1],
         [q EXCEPT !.command.type = "set_generation"], [q EXCEPT !.command.unit = "mw"],
         [q EXCEPT !.command.setpoint = 2],
         [q EXCEPT !.command.resource = "other"], [q EXCEPT !.command.target = "other"]}
        : setpoint \in {0, 1}}

Launched == [pc |-> "start", reached |-> {}, work |-> {}, report |-> NoReport]

EvaluatorInit ==
    /\ fixture \in [sound : BOOLEAN, closed : SUBSET Branches, sources : SUBSET Buses,
                    loads : SUBSET DOMAIN LoadBus]
    /\ question \in Questions(fixture)
    /\ evaluator = Launched

----
(* Validation. *)

ValidObservation(o, phase) == o.phase = phase /\ o.key = "observer" /\ o.sound

\* _validate_request; a post observation needs the command it names.
PairBound(q) ==
    /\ q.post.boot = q.pre.boot /\ q.post.seq > q.pre.seq /\ q.post.previous = q.pre.seq
ValidRequest(q) ==
    /\ q.shape
    /\ q.pre # Absent /\ ValidObservation(q.pre, "pre_authorization")
    /\ q.post # Absent =>
        /\ ValidObservation(q.post, "post_dispatch") /\ PairBound(q)
        /\ q.command # Absent /\ q.post.command = "bound"

\* _validate_fixture: the parts of a fixture with its own digest are well formed.
ValidFixture(fx) == fx.sound

Admitted == question.decoded /\ ValidRequest(question) /\ ValidFixture(fixture)
            /\ question.fixture = "registered"

\* The profile the evaluator answers for: one registered line, on or off.
InProfile(command) ==
    command.type = "set_line_service" /\ command.unit = "boolean"
    /\ command.setpoint \in {0, 1} /\ command.resource = "feeder"

\* The process exits with 0 unless it has something to object to.
ExitStatus(status) ==
    IF status \in {"agree", "not_applicable"} THEN 0
    ELSE IF status \in {"contradict", "indeterminate"} THEN 1 ELSE 2

Report(status, reason) ==
    evaluator' = [evaluator EXCEPT !.pc = "done",
                                   !.report = [status |-> status, reason |-> reason,
                                                exit |-> ExitStatus(status)]]

\* The input is refused: undecodable JSON, an invalid request or fixture, the
\* wrong fixture.
RejectInput ==
    /\ evaluator.pc = "start" /\ ~Admitted
    /\ Report("input_rejected", IF question.decoded THEN "invalid" ELSE "json_invalid")
    /\ UNCHANGED <<fixture, question>>

\* Nothing to evaluate, or nothing this profile can evaluate.
Decline ==
    /\ evaluator.pc = "start" /\ Admitted
    /\ \/ /\ question.command = Absent
          /\ Report("not_applicable", "no_consequence_artifacts")
       \/ /\ question.command # Absent
          /\ \/ question.post = Absent
             \/ question.post # Absent /\ ~InProfile(question.command)
          /\ Report("indeterminate", "outside_profile")
       \/ /\ question.command # Absent /\ question.post # Absent /\ InProfile(question.command)
          /\ question.command.target # "line"
          /\ Report("input_rejected", "command_fixture_binding_mismatch")
    /\ UNCHANGED <<fixture, question>>

Evaluable ==
    /\ Admitted /\ question.command # Absent /\ question.post # Absent
    /\ InProfile(question.command) /\ question.command.target = "line"

\* A pre-state the registered fixture says nothing about, or no solution.
PrestateUsable == question.pre.converged /\ question.pre.values.isolated = {}
DeclineState ==
    /\ evaluator.pc = "start" /\ Evaluable
    /\ ~PrestateUsable \/ ~question.post.converged
    /\ Report("indeterminate", "state_outside_baseline")
    /\ UNCHANGED <<fixture, question>>

\* The sources are reached to begin with.
Searching(pc) == [evaluator EXCEPT !.pc = pc, !.reached = fixture.sources, !.work = fixture.sources]
StartBaseline ==
    /\ evaluator.pc = "start" /\ Evaluable /\ PrestateUsable /\ question.post.converged
    /\ evaluator' = Searching("baseline")
    /\ UNCHANGED <<fixture, question>>

SearchedBranches ==
    IF evaluator.pc = "baseline" THEN fixture.closed ELSE Closed(fixture, question.command.setpoint)

\* One bus of the worklist.  The code takes the one that has waited longest;
\* here it is any of them.
Visit ==
    /\ evaluator.pc \in {"baseline", "predict"}
    /\ \E current \in evaluator.work :
        LET new == Neighbours(SearchedBranches, current) \ evaluator.reached IN
        evaluator' = [evaluator EXCEPT !.reached = @ \cup new, !.work = (@ \ {current}) \cup new]
    /\ UNCHANGED <<fixture, question>>

\* The fixture must first explain the state before the command.
CompareBaseline ==
    /\ evaluator.pc = "baseline" /\ evaluator.work = {}
    /\ IF Matches(TopologyValues(fixture, evaluator.reached, {}), ObservedValues(question.pre))
       THEN evaluator' = Searching("predict")
       ELSE Report("indeterminate", "prestate_does_not_match")
    /\ UNCHANGED <<fixture, question>>

ComparePrediction ==
    /\ evaluator.pc = "predict" /\ evaluator.work = {}
    /\ IF Matches(TopologyValues(fixture, evaluator.reached, Isolated(question.command.setpoint)),
                  ObservedValues(question.post))
       THEN Report("agree", "consequence_matches")
       ELSE Report("contradict", "metric_mismatch")
    /\ UNCHANGED <<fixture, question>>

EvaluatorNext ==
    \/ RejectInput \/ Decline \/ DeclineState \/ StartBaseline
    \/ Visit \/ CompareBaseline \/ ComparePrediction

EvaluatorSpec == EvaluatorInit /\ [][EvaluatorNext]_evaluatorVars

----
(* Properties. *)

\* An evaluation that is admitted, within the profile and over a pre-state the
\* fixture explains ends in agreement exactly when the observed values are those
\* of the least set of buses connected to a live source, and in contradiction
\* otherwise; nothing else ends in either, and the process succeeds only then or when
\* there was nothing to evaluate (evaluate_request over _connected_buses, main).
AgreementIsReachability ==
    evaluator.pc = "done" =>
        LET decided == Evaluable /\ PrestateUsable /\ question.post.converged
                       /\ question.pre.values = BaselineValues(fixture)
            agrees == question.post.values = Consequence(fixture, question.command.setpoint) IN
        /\ evaluator.report.status = "agree" <=> decided /\ agrees
        /\ evaluator.report.status = "contradict" <=> decided /\ ~agrees
        /\ evaluator.report.exit = 0 <=>
            (decided /\ agrees) \/ (Admitted /\ question.command = Absent)
====
