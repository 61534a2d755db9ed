---------------------- MODULE AuthorizedExecutionProofs ----------------------
(***************************************************************************)
(* Proofs about AuthorizedExecution and DurableState, the files its        *)
(* services keep.  For any grants, requests, handlers and bounds: one      *)
(* answer per nonce and observation, permits within every grant of their   *)
(* chain, and a plant within the limits of the safety kernel.  For any     *)
(* runtimes and writes: a write a caller was told of survives kills,       *)
(* failing calls and power losses.                                         *)
(***************************************************************************)
EXTENDS AuthorizedExecution, DurableState, FiniteSetTheorems, WellFoundedInduction, TLAPS

(***************************************************************************)
(* Delegation chains of any length.  Every non-empty set of naturals has a *)
(* least element, which stands in for induction along the chain.           *)
(***************************************************************************)
LEMMA LeastNat ==
    ASSUME NEW S \in SUBSET Nat, S # {}
    PROVE  \E n \in S : \A m \in S : n <= m
<1> DEFINE R == OpToRel(<, Nat)
<1>1. IsWellFoundedOn(R, Nat)
  BY NatLessThanWellFounded
<1>2. R = {ss \in Nat \X Nat : ss[1] < ss[2]}
  BY DEF OpToRel
<1> HIDE DEF R
<1>3. PICK n \in S : \A m \in S : ~(<<m, n>> \in R)
  BY <1>1, WFMin, Zenon
<1>4. ASSUME NEW m \in S PROVE n <= m
  <2>1. <<m, n>> \in Nat \X Nat
    OBVIOUS
  <2>2. ~(m < n)
    BY <1>2, <1>3, <2>1
  <2>3. QED
    BY <2>2
<1>5. QED
  BY <1>4

ProposalRecord ==
    [version : Int, observation : Int, nonce : STRING, actor : STRING, mission : STRING,
     resource : STRING, operation : STRING, amount : Int, rise : Int, risk : Nat,
     confident : BOOLEAN, approved : BOOLEAN, chain : Seq(STRING)]

ObservationRecord ==
    [id : Int, at : Int, boot : Int, version : Int, load : Int, volt : Int,
     peak : Int, isolated : SUBSET STRING]

\* What a grant must have given for the proposal p, apart from time and signature.
Covers(g, p) ==
    p.resource \in g.resources /\ p.operation \in g.operations /\ p.risk <= g.risk

ChainHolds(p, t) ==
    \A i \in DOMAIN p.chain :
        LET g == GrantAt(p.chain, i) IN
        /\ g.sound
        /\ Covers(g, p)
        /\ g.notBefore <= t /\ t <= g.expiresAt

LEMMA OwnHolds ==
    ASSUME NEW chain \in Seq(STRING), NEW t \in Int, NEW gone,
           GrantReasons(chain, t, gone) = {}, NEW i \in DOMAIN chain
    PROVE  /\ chain[i] \in DOMAIN Grants /\ GrantAt(chain, i) \in GrantRecord
           /\ GrantAt(chain, i).sound
           /\ GrantAt(chain, i).notBefore <= t /\ t <= GrantAt(chain, i).expiresAt
<1>1. OwnReasons(chain[i], t, gone) = {}
  BY DEF GrantReasons
<1>2. chain[i] \in DOMAIN Grants
  BY <1>1 DEF OwnReasons
<1>3. GrantAt(chain, i) \in GrantRecord /\ GrantAt(chain, i) = Grants[chain[i]]
  BY <1>2, GrantsAssumption DEF GrantAt
<1>4. /\ ReasonIf(~Grants[chain[i]].sound, "invalid_signature") = {}
      /\ ReasonIf(~(Grants[chain[i]].notBefore <= t /\ t <= Grants[chain[i]].expiresAt),
                  "inactive_grant") = {}
  BY <1>1, <1>2 DEF OwnReasons
<1>5. Grants[chain[i]].sound
  BY <1>4 DEF ReasonIf
<1>6. Grants[chain[i]].notBefore <= t /\ t <= Grants[chain[i]].expiresAt
  BY <1>4 DEF ReasonIf
<1>7. QED
  BY <1>2, <1>3, <1>5, <1>6

LEMMA LinkHolds ==
    ASSUME NEW chain \in Seq(STRING), LinkReasons(chain) = {}, NEW i \in 2..Len(chain)
    PROVE  /\ GrantAt(chain, i).resources \subseteq GrantAt(chain, i - 1).resources
           /\ GrantAt(chain, i).operations \subseteq GrantAt(chain, i - 1).operations
           /\ ~(GrantAt(chain, i).risk > GrantAt(chain, i - 1).risk)
<1> DEFINE g == GrantAt(chain, i)
           parent == GrantAt(chain, i - 1)
<1>1. LinkReasonsAt(chain, i) = {}
  BY DEF LinkReasons
<1>2. /\ ReasonIf(~LinkResourcesHeld(g, parent), "resource_amplification") = {}
      /\ ReasonIf(~(g.operations \subseteq parent.operations), "operation_amplification") = {}
      /\ ReasonIf(g.risk > parent.risk, "risk_amplification") = {}
  BY <1>1 DEF LinkReasonsAt
<1>3. QED
  BY <1>2 DEF ReasonIf, LinkResourcesHeld

LEMMA LeafHolds ==
    ASSUME NEW p, LeafReasons(p) = {}
    PROVE  LET leaf == GrantAt(p.chain, Len(p.chain)) IN
           /\ p.resource \in leaf.resources /\ p.operation \in leaf.operations
           /\ ~(p.risk > leaf.risk)
BY DEF LeafReasons, ReasonIf

\* No grant of the chain gave less than its leaf: otherwise take the last one that
\* did; the grant delegated from it gave what the proposal needs and more than it had.
LEMMA ChainCovers ==
    ASSUME NEW p \in ProposalRecord, NEW t \in Int, NEW gone,
           GrantReasons(p.chain, t, gone) = {}, LinkReasons(p.chain) = {},
           p.chain # <<>> => LeafReasons(p) = {},
           NEW i \in DOMAIN p.chain
    PROVE  Covers(GrantAt(p.chain, i), p)
<1> DEFINE c == p.chain
           n == Len(c)
           Short == {j \in 1..n : ~Covers(GrantAt(c, j), p)}
           Behind == {k \in Nat : n - k \in Short}
<1>1. c \in Seq(STRING) /\ n \in Nat /\ DOMAIN c = 1..n /\ p.risk \in Nat
  BY DEF ProposalRecord
<1>2. \A j \in 1..n : GrantAt(c, j).risk \in Nat
  <2>1. \A j \in 1..n : GrantAt(c, j) \in GrantRecord
    BY <1>1, OwnHolds
  <2>2. QED
    BY <2>1 DEF GrantRecord
<1> SUFFICES ASSUME Short # {} PROVE FALSE
  BY <1>1
<1>3. Behind # {} /\ Behind \in SUBSET Nat
  <2>1. PICK j \in Short : TRUE
    OBVIOUS
  <2>2. n - j \in Nat /\ n - (n - j) = j
    BY <1>1
  <2>3. n - j \in Behind
    BY <2>2
  <2>4. QED
    BY <2>3
<1>4. PICK k \in Behind : \A m \in Behind : k <= m
  BY <1>3, LeastNat
<1> DEFINE j == n - k
<1>5. j \in 1..n /\ ~Covers(GrantAt(c, j), p) /\ k \in Nat
  BY <1>4
<1>6. CASE j = n
  <2>1. c # <<>> /\ LeafReasons(p) = {}
    BY <1>1, <1>5
  <2>2. Covers(GrantAt(c, n), p)
    BY <1>1, <1>2, <1>5, <2>1, LeafHolds DEF Covers
  <2>3. QED
    BY <1>5, <1>6, <2>2
<1>7. CASE j # n
  <2>1. j + 1 \in 2..n /\ j + 1 \in 1..n /\ (j + 1) - 1 = j
    BY <1>1, <1>5, <1>7
  <2>2. j + 1 \notin Short
    <3>1. SUFFICES ASSUME j + 1 \in Short PROVE FALSE
      OBVIOUS
    <3>2. k - 1 \in Nat /\ n - (k - 1) = j + 1
      BY <1>1, <1>5, <1>7
    <3>3. k - 1 \in Behind
      BY <3>1, <3>2
    <3>4. k <= k - 1
      BY <1>4, <3>3
    <3>5. QED
      BY <1>5, <3>4
  <2>3. Covers(GrantAt(c, j + 1), p)
    BY <2>1, <2>2
  <2> HIDE DEF j
  <2>4. /\ GrantAt(c, j + 1).resources \subseteq GrantAt(c, j).resources
        /\ GrantAt(c, j + 1).operations \subseteq GrantAt(c, j).operations
        /\ ~(GrantAt(c, j + 1).risk > GrantAt(c, j).risk)
    <3>1. LinkReasons(c) = {} /\ c \in Seq(STRING) /\ j + 1 \in 2..Len(c)
      BY <1>1, <2>1
    <3>2. QED
      BY <2>1, <3>1, LinkHolds
  <2>5. Covers(GrantAt(c, j), p)
    BY <1>1, <1>2, <1>5, <2>1, <2>3, <2>4 DEF Covers
  <2>6. QED
    BY <1>5, <2>5
<1>8. QED
  BY <1>6, <1>7

LEMMA DelegationHolds ==
    ASSUME NEW p \in ProposalRecord, NEW t \in Int, NEW gone,
           DelegationReasons(p, t, gone) = {}
    PROVE  ChainHolds(p, t)
<1>1. /\ GrantReasons(p.chain, t, gone) = {} /\ LinkReasons(p.chain) = {}
      /\ p.chain # <<>> => LeafReasons(p) = {}
  BY DEF DelegationReasons
<1>2. p.chain \in Seq(STRING)
  BY DEF ProposalRecord
<1>3. QED
  BY <1>1, <1>2, OwnHolds, ChainCovers DEF ChainHolds

\* No delegation reason is the one that only asks for an approval.
LEMMA DelegationNeverAsks ==
    ASSUME NEW p, NEW t, NEW gone
    PROVE  "human_approval_required" \notin DelegationReasons(p, t, gone)
<1>1. "human_approval_required" \notin GrantReasons(p.chain, t, gone)
  <2>1. \A id : "human_approval_required" \notin OwnReasons(id, t, gone)
    BY DEF OwnReasons, ReasonIf
  <2>2. QED
    BY <2>1 DEF GrantReasons
<1>2. "human_approval_required" \notin LinkReasons(p.chain)
  <2>1. \A i : "human_approval_required" \notin LinkReasonsAt(p.chain, i)
    BY DEF LinkReasonsAt, ReasonIf
  <2>2. QED
    BY <2>1 DEF LinkReasons, ReasonIf
<1>3. "human_approval_required" \notin LeafReasons(p)
  BY DEF LeafReasons, ReasonIf
<1>4. QED
  BY <1>1, <1>2, <1>3 DEF DelegationReasons

(***************************************************************************)
(* The safety kernel judges an observation only by what it measures.       *)
(***************************************************************************)
LEMMA TransitionType ==
    ASSUME NEW p \in ProposalRecord, NEW s \in PlantState
    PROVE  Transition(p, s) \in PlantState /\ Transition(p, s).version = s.version + 1
<1>1. \A x \in Int : Clamped(x) \in Int
  BY DEF Clamped
<1> DEFINE load == CASE p.operation \in {"isolate_asset", "shed_load"} -> s.load - p.amount
                     [] p.operation = "restore_asset" -> s.load + p.amount
                     [] OTHER -> s.load
           volt == IF p.operation = "dispatch_battery" THEN s.volt + p.amount ELSE s.volt
           peak == IF p.operation = "dispatch_battery" THEN s.peak + p.rise ELSE s.peak
           isolated == CASE p.operation = "isolate_asset" -> s.isolated \cup {p.resource}
                         [] p.operation = "restore_asset" -> s.isolated \ {p.resource}
                         [] OTHER -> s.isolated
           clamped == Clamped(load)
<1>2. /\ s.version \in Int /\ s.load \in Int /\ s.volt \in Int /\ s.peak \in Int
      /\ s.isolated \in SUBSET STRING /\ p.amount \in Int /\ p.rise \in Int /\ p.resource \in STRING
  BY DEF PlantState, ProposalRecord
<1>3. load \in Int /\ volt \in Int /\ peak \in Int
  BY <1>2
<1>4. isolated \in SUBSET STRING
  BY <1>2
<1>5. clamped \in Int
  BY <1>1, <1>3
<1>6. Transition(p, s) = [s EXCEPT !.version = s.version + 1, !.load = clamped, !.volt = volt,
                                   !.peak = peak, !.isolated = isolated]
  BY DEF Transition
<1> HIDE DEF load, volt, peak, isolated, clamped
<1>7. s.version + 1 \in Int
  BY <1>2
<1>8. QED
  BY <1>3, <1>4, <1>5, <1>6, <1>7 DEF PlantState

LEMMA JudgedByMeasurements ==
    ASSUME NEW p, NEW o \in ObservationRecord, NEW s \in PlantState,
           o.load = s.load, o.volt = s.volt, o.peak = s.peak, o.isolated = s.isolated
    PROVE  SafetyReasons(p, o) = SafetyReasons(p, s)
<1>1. /\ Transition(p, o).load = Transition(p, s).load
      /\ Transition(p, o).volt = Transition(p, s).volt
      /\ Transition(p, o).peak = Transition(p, s).peak
      /\ Transition(p, o).isolated = Transition(p, s).isolated
  BY DEF Transition, ObservationRecord, PlantState
<1>2. QED
  BY <1>1 DEF SafetyReasons, LimitReasons

\* An answer that is no denial has only the request for an approval against it.
LEMMA NotDenied ==
    ASSUME NEW R, Outcome(R) # "deny"
    PROVE  R \subseteq {"human_approval_required"} /\ (Outcome(R) = "permit" => R = {})
BY DEF Outcome

-------------------------------------------------------------------------------
(***************************************************************************)
(* The inductive invariant.  An observation that can still be decided      *)
(* about, in the cache or in the hands of a handler, is live.  In one life *)
(* of the plant its version names its state; an answer given about a live  *)
(* observation is remembered by its nonce for as long as a decision about  *)
(* that observation can still be fresh.                                    *)
(***************************************************************************)
Busy(h) == handler[h] # Idle

Live == Range(cache) \cup {handler[h].o : h \in {x \in Handlers : Busy(x)}}

DecisionRecord ==
    [stage : {"deciding"}, p : ProposalRecord, o : ObservationRecord, at : Int,
     verified : BOOLEAN, verdict : {"permit", "require_approval", "deny"}]

AuthorizationTypeOK ==
    /\ now \in Int /\ issued \in Nat
    /\ plant \in [state : PlantState, boot : Int, mixed : BOOLEAN]
    /\ cache \in Seq(ObservationRecord)
    /\ seen \subseteq [nonce : STRING, at : Int]
    /\ handler \in [Handlers -> DecisionRecord \cup {Idle}]
    /\ \A m \in net : m.p \in ProposalRecord /\ m.version \in Int /\ m.boot \in Int
    /\ calls \subseteq net
    /\ \A d \in granted : d.p \in ProposalRecord /\ d.at \in Int

ObservationSane(o) ==
    /\ o.id <= issued /\ o.at <= now /\ o.boot <= plant.boot
    /\ o.boot = plant.boot =>
          /\ o.version <= plant.state.version
          /\ o.version = plant.state.version =>
                /\ o.load = plant.state.load /\ o.volt = plant.state.volt
                /\ o.peak = plant.state.peak /\ o.isolated = plant.state.isolated

OneObservationPerId == \A o, q \in Live : o.id = q.id => o = q

DecisionSane(d) ==
    /\ d.p.observation = d.o.id
    /\ d.at <= now /\ now <= d.at + MaxStall
    /\ d.verdict # "deny" => d.verified /\ IsFresh(d.o, d.at) /\ ChainHolds(d.p, d.at)
    /\ d.verdict = "permit" => SafetyReasons(d.p, d.o) = {}

MessageSane(m) ==
    /\ m.boot <= plant.boot
    /\ m.boot = plant.boot =>
          /\ m.version <= plant.state.version
          /\ m.version = plant.state.version => SafetyReasons(m.p, plant.state) = {}

AnswerSane(d) ==
    /\ d.p.observation <= issued
    /\ ChainHolds(d.p, d.at)
    /\ \A o \in Live : o.id = d.p.observation =>
          /\ o.at <= d.at
          /\ \/ \E e \in seen : e.nonce = d.p.nonce /\ e.at = d.at
             \/ now > o.at + MaxStateAge + MaxStall

AuthorizationInv ==
    /\ AuthorizationTypeOK
    /\ \A o \in Live : ObservationSane(o)
    /\ OneObservationPerId
    /\ \A h \in Handlers : Busy(h) => DecisionSane(handler[h])
    /\ \A m \in net : MessageSane(m)
    /\ \A d \in granted : AnswerSane(d)
    /\ OneAnswerPerNonce
    /\ PlantStaysWithinLimits

-------------------------------------------------------------------------------
LEMMA InitAuthorizationInv == Init => AuthorizationInv
<1> SUFFICES ASSUME Init PROVE AuthorizationInv
  OBVIOUS
<1>1. cache = <<>> /\ <<>> \in Seq(ObservationRecord) /\ Range(cache) = {}
  BY DEF Init, Range
<1>2. \A h \in Handlers : ~Busy(h)
  BY DEF Init, Busy
<1>3. Live = {}
  BY <1>1, <1>2 DEF Live
<1>4. AuthorizationTypeOK
  <2>1. plant \in [state : PlantState, boot : Int, mixed : BOOLEAN]
    BY NominalAssumption DEF Init
  <2>2. handler \in [Handlers -> DecisionRecord \cup {Idle}]
    BY DEF Init
  <2>3. now \in Int /\ issued \in Nat /\ seen = {} /\ net = {} /\ calls = {} /\ granted = {}
    BY DEF Init
  <2>4. QED
    BY <1>1, <2>1, <2>2, <2>3 DEF AuthorizationTypeOK
<1>5. OneObservationPerId /\ \A o \in Live : ObservationSane(o)
  BY <1>3 DEF OneObservationPerId
<1>6. net = {} /\ granted = {}
  BY DEF Init
<1>7. PlantStaysWithinLimits
  BY NominalAssumption DEF Init, PlantStaysWithinLimits
<1>8. QED
  BY <1>2, <1>4, <1>5, <1>6, <1>7 DEF AuthorizationInv, OneAnswerPerNonce

\* Steps of the adapter and the operator that touch nothing the invariant is about.
LEMMA ElsewhereStep ==
    ASSUME AuthorizationInv,
           UNCHANGED <<now, plant, cache, issued, seen, handler, net, granted>>,
           calls' \subseteq net
    PROVE  AuthorizationInv'
<1>1. Live' = Live
  BY DEF Live, Busy
<1>2. AuthorizationTypeOK'
  BY DEF AuthorizationInv, AuthorizationTypeOK
<1>3. OneObservationPerId' /\ \A o \in Live' : ObservationSane(o)'
  BY <1>1 DEF AuthorizationInv, OneObservationPerId, ObservationSane
<1>4. \A h \in Handlers : Busy(h)' => DecisionSane(handler[h])'
  BY DEF AuthorizationInv, Busy, DecisionSane
<1>5. (\A m \in net' : MessageSane(m)') /\ (\A d \in granted' : AnswerSane(d)')
  BY <1>1 DEF AuthorizationInv, MessageSane, AnswerSane
<1>6. OneAnswerPerNonce' /\ PlantStaysWithinLimits'
  BY DEF AuthorizationInv, OneAnswerPerNonce, PlantStaysWithinLimits
<1>7. QED
  BY <1>2, <1>3, <1>4, <1>5, <1>6 DEF AuthorizationInv

LEMMA LiveType ==
    ASSUME AuthorizationInv
    PROVE  /\ \A o \in Live : o \in ObservationRecord
           /\ \A h \in Handlers : Busy(h) => /\ handler[h] \in DecisionRecord
                                             /\ handler[h].o \in Live
<1>1. \A o \in Range(cache) : o \in ObservationRecord
  BY DEF AuthorizationInv, AuthorizationTypeOK, Range
<1>2. \A h \in Handlers : Busy(h) => handler[h] \in DecisionRecord
  BY DEF AuthorizationInv, AuthorizationTypeOK, Busy
<1>3. \A d \in DecisionRecord : d.o \in ObservationRecord
  BY DEF DecisionRecord
<1>4. QED
  BY <1>1, <1>2, <1>3 DEF Live

LEMMA TickStep == AuthorizationInv /\ Tick => AuthorizationInv'
<1> SUFFICES ASSUME AuthorizationInv, Tick PROVE AuthorizationInv'
  OBVIOUS
<1>1. /\ now' = now + 1 /\ now \in Int
      /\ UNCHANGED <<plant, cache, issued, seen, handler, net, calls, granted>>
      /\ \A h \in Handlers : Busy(h) => now < handler[h].at + MaxStall
  BY DEF Tick, Busy, AuthorizationInv, AuthorizationTypeOK
<1>2. Live' = Live
  BY <1>1 DEF Live, Busy
<1>3. \A o \in Live : o.at \in Int
  BY LiveType DEF ObservationRecord
<1>4. AuthorizationTypeOK'
  BY <1>1 DEF AuthorizationInv, AuthorizationTypeOK
<1>5. OneObservationPerId' /\ \A o \in Live' : ObservationSane(o)'
  BY <1>1, <1>2, <1>3 DEF AuthorizationInv, OneObservationPerId, ObservationSane
<1>6. ASSUME NEW h \in Handlers, Busy(h)' PROVE DecisionSane(handler[h])'
  <2>1. Busy(h) /\ handler[h] \in DecisionRecord
    BY <1>1, <1>6, LiveType DEF Busy
  <2>2. handler[h].at \in Int
    BY <2>1 DEF DecisionRecord
  <2>3. now' <= handler[h].at + MaxStall /\ handler[h].at <= now'
    BY <1>1, <2>1, <2>2, RetentionCoversDecisions DEF AuthorizationInv, DecisionSane
  <2>4. QED
    BY <1>1, <2>1, <2>3 DEF AuthorizationInv, DecisionSane
<1>7. \A m \in net' : MessageSane(m)'
  BY <1>1 DEF AuthorizationInv, MessageSane
<1>8. ASSUME NEW d \in granted' PROVE AnswerSane(d)'
  <2>1. \A o \in Live : now > o.at + MaxStateAge + MaxStall => now' > o.at + MaxStateAge + MaxStall
    BY <1>1, <1>3, RetentionCoversDecisions
  <2>2. QED
    BY <1>1, <1>2, <2>1 DEF AuthorizationInv, AnswerSane
<1>9. OneAnswerPerNonce' /\ PlantStaysWithinLimits'
  BY <1>1 DEF AuthorizationInv, OneAnswerPerNonce, PlantStaysWithinLimits
<1>10. QED
  BY <1>4, <1>5, <1>6, <1>7, <1>8, <1>9 DEF AuthorizationInv

\* The cache holds the new observation and some of those it held.
LEMMA CachedHolds ==
    ASSUME AuthorizationInv, NEW o \in ObservationRecord
    PROVE  Cached(o) \in Seq(ObservationRecord) /\ Range(Cached(o)) \subseteq Range(cache) \cup {o}
<1> DEFINE longer == Append(cache, o)
<1>1. cache \in Seq(ObservationRecord)
  BY DEF AuthorizationInv, AuthorizationTypeOK
<1>2. /\ longer \in Seq(ObservationRecord) /\ Len(longer) = Len(cache) + 1
      /\ \A i \in DOMAIN longer : longer[i] \in Range(cache) \cup {o}
  BY <1>1 DEF Range
<1> HIDE DEF longer
<1>3. longer # <<>>
  BY <1>1, <1>2
<1>4. /\ Tail(longer) \in Seq(ObservationRecord)
      /\ \A i \in DOMAIN Tail(longer) : i + 1 \in DOMAIN longer /\ Tail(longer)[i] = longer[i + 1]
  BY <1>2, <1>3
<1>5. Cached(o) = longer \/ Cached(o) = Tail(longer)
  BY DEF Cached, longer
<1>6. CASE Cached(o) = longer
  BY <1>2, <1>6 DEF Range
<1>7. CASE Cached(o) = Tail(longer)
  BY <1>2, <1>4, <1>7 DEF Range
<1>8. QED
  BY <1>5, <1>6, <1>7

LEMMA ObserveStep == AuthorizationInv /\ Observe => AuthorizationInv'
<1> SUFFICES ASSUME AuthorizationInv, Observe PROVE AuthorizationInv'
  OBVIOUS
<1> DEFINE new == Observation(issued + 1)
<1>1. /\ issued' = issued + 1 /\ cache' = Cached(new)
      /\ UNCHANGED <<now, plant, seen, handler, net, calls, granted>>
  BY DEF Observe
<1>2. /\ now \in Int /\ issued \in Nat /\ plant.state \in PlantState /\ plant.boot \in Int
  BY DEF AuthorizationInv, AuthorizationTypeOK
<1>3. /\ new \in ObservationRecord /\ new.id = issued + 1 /\ new.at = now /\ new.boot = plant.boot
      /\ new.version = plant.state.version /\ new.load = plant.state.load
      /\ new.volt = plant.state.volt /\ new.peak = plant.state.peak /\ new.isolated = plant.state.isolated
  BY <1>2 DEF Observation, ObservationRecord, PlantState
<1> HIDE DEF new
<1>4. Live' \subseteq Live \cup {new}
  BY <1>1, <1>3, CachedHolds DEF Live, Busy
<1>5. \A o \in Live : o.id \in Int /\ o.id <= issued
  BY LiveType DEF AuthorizationInv, ObservationSane, ObservationRecord
<1>6. AuthorizationTypeOK'
  BY <1>1, <1>2, <1>3, CachedHolds DEF AuthorizationInv, AuthorizationTypeOK
<1>7. ASSUME NEW o \in Live' PROVE ObservationSane(o)'
  <2>1. CASE o = new
    BY <1>1, <1>2, <1>3, <2>1 DEF ObservationSane, PlantState
  <2>2. CASE o \in Live
    BY <1>1, <1>2, <1>5, <2>2 DEF AuthorizationInv, ObservationSane
  <2>3. QED
    BY <1>4, <2>1, <2>2
<1>8. OneObservationPerId'
  <2>1. \A o \in Live : o.id # new.id
    BY <1>2, <1>3, <1>5
  <2>2. QED
    BY <1>4, <2>1 DEF AuthorizationInv, OneObservationPerId
<1>9. \A h \in Handlers : Busy(h)' => DecisionSane(handler[h])'
  BY <1>1 DEF AuthorizationInv, Busy, DecisionSane
<1>10. \A m \in net' : MessageSane(m)'
  BY <1>1 DEF AuthorizationInv, MessageSane
<1>11. ASSUME NEW d \in granted' PROVE AnswerSane(d)'
  <2>1. d \in granted /\ d.p.observation \in Int /\ d.p.observation <= issued
    BY <1>1 DEF AuthorizationInv, AuthorizationTypeOK, AnswerSane, ProposalRecord
  <2>2. d.p.observation # new.id /\ d.p.observation <= issued'
    BY <1>1, <1>2, <1>3, <2>1
  <2>3. \A o \in Live' : o.id = d.p.observation => o \in Live
    BY <1>4, <2>2
  <2>4. QED
    BY <1>1, <2>1, <2>2, <2>3 DEF AuthorizationInv, AnswerSane
<1>12. OneAnswerPerNonce' /\ PlantStaysWithinLimits'
  BY <1>1 DEF AuthorizationInv, OneAnswerPerNonce, PlantStaysWithinLimits
<1>13. QED
  BY <1>6, <1>7, <1>8, <1>9, <1>10, <1>11, <1>12 DEF AuthorizationInv

\* What a verdict that is no denial says about the proposal, at the instant of the
\* decision.
LEMMA VerdictMeans ==
    ASSUME NEW p \in ProposalRecord, NEW o \in ObservationRecord, NEW t \in Int, NEW gone,
           NEW answer,
           NEW R, R = ReasonIf(p.actor \notin ActorIds, "identity_not_verified")
                      \cup DelegationReasons(p, t, gone)
                      \cup ReasonIf(~IsFresh(o, t), "state_not_fresh")
                      \cup PolicyReasons(p, o, answer)
                      \cup SafetyReasons(p, o)
    PROVE  /\ Outcome(R) \in {"permit", "require_approval", "deny"}
           /\ Outcome(R) # "deny" => p.actor \in ActorIds /\ IsFresh(o, t) /\ ChainHolds(p, t)
           /\ Outcome(R) = "permit" => SafetyReasons(p, o) = {}
<1>1. Outcome(R) \in {"permit", "require_approval", "deny"}
  BY DEF Outcome
<1>2. Outcome(R) = "permit" => SafetyReasons(p, o) = {}
  BY NotDenied
<1>3. ASSUME Outcome(R) # "deny" PROVE p.actor \in ActorIds /\ IsFresh(o, t) /\ ChainHolds(p, t)
  <2>1. R \subseteq {"human_approval_required"}
    BY <1>3, NotDenied
  <2>2. p.actor \in ActorIds
    BY <2>1 DEF ReasonIf
  <2>3. IsFresh(o, t)
    BY <2>1 DEF ReasonIf
  <2>4. DelegationReasons(p, t, gone) = {}
    BY <2>1, DelegationNeverAsks
  <2>5. QED
    BY <2>2, <2>3, <2>4, DelegationHolds
<1>4. QED
  BY <1>1, <1>2, <1>3

LEMMA BeginDecideStep ==
    ASSUME AuthorizationInv, NEW h \in Handlers, NEW r \in Requests, NEW answer,
           NEW o \in Range(cache), BeginDecide(h, r, o, answer)
    PROVE  AuthorizationInv'
<1> DEFINE p == Proposal(r, o)
           R == ReasonIf(p.actor \notin ActorIds, "identity_not_verified")
                \cup DelegationReasons(p, now, revoked)
                \cup ReasonIf(~IsFresh(o, now), "state_not_fresh")
                \cup PolicyReasons(p, o, answer)
                \cup SafetyReasons(p, o)
           known == p.actor \in ActorIds
           d == [stage |-> "deciding", p |-> p, o |-> o, at |-> now,
                 verified |-> known, verdict |-> Outcome(R)]
<1>1. /\ handler[h] = Idle /\ handler' = [handler EXCEPT ![h] = d]
      /\ UNCHANGED <<now, plant, cache, issued, seen, net, calls, granted>>
  BY DEF BeginDecide
<1>2. o \in Live /\ o \in ObservationRecord /\ now \in Int
  BY LiveType DEF Live, AuthorizationInv, AuthorizationTypeOK
<1>3. p \in ProposalRecord /\ p.observation = o.id
  BY <1>2, RequestsAssumption DEF Proposal, ProposalRecord, RequestRecord, ObservationRecord
<1> HIDE DEF p
<1>4. /\ Outcome(R) \in {"permit", "require_approval", "deny"}
      /\ Outcome(R) # "deny" => p.actor \in ActorIds /\ IsFresh(o, now) /\ ChainHolds(p, now)
      /\ Outcome(R) = "permit" => SafetyReasons(p, o) = {}
  BY <1>2, <1>3, VerdictMeans
<1> HIDE DEF R
<1>5. /\ d \in DecisionRecord /\ d.p = p /\ d.o = o /\ d.at = now
      /\ d.verdict = Outcome(R) /\ d.verified = known
  <2>1. known \in BOOLEAN
    OBVIOUS
  <2> HIDE DEF known
  <2>2. QED
    BY <1>2, <1>3, <1>4, <2>1 DEF DecisionRecord
<1> HIDE DEF d
<1>6. d # Idle
  BY <1>5 DEF DecisionRecord, Idle
<1>7. /\ handler' \in [Handlers -> DecisionRecord \cup {Idle}]
      /\ handler'[h] = d
      /\ \A x \in Handlers : x # h => handler'[x] = handler[x]
  BY <1>1, <1>5 DEF AuthorizationInv, AuthorizationTypeOK
<1>8. Live' \subseteq Live
  BY <1>1, <1>2, <1>5, <1>7 DEF Live, Busy
<1>9. AuthorizationTypeOK'
  BY <1>1, <1>7 DEF AuthorizationInv, AuthorizationTypeOK
<1>10. OneObservationPerId' /\ \A q \in Live' : ObservationSane(q)'
  BY <1>1, <1>8 DEF AuthorizationInv, OneObservationPerId, ObservationSane
<1>11. ASSUME NEW x \in Handlers, Busy(x)' PROVE DecisionSane(handler[x])'
  <2>1. CASE x = h
    <3>1. now <= now + MaxStall
      BY <1>2, RetentionCoversDecisions
    <3>2. d.verdict # "deny" => known
      BY <1>4, <1>5
    <3>3. d.verdict # "deny" => d.verified
      BY <1>5, <3>2, Zenon
    <3>4. QED
      BY <1>1, <1>2, <1>3, <1>4, <1>5, <1>7, <2>1, <3>1, <3>3 DEF DecisionSane
  <2>2. CASE x # h
    BY <1>1, <1>7, <1>11, <2>2 DEF AuthorizationInv, Busy, DecisionSane
  <2>3. QED
    BY <2>1, <2>2
<1>12. (\A m \in net' : MessageSane(m)') /\ (\A g \in granted' : AnswerSane(g)')
  BY <1>1, <1>8 DEF AuthorizationInv, MessageSane, AnswerSane
<1>13. OneAnswerPerNonce' /\ PlantStaysWithinLimits'
  BY <1>1 DEF AuthorizationInv, OneAnswerPerNonce, PlantStaysWithinLimits
<1>14. QED
  BY <1>9, <1>10, <1>11, <1>12, <1>13 DEF AuthorizationInv

LEMMA GatewayRestartStep == AuthorizationInv /\ GatewayRestart => AuthorizationInv'
<1> SUFFICES ASSUME AuthorizationInv, GatewayRestart PROVE AuthorizationInv'
  OBVIOUS
<1>1. /\ cache' = <<>> /\ seen' = {} /\ handler' = [h \in Handlers |-> Idle]
      /\ UNCHANGED <<now, plant, issued, net, calls, granted>>
  BY DEF GatewayRestart
<1>2. Live' = {} /\ \A h \in Handlers : ~Busy(h)'
  BY <1>1 DEF Live, Busy, Range
<1>3. AuthorizationTypeOK'
  <2>1. <<>> \in Seq(ObservationRecord)
    OBVIOUS
  <2>2. handler' \in [Handlers -> DecisionRecord \cup {Idle}]
    BY <1>1
  <2>3. QED
    BY <1>1, <2>1, <2>2 DEF AuthorizationInv, AuthorizationTypeOK
<1>4. OneObservationPerId' /\ \A o \in Live' : ObservationSane(o)'
  BY <1>2 DEF OneObservationPerId
<1>5. (\A m \in net' : MessageSane(m)') /\ (\A d \in granted' : AnswerSane(d)')
  BY <1>1, <1>2 DEF AuthorizationInv, MessageSane, AnswerSane
<1>6. OneAnswerPerNonce' /\ PlantStaysWithinLimits'
  BY <1>1 DEF AuthorizationInv, OneAnswerPerNonce, PlantStaysWithinLimits
<1>7. QED
  BY <1>2, <1>3, <1>4, <1>5, <1>6 DEF AuthorizationInv

LEMMA PlantRestartStep == AuthorizationInv /\ PlantRestart => AuthorizationInv'
<1> SUFFICES ASSUME AuthorizationInv, PlantRestart PROVE AuthorizationInv'
  OBVIOUS
<1>1. /\ plant' = [state |-> Nominal, boot |-> plant.boot + 1, mixed |-> FALSE]
      /\ UNCHANGED <<now, cache, issued, seen, handler, net, calls, granted>>
  BY DEF PlantRestart
<1>2. /\ plant.boot \in Int /\ plant'.boot = plant.boot + 1 /\ plant'.state = Nominal
      /\ plant' \in [state : PlantState, boot : Int, mixed : BOOLEAN]
  BY <1>1, NominalAssumption DEF AuthorizationInv, AuthorizationTypeOK
<1>3. Live' = Live
  BY <1>1 DEF Live, Busy
<1>4. AuthorizationTypeOK'
  BY <1>1, <1>2 DEF AuthorizationInv, AuthorizationTypeOK
<1>5. ASSUME NEW o \in Live' PROVE ObservationSane(o)'
  <2>1. o.boot \in Int /\ o.boot <= plant.boot /\ o.id <= issued /\ o.at <= now
    BY <1>3, LiveType DEF AuthorizationInv, ObservationSane, ObservationRecord
  <2>2. o.boot <= plant'.boot /\ o.boot # plant'.boot
    BY <1>2, <2>1
  <2>3. QED
    BY <1>1, <2>1, <2>2 DEF ObservationSane
<1>6. OneObservationPerId' /\ \A h \in Handlers : Busy(h)' => DecisionSane(handler[h])'
  BY <1>1, <1>3 DEF AuthorizationInv, OneObservationPerId, Busy, DecisionSane
<1>7. ASSUME NEW m \in net' PROVE MessageSane(m)'
  <2>1. m.boot \in Int /\ m.boot <= plant.boot
    BY <1>1 DEF AuthorizationInv, AuthorizationTypeOK, MessageSane
  <2>2. QED
    BY <1>2, <2>1 DEF MessageSane
<1>8. \A d \in granted' : AnswerSane(d)'
  BY <1>1, <1>3 DEF AuthorizationInv, AnswerSane
<1>9. OneAnswerPerNonce' /\ PlantStaysWithinLimits'
  BY <1>1, <1>2, NominalAssumption DEF AuthorizationInv, OneAnswerPerNonce, PlantStaysWithinLimits
<1>10. QED
  BY <1>4, <1>5, <1>6, <1>7, <1>8, <1>9 DEF AuthorizationInv

LEMMA PlantApplyStep ==
    ASSUME AuthorizationInv, NEW m \in calls, PlantApply(m)
    PROVE  AuthorizationInv'
<1>1. /\ calls' \subseteq calls /\ calls \subseteq net /\ m \in net
      /\ UNCHANGED <<now, cache, issued, seen, handler, net, granted>>
  BY DEF PlantApply, AuthorizationInv, AuthorizationTypeOK
<1>2. CASE ~StillCurrent(m)
  <2>1. UNCHANGED plant
    BY <1>2 DEF PlantApply
  <2>2. QED
    BY <1>1, <2>1, ElsewhereStep
<1>3. CASE StillCurrent(m)
  <2> DEFINE after == Transition(m.p, plant.state)
             mixed == plant.mixed \/ m.boot # plant.boot
  <2>1. plant \in [state : PlantState, boot : Int, mixed : BOOLEAN] /\ m.p \in ProposalRecord
    BY <1>1 DEF AuthorizationInv, AuthorizationTypeOK
  <2>2. plant' = [plant EXCEPT !.state = after, !.mixed = mixed]
    BY <1>3 DEF PlantApply
  <2>3. after \in PlantState /\ after.version = plant.state.version + 1
    BY <2>1, TransitionType
  <2>4. mixed \in BOOLEAN
    BY <2>1
  <2>5. m.boot = plant.boot => LimitReasons(after) = {}
    BY <1>1, <1>3 DEF AuthorizationInv, MessageSane, StillCurrent, SafetyReasons
  <2> HIDE DEF after, mixed
  <2>6. /\ plant' \in [state : PlantState, boot : Int, mixed : BOOLEAN]
        /\ plant'.state = after /\ plant'.boot = plant.boot /\ plant'.mixed = mixed
    BY <2>1, <2>2, <2>3, <2>4
  <2>7. plant.state.version \in Int
    BY <2>1 DEF PlantState
  <2>8. Live' = Live
    BY <1>1 DEF Live, Busy
  <2>9. AuthorizationTypeOK'
    BY <1>1, <2>6 DEF AuthorizationInv, AuthorizationTypeOK
  <2>10. ASSUME NEW o \in Live' PROVE ObservationSane(o)'
    <3>1. o \in ObservationRecord /\ ObservationSane(o)
      BY <2>8, LiveType DEF AuthorizationInv
    <3>2. o.version \in Int
      BY <3>1 DEF ObservationRecord
    <3>3. o.boot = plant.boot => o.version < after.version
      BY <2>3, <2>7, <3>1, <3>2 DEF ObservationSane
    <3>4. QED
      BY <1>1, <2>3, <2>6, <2>7, <3>1, <3>2, <3>3 DEF ObservationSane
  <2>11. OneObservationPerId' /\ \A h \in Handlers : Busy(h)' => DecisionSane(handler[h])'
    BY <1>1, <2>8 DEF AuthorizationInv, OneObservationPerId, Busy, DecisionSane
  <2>12. ASSUME NEW x \in net' PROVE MessageSane(x)'
    <3>1. x.version \in Int /\ MessageSane(x)
      BY <1>1 DEF AuthorizationInv, AuthorizationTypeOK
    <3>2. x.boot = plant.boot => x.version < after.version
      BY <2>3, <2>7, <3>1 DEF MessageSane
    <3>3. QED
      BY <2>3, <2>6, <2>7, <3>1, <3>2 DEF MessageSane
  <2>13. \A d \in granted' : AnswerSane(d)'
    BY <1>1, <2>8 DEF AuthorizationInv, AnswerSane
  <2>14. OneAnswerPerNonce'
    BY <1>1 DEF AuthorizationInv, OneAnswerPerNonce
  <2>15. PlantStaysWithinLimits'
    BY <2>5, <2>6 DEF PlantStaysWithinLimits, mixed
  <2>16. QED
    BY <2>9, <2>10, <2>11, <2>12, <2>13, <2>14, <2>15 DEF AuthorizationInv
<1>4. QED
  BY <1>2, <1>3

\* The ledger drops only what is older than the retention, and an answer that is no
\* denial is in it.
LEMMA ReserveKeeps ==
    ASSUME AuthorizationInv, NEW d \in DecisionRecord
    PROVE  /\ SeenAfter(d) \subseteq [nonce : STRING, at : Int]
           /\ \A e \in seen : e.at >= d.at - Retention => e \in SeenAfter(d)
           /\ FinalOutcome(d) # "deny" => d.verdict # "deny" /\ FinalOutcome(d) = d.verdict
           /\ FinalOutcome(d) # "deny" /\ d.verified =>
                 /\ Reserves(d.p.nonce, d.at)
                 /\ [nonce |-> d.p.nonce, at |-> d.at] \in SeenAfter(d)
<1>1. d.p.nonce \in STRING /\ d.at \in Int /\ seen \subseteq [nonce : STRING, at : Int]
  BY DEF DecisionRecord, ProposalRecord, AuthorizationInv, AuthorizationTypeOK
<1>2. [nonce |-> d.p.nonce, at |-> d.at] \in [nonce : STRING, at : Int]
  BY <1>1
<1>3. SeenAfter(d) \subseteq [nonce : STRING, at : Int]
  BY <1>1, <1>2 DEF SeenAfter, Retained
<1>4. \A e \in seen : e.at >= d.at - Retention => e \in SeenAfter(d)
  BY DEF SeenAfter, Retained
<1>5. FinalOutcome(d) # "deny" => d.verdict # "deny" /\ FinalOutcome(d) = d.verdict
  BY DEF FinalOutcome
<1>6. FinalOutcome(d) # "deny" /\ d.verified =>
        Reserves(d.p.nonce, d.at) /\ [nonce |-> d.p.nonce, at |-> d.at] \in SeenAfter(d)
  BY DEF FinalOutcome, SeenAfter
<1>7. QED
  BY <1>3, <1>4, <1>5, <1>6

\* A decision that does not deny is the first about its nonce and observation.
LEMMA FirstAnswer ==
    ASSUME AuthorizationInv, NEW h \in Handlers, Busy(h),
           FinalOutcome(handler[h]) # "deny", NEW g \in granted
    PROVE  ~(/\ g.p.nonce = handler[h].p.nonce
             /\ g.p.observation = handler[h].p.observation)
<1> DEFINE d == handler[h]
<1>1. d \in DecisionRecord /\ d.o \in Live /\ d.o \in ObservationRecord /\ DecisionSane(d)
  BY LiveType DEF AuthorizationInv
<1>2. d.at \in Int /\ d.o.at \in Int /\ now \in Int /\ g.at \in Int
  BY <1>1 DEF DecisionRecord, ObservationRecord, AuthorizationInv, AuthorizationTypeOK
<1>3. d.verdict # "deny" /\ d.verified /\ Reserves(d.p.nonce, d.at)
  BY <1>1, ReserveKeeps DEF DecisionSane
<1>4. d.at - d.o.at <= MaxStateAge /\ now <= d.at + MaxStall
  BY <1>1, <1>3 DEF DecisionSane, IsFresh
<1> SUFFICES ASSUME g.p.nonce = d.p.nonce, g.p.observation = d.p.observation PROVE FALSE
  OBVIOUS
<1>5. d.o.id = g.p.observation
  BY <1>1 DEF DecisionSane
<1>6. /\ d.o.at <= g.at
      /\ \/ \E e \in seen : e.nonce = g.p.nonce /\ e.at = g.at
         \/ now > d.o.at + MaxStateAge + MaxStall
  BY <1>1, <1>5 DEF AuthorizationInv, AnswerSane
<1>7. ~(now > d.o.at + MaxStateAge + MaxStall)
  BY <1>2, <1>4, RetentionCoversDecisions
<1>8. PICK e \in seen : e.nonce = g.p.nonce /\ e.at = g.at
  BY <1>6, <1>7
<1>9. g.at >= d.at - Retention
  BY <1>2, <1>4, <1>6, RetentionCoversDecisions
<1>10. e \in Retained(d.at)
  BY <1>8, <1>9 DEF Retained
<1>11. QED
  BY <1>3, <1>8, <1>10 DEF Reserves

LEMMA FinishDecideStep ==
    ASSUME AuthorizationInv, NEW h \in Handlers, FinishDecide(h)
    PROVE  AuthorizationInv'
<1> DEFINE d == handler[h]
           outcome == FinalOutcome(d)
           id == Cardinality(granted) + 1
           g == [id |-> id, p |-> d.p, at |-> d.at, outcome |-> outcome]
           m == ExecutionRequest(d, id)
<1>1. /\ Busy(h) /\ handler' = [handler EXCEPT ![h] = Idle] /\ seen' = SeenAfter(d)
      /\ granted' = IF outcome = "deny" THEN granted ELSE granted \cup {g}
      /\ net' = IF outcome = "permit" THEN net \cup {m} ELSE net
      /\ UNCHANGED <<now, plant, cache, issued, calls>>
  BY DEF FinishDecide, Busy
<1>2. d \in DecisionRecord /\ d.o \in Live /\ d.o \in ObservationRecord /\ DecisionSane(d)
  BY <1>1, LiveType DEF AuthorizationInv
<1>3. /\ d.at \in Int /\ d.p \in ProposalRecord /\ d.o.at \in Int /\ now \in Int
      /\ d.o.version \in Int /\ d.o.boot \in Int
  BY <1>2 DEF DecisionRecord, ObservationRecord, AuthorizationInv, AuthorizationTypeOK
<1>4. m.p = d.p /\ m.version = d.o.version /\ m.boot = d.o.boot
  BY DEF ExecutionRequest
<1>5. g.p = d.p /\ g.at = d.at
  OBVIOUS
<1> HIDE DEF g, m, id
<1>6. /\ handler' \in [Handlers -> DecisionRecord \cup {Idle}] /\ handler'[h] = Idle
      /\ \A x \in Handlers : x # h => handler'[x] = handler[x]
  BY <1>1 DEF AuthorizationInv, AuthorizationTypeOK
<1>7. Live' \subseteq Live
  BY <1>1, <1>6 DEF Live, Busy
<1>8. outcome # "deny" =>
        /\ d.verified /\ IsFresh(d.o, d.at) /\ ChainHolds(d.p, d.at)
        /\ [nonce |-> d.p.nonce, at |-> d.at] \in seen'
  BY <1>1, <1>2, ReserveKeeps DEF DecisionSane
<1>9. AuthorizationTypeOK'
  <2>1. seen' \subseteq [nonce : STRING, at : Int]
    BY <1>1, <1>2, ReserveKeeps
  <2>2. \A x \in net' : x.p \in ProposalRecord /\ x.version \in Int /\ x.boot \in Int
    BY <1>1, <1>3, <1>4 DEF AuthorizationInv, AuthorizationTypeOK
  <2>3. \A x \in granted' : x.p \in ProposalRecord /\ x.at \in Int
    BY <1>1, <1>3, <1>5 DEF AuthorizationInv, AuthorizationTypeOK
  <2>4. QED
    BY <1>1, <1>6, <2>1, <2>2, <2>3 DEF AuthorizationInv, AuthorizationTypeOK
<1>10. OneObservationPerId' /\ \A o \in Live' : ObservationSane(o)'
  BY <1>1, <1>7 DEF AuthorizationInv, OneObservationPerId, ObservationSane
<1>11. \A x \in Handlers : Busy(x)' => DecisionSane(handler[x])'
  BY <1>1, <1>6 DEF AuthorizationInv, Busy, DecisionSane
<1>12. ASSUME NEW x \in net' PROVE MessageSane(x)'
  <2>1. CASE x \in net
    BY <1>1, <2>1 DEF AuthorizationInv, MessageSane
  <2>2. CASE x = m /\ outcome = "permit"
    <3>1. SafetyReasons(d.p, d.o) = {}
      BY <1>2, <2>2, ReserveKeeps DEF DecisionSane
    <3>2. ObservationSane(d.o) /\ plant.state \in PlantState
      BY <1>2 DEF AuthorizationInv, AuthorizationTypeOK
    <3>3. d.o.boot = plant.boot /\ d.o.version = plant.state.version
            => SafetyReasons(d.p, plant.state) = {}
      BY <1>2, <3>1, <3>2, JudgedByMeasurements DEF ObservationSane
    <3>4. QED
      BY <1>1, <1>4, <2>2, <3>2, <3>3 DEF MessageSane, ObservationSane
  <2>3. QED
    BY <1>1, <2>1, <2>2
<1>13. ASSUME NEW x \in granted' PROVE AnswerSane(x)'
  <2>1. CASE x \in granted
    <3>1. AnswerSane(x) /\ x.at \in Int
      BY <2>1 DEF AuthorizationInv, AuthorizationTypeOK
    <3>2. ASSUME NEW o \in Live', o.id = x.p.observation
          PROVE  \/ \E e \in seen' : e.nonce = x.p.nonce /\ e.at = x.at
                 \/ now > o.at + MaxStateAge + MaxStall
      <4>1. o \in Live /\ o.at \in Int /\ o.at <= x.at
        BY <1>7, <3>1, <3>2, LiveType DEF AnswerSane, ObservationRecord
      <4>2. CASE now > o.at + MaxStateAge + MaxStall
        BY <4>2
      <4>3. CASE \E e \in seen : e.nonce = x.p.nonce /\ e.at = x.at
        <5>1. PICK e \in seen : e.nonce = x.p.nonce /\ e.at = x.at
          BY <4>3
        <5>2. CASE e.at >= d.at - Retention
          BY <1>1, <1>2, <5>1, <5>2, ReserveKeeps
        <5>3. CASE ~(e.at >= d.at - Retention)
          <6>1. d.at <= now
            BY <1>2 DEF DecisionSane
          <6>2. now > o.at + MaxStateAge + MaxStall
            BY <1>3, <3>1, <4>1, <5>1, <5>3, <6>1, RetentionCoversDecisions
          <6>3. QED
            BY <6>2
        <5>4. QED
          BY <5>2, <5>3
      <4>4. QED
        BY <3>1, <3>2, <4>1, <4>2, <4>3 DEF AnswerSane
    <3>3. QED
      BY <1>1, <1>7, <3>1, <3>2 DEF AnswerSane
  <2>2. CASE x = g /\ outcome # "deny"
    <3>1. d.p.observation = d.o.id /\ d.o.id <= issued
      BY <1>2 DEF DecisionSane, AuthorizationInv, ObservationSane
    <3>2. d.o.at <= d.at
      BY <1>3, <1>8, <2>2 DEF IsFresh
    <3>3. \A o \in Live' : o.id = d.o.id => o = d.o
      BY <1>2, <1>7 DEF AuthorizationInv, OneObservationPerId
    <3>4. \E e \in seen' : e.nonce = d.p.nonce /\ e.at = d.at
      BY <1>8, <2>2
    <3>5. QED
      BY <1>1, <1>5, <1>8, <2>2, <3>1, <3>2, <3>3, <3>4 DEF AnswerSane
  <2>3. QED
    BY <1>1, <2>1, <2>2
<1>14. OneAnswerPerNonce'
  <2>1. outcome # "deny" => \A x \in granted :
          ~(x.p.nonce = g.p.nonce /\ x.p.observation = g.p.observation)
    BY <1>1, <1>5, FirstAnswer
  <2>2. QED
    BY <1>1, <2>1 DEF AuthorizationInv, OneAnswerPerNonce
<1>15. PlantStaysWithinLimits'
  BY <1>1 DEF AuthorizationInv, PlantStaysWithinLimits
<1>16. QED
  BY <1>9, <1>10, <1>11, <1>12, <1>13, <1>14, <1>15 DEF AuthorizationInv

-------------------------------------------------------------------------------
\* The inductive step, action by action.
LEMMA NextAuthorizationInv == AuthorizationInv /\ [Next]_vars => AuthorizationInv'
<1> SUFFICES ASSUME AuthorizationInv, [Next]_vars PROVE AuthorizationInv'
  OBVIOUS
<1>1. calls \subseteq net
  BY DEF AuthorizationInv, AuthorizationTypeOK
<1>2. CASE UNCHANGED vars
  BY <1>1, <1>2, ElsewhereStep DEF vars
<1>3. CASE Tick \/ Observe \/ GatewayRestart \/ PlantRestart
  BY <1>3, TickStep, ObserveStep, GatewayRestartStep, PlantRestartStep
<1>4. CASE \E h \in Handlers, r \in Requests, answer \in Answers :
             \E o \in Range(cache) : BeginDecide(h, r, o, answer)
  BY <1>4, BeginDecideStep
<1>5. CASE \E h \in Handlers : FinishDecide(h)
  BY <1>5, FinishDecideStep
<1>6. CASE (\E g \in Revocable : Revoke(g)) \/ OtRestart \/ LedgerFault
  BY <1>1, <1>6, ElsewhereStep DEF Revoke, OtRestart, LedgerFault
<1>7. CASE \E m \in net : OtAdmit(m)
  <2>1. PICK m \in net : OtAdmit(m)
    BY <1>7
  <2>2. /\ UNCHANGED <<now, plant, cache, issued, seen, handler, net, granted>>
        /\ calls' \subseteq net
    BY <1>1, <2>1 DEF OtAdmit
  <2>3. QED
    BY <2>2, ElsewhereStep
<1>8. CASE \E m \in calls : PlantApply(m)
  BY <1>8, PlantApplyStep
<1>9. QED
  BY <1>2, <1>3, <1>4, <1>5, <1>6, <1>7, <1>8 DEF Next

\* The inductive invariant holds in every reachable state of gateway, adapter and plant
\* (gateway_action, ReplayLedger.reserve, ot_execute, MutableSurrogatePlant.execute).
THEOREM AuthorizationInvariant == Spec => []AuthorizationInv
BY InitAuthorizationInv, NextAuthorizationInv, PTL DEF Spec

\* The plant is within the limits of the safety kernel as long as every applied permit
\* was decided about its present life (SafetyKernel.evaluate, version comparison of the
\* command adapter).
THEOREM PlantWithinLimits == Spec => []PlantStaysWithinLimits
<1>1. AuthorizationInv => PlantStaysWithinLimits
  BY DEF AuthorizationInv
<1>2. QED
  BY <1>1, AuthorizationInvariant, PTL

\* One nonce about one observation gets at most one answer that is not a denial
\* (AegisGateway.decide, ReplayLedger.reserve).
THEOREM OneAnswer == Spec => []OneAnswerPerNonce
<1>1. AuthorizationInv => OneAnswerPerNonce
  BY DEF AuthorizationInv
<1>2. QED
  BY <1>1, AuthorizationInvariant, PTL

\* A permit lies within every grant of its chain, for chains of any length
\* (DelegationValidator.validate).
THEOREM PermitsWithinChain == Spec => []PermitWithinWholeChain
<1>1. AuthorizationInv => PermitWithinWholeChain
  BY DEF AuthorizationInv, AnswerSane, ChainHolds, Covers, PermitWithinWholeChain
<1>2. QED
  BY <1>1, AuthorizationInvariant, PTL
-------------------------------------------------------------------------------
(***************************************************************************)
(* Delivery.  A request is known by its identifier, which is the number of *)
(* its answer.  One applied to the plant of this life names a version the  *)
(* plant has left; with the durable ledger, one on its way or applied is   *)
(* in the ledger, and never both.                                          *)
(***************************************************************************)
AppliedSane(k) ==
    /\ applied[k] = 1 /\ k.boot \in Int /\ k.boot <= plant.boot
    /\ \E m \in net : m.id = k.id
    /\ k.boot = plant.boot =>
          \A m \in net : m.id = k.id => m.version < plant.state.version

LedgerRemembers ==
    /\ \A m \in calls : m.id \in ledger.nonces /\ \A k \in DOMAIN applied : k.id # m.id
    /\ \A k \in DOMAIN applied : k.id \in ledger.nonces
    /\ \A k, l \in DOMAIN applied : k.id = l.id => k = l

DeliveryInv ==
    /\ config \in Configs
    /\ ledger \in [nonces : SUBSET Int, readable : BOOLEAN]
    /\ IsFiniteSet(granted)
    /\ \A d \in granted : d.id \in 1..Cardinality(granted)
    /\ \A m \in net : m.id \in 1..Cardinality(granted)
    /\ \A m, n \in net : m.id = n.id => m = n
    /\ \A k \in DOMAIN applied : AppliedSane(k)
    /\ config.durable => LedgerRemembers

LEMMA InitDelivery == Init => DeliveryInv
<1> SUFFICES ASSUME Init PROVE DeliveryInv
  OBVIOUS
<1>1. config \in Configs /\ ledger \in [nonces : SUBSET Int, readable : BOOLEAN]
  BY DEF Init
<1>2. net = {} /\ granted = {} /\ calls = {} /\ DOMAIN applied = {}
  BY DEF Init
<1>3. QED
  BY <1>1, <1>2, FS_EmptySet DEF DeliveryInv, LedgerRemembers

\* Steps that send, admit and apply nothing.
LEMMA QuietDelivery ==
    ASSUME DeliveryInv, UNCHANGED <<config, granted, net, applied>>,
           calls' \subseteq calls, ledger'.nonces = ledger.nonces,
           ledger' \in [nonces : SUBSET Int, readable : BOOLEAN],
           \A k \in DOMAIN applied : AppliedSane(k)'
    PROVE  DeliveryInv'
BY DEF DeliveryInv, LedgerRemembers

LEMMA FinishDelivery ==
    ASSUME AuthorizationInv, DeliveryInv, NEW h \in Handlers, FinishDecide(h)
    PROVE  DeliveryInv'
<1> DEFINE id == Cardinality(granted) + 1
           answer == [id |-> id, p |-> handler[h].p, at |-> handler[h].at,
                      outcome |-> FinalOutcome(handler[h])]
           request == ExecutionRequest(handler[h], id)
<1>1. /\ UNCHANGED <<config, plant, ledger, calls, applied>>
      /\ \/ granted' = granted /\ net' = net
         \/ granted' = granted \cup {answer} /\ net' = net
         \/ granted' = granted \cup {answer} /\ net' = net \cup {request}
  BY DEF FinishDecide
<1>2. /\ IsFiniteSet(granted) /\ Cardinality(granted) \in Nat
      /\ \A d \in granted : d.id \in 1..Cardinality(granted)
      /\ \A m \in net : m.id \in 1..Cardinality(granted)
      /\ \A m, n \in net : m.id = n.id => m = n
  BY FS_CardinalityType DEF DeliveryInv
<1>3. answer.id = id /\ request.id = id
  BY DEF ExecutionRequest
<1> HIDE DEF answer, request
<1>4. CASE granted' = granted /\ net' = net
  BY <1>1, <1>4, QuietDelivery DEF DeliveryInv, AppliedSane
<1>5. CASE granted' = granted \cup {answer}
  <2>1. answer \notin granted
    BY <1>2, <1>3
  <2>2. IsFiniteSet(granted') /\ Cardinality(granted') = id
    BY <1>2, <1>5, <2>1, FS_AddElement
  <2>3. \A d \in granted' : d.id \in 1..Cardinality(granted')
    BY <1>2, <1>3, <1>5, <2>2
  <2>4. /\ \A m \in net' : m.id \in 1..Cardinality(granted')
        /\ \A m, n \in net' : m.id = n.id => m = n
    BY <1>1, <1>2, <1>3, <2>2
  <2>5. ASSUME NEW k \in DOMAIN applied' PROVE AppliedSane(k)'
    <3>1. AppliedSane(k)
      BY <1>1 DEF DeliveryInv
    <3>2. k.id # id
      BY <1>2, <3>1 DEF AppliedSane
    <3>3. \A m \in net' : m.id = k.id => m \in net
      BY <1>1, <1>3, <3>2
    <3>4. QED
      BY <1>1, <3>1, <3>3 DEF AppliedSane
  <2>6. LedgerRemembers => LedgerRemembers'
    BY <1>1 DEF LedgerRemembers
  <2>7. QED
    BY <1>1, <2>2, <2>3, <2>4, <2>5, <2>6 DEF DeliveryInv
<1>6. QED
  BY <1>1, <1>4, <1>5

LEMMA AdmitDelivery ==
    ASSUME DeliveryInv, NEW m \in net, OtAdmit(m)
    PROVE  DeliveryInv'
<1>1. /\ UNCHANGED <<config, plant, granted, net, applied>> /\ calls' = calls \cup {m}
      /\ ledger' = IF m.signed /\ config.durable
                     THEN [ledger EXCEPT !.nonces = @ \cup {m.id}] ELSE ledger
  BY DEF OtAdmit
<1>2. m.id \in Int /\ ledger \in [nonces : SUBSET Int, readable : BOOLEAN]
  <2>1. Cardinality(granted) \in Nat /\ m.id \in 1..Cardinality(granted)
    BY FS_CardinalityType DEF DeliveryInv
  <2>2. QED
    BY <2>1 DEF DeliveryInv
<1>3. /\ ledger' \in [nonces : SUBSET Int, readable : BOOLEAN]
      /\ ledger.nonces \subseteq ledger'.nonces
  BY <1>1, <1>2
<1>4. \A k \in DOMAIN applied' : AppliedSane(k)'
  BY <1>1 DEF DeliveryInv, AppliedSane
<1>5. ASSUME config.durable PROVE LedgerRemembers'
  <2>1. config = [auth |-> TRUE, durable |-> TRUE]
    BY <1>5 DEF DeliveryInv, Configs
  <2>2. m.signed /\ m.id \notin ledger.nonces
    BY <2>1 DEF OtAdmit, NonceSeen
  <2>3. ledger'.nonces = ledger.nonces \cup {m.id}
    BY <1>1, <1>2, <1>5, <2>2
  <2>4. \A k \in DOMAIN applied : k.id # m.id
    BY <1>5, <2>2 DEF DeliveryInv, LedgerRemembers
  <2>5. QED
    BY <1>1, <1>5, <2>3, <2>4 DEF DeliveryInv, LedgerRemembers
<1>6. QED
  BY <1>1, <1>3, <1>4, <1>5 DEF DeliveryInv

LEMMA ApplyDelivery ==
    ASSUME AuthorizationInv, DeliveryInv, NEW m \in calls, PlantApply(m)
    PROVE  DeliveryInv'
<1>1. /\ UNCHANGED <<config, granted, net, ledger>> /\ calls' = calls \ {m} /\ m \in net
  BY DEF PlantApply, AuthorizationInv, AuthorizationTypeOK
<1>2. ledger \in [nonces : SUBSET Int, readable : BOOLEAN]
  BY DEF DeliveryInv
<1>3. CASE ~StillCurrent(m)
  <2>1. UNCHANGED <<plant, applied>>
    BY <1>3 DEF PlantApply
  <2>2. \A k \in DOMAIN applied : AppliedSane(k)'
    BY <1>1, <2>1 DEF DeliveryInv, AppliedSane
  <2>3. QED
    BY <1>1, <1>2, <2>1, <2>2, QuietDelivery
<1>4. CASE StillCurrent(m)
  <2> DEFINE key == AppliedKey(m)
  <2>1. /\ plant \in [state : PlantState, boot : Int, mixed : BOOLEAN]
        /\ m.p \in ProposalRecord /\ \A x \in net : x.version \in Int
    BY <1>1 DEF AuthorizationInv, AuthorizationTypeOK
  <2>2. /\ plant'.state = Transition(m.p, plant.state) /\ plant'.boot = plant.boot
    BY <1>4, <2>1 DEF PlantApply
  <2>3. plant.state.version \in Int /\ plant'.state.version = plant.state.version + 1
    BY <2>1, <2>2, TransitionType DEF PlantState
  <2>4. /\ DOMAIN applied' = DOMAIN applied \cup {key}
        /\ \A k \in DOMAIN applied' :
              applied'[k] = AppliedTimes(k) + (IF k = key THEN 1 ELSE 0)
    BY <1>4 DEF PlantApply
  <2>5. key.id = m.id /\ key.boot = plant.boot
    BY DEF AppliedKey
  <2>6. m.version = plant.state.version
    BY <1>4 DEF StillCurrent
  <2> HIDE DEF key
  <2>7. key \notin DOMAIN applied
    <3>1. SUFFICES ASSUME key \in DOMAIN applied PROVE FALSE
      OBVIOUS
    <3>2. m.version < plant.state.version
      BY <1>1, <2>5, <3>1 DEF DeliveryInv, AppliedSane
    <3>3. QED
      BY <2>3, <2>6, <3>2
  <2>8. ASSUME NEW k \in DOMAIN applied' PROVE AppliedSane(k)'
    <3>1. CASE k = key
      <4>1. applied'[k] = 1
        BY <2>4, <2>7, <3>1 DEF AppliedTimes
      <4>2. \A x \in net : x.id = k.id => x = m
        BY <1>1, <2>5, <3>1 DEF DeliveryInv
      <4>3. plant.boot \in Int
        BY <2>1
      <4>4. QED
        BY <1>1, <2>2, <2>3, <2>5, <2>6, <3>1, <4>1, <4>2, <4>3 DEF AppliedSane
    <3>2. CASE k # key
      <4>1. k \in DOMAIN applied /\ AppliedSane(k)
        BY <2>4, <3>2 DEF DeliveryInv
      <4>2. applied'[k] = 1
        BY <2>4, <3>2, <4>1 DEF AppliedTimes, AppliedSane
      <4>3. k.boot = plant.boot =>
               \A x \in net : x.id = k.id => x.version < plant'.state.version
        BY <2>1, <2>3, <4>1 DEF AppliedSane
      <4>4. QED
        BY <1>1, <2>2, <4>1, <4>2, <4>3 DEF AppliedSane
    <3>3. QED
      BY <3>1, <3>2
  <2>9. LedgerRemembers => LedgerRemembers'
    <3>1. SUFFICES ASSUME LedgerRemembers PROVE LedgerRemembers'
      OBVIOUS
    <3>2. \A x \in calls' : x.id # m.id
      BY <1>1 DEF DeliveryInv, AuthorizationInv, AuthorizationTypeOK
    <3>3. QED
      BY <1>1, <2>4, <2>5, <3>1, <3>2 DEF LedgerRemembers
  <2>10. QED
    BY <1>1, <2>8, <2>9 DEF DeliveryInv
<1>5. QED
  BY <1>3, <1>4

LEMMA NextDelivery == AuthorizationInv /\ DeliveryInv /\ [Next]_vars => DeliveryInv'
<1> SUFFICES ASSUME AuthorizationInv, DeliveryInv, [Next]_vars PROVE DeliveryInv'
  OBVIOUS
<1>1. ledger \in [nonces : SUBSET Int, readable : BOOLEAN] /\ plant.boot \in Int
  BY DEF DeliveryInv, AuthorizationInv, AuthorizationTypeOK
<1>2. ASSUME UNCHANGED <<config, granted, net, applied, calls, ledger, plant>>
      PROVE  DeliveryInv'
  <2>1. \A k \in DOMAIN applied : AppliedSane(k)'
    BY <1>2 DEF DeliveryInv, AppliedSane
  <2>2. QED
    BY <1>1, <1>2, <2>1, QuietDelivery
<1>3. CASE UNCHANGED vars
  BY <1>2, <1>3 DEF vars
<1>4. CASE Tick \/ Observe \/ GatewayRestart \/ OtRestart \/ \E g \in Revocable : Revoke(g)
  BY <1>2, <1>4 DEF Tick, Observe, GatewayRestart, OtRestart, Revoke
<1>5. CASE \E h \in Handlers, r \in Requests, answer \in Answers :
             \E o \in Range(cache) : BeginDecide(h, r, o, answer)
  BY <1>2, <1>5 DEF BeginDecide
<1>6. CASE LedgerFault
  <2>1. UNCHANGED <<config, granted, net, applied, calls, plant>>
    BY <1>6 DEF LedgerFault
  <2>2. /\ ledger'.nonces = ledger.nonces
        /\ ledger' \in [nonces : SUBSET Int, readable : BOOLEAN]
    BY <1>1, <1>6 DEF LedgerFault
  <2>3. \A k \in DOMAIN applied : AppliedSane(k)'
    BY <2>1 DEF DeliveryInv, AppliedSane
  <2>4. QED
    BY <2>1, <2>2, <2>3, QuietDelivery
<1>7. CASE PlantRestart
  <2>1. UNCHANGED <<config, granted, net, applied, calls, ledger>> /\ plant'.boot = plant.boot + 1
    BY <1>7 DEF PlantRestart
  <2>2. \A k \in DOMAIN applied : AppliedSane(k)'
    BY <1>1, <2>1 DEF DeliveryInv, AppliedSane
  <2>3. QED
    BY <1>1, <2>1, <2>2, QuietDelivery
<1>8. QED
  BY <1>3, <1>4, <1>5, <1>6, <1>7, FinishDelivery, AdmitDelivery, ApplyDelivery DEF Next

\* A permit changes one life of the plant at most once, and with the durable ledger all
\* its lives together, however often it is delivered and whoever restarts (ot_execute,
\* MutableSurrogatePlant.execute).
THEOREM AppliedOnce == Spec => []AppliedAtMostOnce
<1>1. AuthorizationInv /\ DeliveryInv => AppliedAtMostOnce
  BY DEF DeliveryInv, AppliedSane, LedgerRemembers, AppliedAtMostOnce
<1>2. QED
  BY <1>1, InitDelivery, NextDelivery, AuthorizationInvariant, PTL DEF Spec

------------------------------------------------------------------------------
(***************************************************************************)
(* Durable files.                                                          *)
(***************************************************************************)
(***************************************************************************)
(* The inductive invariant.  The lock of a store makes its holder the only *)
(* process that changes the file, so what the holder loaded or wrote last  *)
(* stays true: its memory is the file until it replaces it, the file is    *)
(* the next write until it is confirmed, and every write told of is at or  *)
(* below its memory.  The command and the runtimes never overlap.          *)
(***************************************************************************)
Holding == {"locked", "loaded", "temporary", "replace", "sync", "confirm", "serving"}
Places == {"down", "open", "assign", "cleanup"} \cup Holding

ProcessRecord ==
    [pc : Places, at : Int, locked : BOOLEAN, memory : Int, next : Int,
     unusable : BOOLEAN]

DurableTypeOK ==
    /\ file \in [StoreNames -> Int]
    /\ lockFile \in [StoreNames -> BOOLEAN]
    /\ synced \in [StoreNames -> [file : Int, lockFile : BOOLEAN]]
    /\ litter \in [StoreNames -> BOOLEAN]
    /\ process \in [Processes -> ProcessRecord]
    /\ provisioned \in BOOLEAN
    /\ answered \in [StoreNames -> Seq(Int)]
    /\ upsets \in Nat

\* The flock is held in exactly the places after opening, and every process that is
\* up works on one of the two stores.
PlaceSane(p) ==
    /\ process[p].pc # "down" => process[p].at \in 1..2
    /\ process[p].locked <=> process[p].pc \in Holding

OneHolder ==
    \A p, q \in Processes :
        /\ process[p].pc \in Holding /\ process[q].pc \in Holding
        /\ process[p].at = process[q].at
        => p = q

Phases ==
    /\ provisioned => process[Initializer].pc = "down"
    /\ ~provisioned => /\ \A p \in Runtimes : process[p].pc = "down"
                       /\ \A k \in StoreNames : answered[k] = <<>>
    /\ process[Initializer].pc \notin {"loaded", "serving"}
    /\ \A p \in Runtimes : process[p].pc \notin {"assign", "cleanup"}

ToldUpTo(k, n) == \A i \in DOMAIN answered[k] : answered[k][i] <= n

WriterSane(p) ==
    LET me == process[p] IN
    /\ me.pc \notin {"down", "serving"} => ~me.unusable
    /\ me.pc \in {"loaded", "temporary", "replace"} => me.memory = file[Store(p)]
    /\ me.pc = "serving" /\ ~me.unusable => me.memory = file[Store(p)]
    /\ me.pc \in {"temporary", "replace", "sync", "confirm"} => me.next = me.memory + 1
    /\ me.pc \in {"sync", "confirm"} => file[Store(p)] = me.next
    /\ me.pc = "confirm" => synced[Store(p)].file = me.next
    /\ me.pc \in Holding \ {"locked"} => ToldUpTo(Store(p), me.memory)

AnswersKept ==
    \A k \in StoreNames : \A i \in DOMAIN answered[k] :
        /\ answered[k][i] <= file[k] /\ answered[k][i] <= synced[k].file
        /\ \A j \in 1..(i - 1) : answered[k][j] < answered[k][i]

DurableInv ==
    /\ DurableTypeOK
    /\ \A p \in Processes : PlaceSane(p)
    /\ OneHolder
    /\ Phases
    /\ \A p \in Runtimes : WriterSane(p)
    /\ AnswersKept

-------------------------------------------------------------------------------
LEMMA StoreFacts ==
    ASSUME DurableInv, NEW p \in Processes, process[p].at \in 1..2
    PROVE  /\ Store(p) \in StoreNames
           /\ Store(p) = IF process[p].at = 1 THEN "journal" ELSE "plant"
BY DEF Store, Stores, StoreNames

LEMMA DownIsRecord == Down \in ProcessRecord
BY DEF Down, ProcessRecord, Places, Missing

\* The fields of a record after an EXCEPT, in the forms the actions use.
LEMMA Opened ==
    ASSUME NEW at \in 1..2, NEW pc \in {"open", "assign"}
    PROVE  LET v == [Down EXCEPT !.pc = pc, !.at = at] IN
           /\ v \in ProcessRecord
           /\ v.pc = pc /\ v.at = at /\ v.locked = FALSE /\ v.unusable = FALSE
<1>1. Down \in ProcessRecord /\ Down.locked = FALSE /\ Down.unusable = FALSE
  BY DownIsRecord DEF Down
<1>2. at \in Int
  OBVIOUS
<1>3. \A r \in ProcessRecord :
        LET v == [r EXCEPT !.pc = pc, !.at = at] IN
        /\ v \in ProcessRecord
        /\ v.pc = pc /\ v.at = at /\ v.locked = r.locked /\ v.unusable = r.unusable
  BY <1>2 DEF ProcessRecord, Places
<1>4. QED
  BY <1>1, <1>3

LEMMA Moved ==
    ASSUME NEW r \in ProcessRecord, NEW pc \in Places
    PROVE  LET v == [r EXCEPT !.pc = pc] IN
           /\ v \in ProcessRecord
           /\ v.pc = pc /\ v.at = r.at /\ v.locked = r.locked /\ v.memory = r.memory
           /\ v.next = r.next /\ v.unusable = r.unusable
BY DEF ProcessRecord

LEMMA MovedNext ==
    ASSUME NEW r \in ProcessRecord, NEW pc \in Places, NEW n \in Int
    PROVE  LET v == [r EXCEPT !.pc = pc, !.next = n] IN
           /\ v \in ProcessRecord
           /\ v.pc = pc /\ v.at = r.at /\ v.locked = r.locked /\ v.memory = r.memory
           /\ v.next = n /\ v.unusable = r.unusable
BY DEF ProcessRecord

LEMMA MovedLocked ==
    ASSUME NEW r \in ProcessRecord, NEW pc \in Places, NEW b \in BOOLEAN
    PROVE  LET v == [r EXCEPT !.pc = pc, !.locked = b] IN
           /\ v \in ProcessRecord
           /\ v.pc = pc /\ v.at = r.at /\ v.locked = b /\ v.unusable = r.unusable
BY DEF ProcessRecord

LEMMA InitDurableInv == DurableInit => DurableInv
<1> SUFFICES ASSUME DurableInit PROVE DurableInv
  OBVIOUS
<1>1. DurableTypeOK
  <2>1. <<>> \in Seq(Int) /\ Missing \in Int
    BY DEF Missing
  <2>2. answered \in [StoreNames -> Seq(Int)]
    BY <2>1 DEF DurableInit
  <2>3. process \in [Processes -> ProcessRecord]
    BY DownIsRecord DEF DurableInit
  <2>4. /\ file \in [StoreNames -> Int] /\ lockFile \in [StoreNames -> BOOLEAN]
        /\ synced \in [StoreNames -> [file : Int, lockFile : BOOLEAN]]
        /\ litter \in [StoreNames -> BOOLEAN]
    BY <2>1 DEF DurableInit
  <2>5. QED
    BY <2>2, <2>3, <2>4 DEF DurableInit, DurableTypeOK
<1>2. \A p \in Processes : process[p].pc = "down" /\ ~process[p].locked /\ ~process[p].unusable
  BY DEF DurableInit, Down
<1>3. (\A p \in Processes : PlaceSane(p)) /\ OneHolder
  BY <1>2 DEF PlaceSane, OneHolder, Holding
<1>4. Phases /\ AnswersKept
  BY <1>2 DEF DurableInit, Phases, AnswersKept, Processes
<1>5. \A p \in Runtimes : WriterSane(p)
  BY <1>2 DEF WriterSane, Holding, Processes
<1>6. QED
  BY <1>1, <1>3, <1>4, <1>5 DEF DurableInv

(***************************************************************************)
(* A step that changes only what a process is about: enough to know that   *)
(* process afterwards, that it takes no lock another one holds, and that   *)
(* command and runtimes stay apart.                                        *)
(***************************************************************************)
LEMMA OwnStep ==
    ASSUME DurableInv, NEW p \in Processes, NEW v \in ProcessRecord,
           process' = [process EXCEPT ![p] = v],
           UNCHANGED <<file, synced, answered, provisioned>>,
           lockFile' \in [StoreNames -> BOOLEAN], litter' \in [StoreNames -> BOOLEAN],
           upsets' \in Nat,
           PlaceSane(p)', p \in Runtimes => WriterSane(p)',
           \A q \in Processes : /\ v.pc \in Holding /\ process[q].pc \in Holding
                                /\ v.at = process[q].at
                                => q = p,
           v.pc # "down" => (provisioned <=> p \in Runtimes),
           IF p = Initializer THEN v.pc \notin {"loaded", "serving"}
                              ELSE v.pc \notin {"assign", "cleanup"}
    PROVE  DurableInv'
<1> USE DEF DurableInv
<1>1. /\ process'[p] = v
      /\ \A q \in Processes : q # p => process'[q] = process[q]
  BY DEF DurableTypeOK
<1>2. DurableTypeOK'
  BY DEF DurableTypeOK
<1>3. \A q \in Processes : PlaceSane(q)'
  BY <1>1 DEF PlaceSane
<1>4. OneHolder'
  BY <1>1 DEF OneHolder
<1>5. Phases'
  BY <1>1, DurableAssumption DEF Phases, Processes
<1>6. \A q \in Runtimes : WriterSane(q)'
  BY <1>1 DEF WriterSane, Store, ToldUpTo, Processes
<1>7. AnswersKept'
  BY DEF AnswersKept
<1>8. QED
  BY <1>2, <1>3, <1>4, <1>5, <1>6, <1>7

\* A process that goes down changes nothing else.
LEMMA DownStep ==
    ASSUME DurableInv, NEW p \in Processes, Set(p, Down),
           UNCHANGED <<file, synced, answered, provisioned>>,
           lockFile' \in [StoreNames -> BOOLEAN], litter' \in [StoreNames -> BOOLEAN],
           upsets' \in Nat
    PROVE  DurableInv'
<1>1. process' = [process EXCEPT ![p] = Down] /\ process'[p] = Down
  BY DEF Set, DurableInv, DurableTypeOK
<1>2. Down.pc = "down" /\ Down.locked = FALSE /\ Down.unusable = FALSE
  BY DEF Down
<1>3. PlaceSane(p)' /\ WriterSane(p)'
  BY <1>1, <1>2 DEF PlaceSane, WriterSane, Holding
<1>4. QED
  BY <1>1, <1>2, <1>3, OwnStep, DownIsRecord DEF Holding

-------------------------------------------------------------------------------
(* Opening a store. *)

LEMMA BeginProvisioningStep == DurableInv /\ BeginProvisioning => DurableInv'
<1> SUFFICES ASSUME DurableInv, BeginProvisioning PROVE DurableInv'
  OBVIOUS
<1> DEFINE v == [Down EXCEPT !.pc = "open", !.at = 1]
<1>1. /\ process' = [process EXCEPT ![Initializer] = v] /\ ~provisioned
      /\ UNCHANGED <<file, synced, answered, provisioned, lockFile, litter, upsets>>
  BY DEF BeginProvisioning, Set, OnlyProcess
<1>2. /\ v \in ProcessRecord /\ v.pc = "open" /\ v.at = 1 /\ v.locked = FALSE
  <2>1. 1 \in 1..2
    OBVIOUS
  <2>2. QED
    BY <2>1, Opened, Zenon
<1>3. process'[Initializer] = v /\ Initializer \in Processes
  BY <1>1 DEF DurableInv, DurableTypeOK, Processes
<1>4. PlaceSane(Initializer)'
  BY <1>2, <1>3 DEF PlaceSane, Holding
<1> HIDE DEF v
<1>5. QED
  BY <1>1, <1>2, <1>3, <1>4, OwnStep, DurableAssumption DEF Holding, DurableInv, DurableTypeOK

LEMMA StartRuntimeStep ==
    ASSUME DurableInv, NEW p \in Runtimes, NEW at \in DOMAIN Stores, StartRuntime(p, at)
    PROVE  DurableInv'
<1> DEFINE v == [Down EXCEPT !.pc = "open", !.at = at]
<1>1. /\ process' = [process EXCEPT ![p] = v] /\ provisioned
      /\ UNCHANGED <<file, synced, answered, provisioned, lockFile, litter, upsets>>
  BY DEF StartRuntime, Set, OnlyProcess
<1>2. at \in 1..2
  BY DEF Stores
<1>3. v \in ProcessRecord /\ v.pc = "open" /\ v.at = at /\ v.locked = FALSE /\ v.unusable = FALSE
  BY <1>2, Opened
<1>4. process'[p] = v /\ p \in Processes
  BY <1>1 DEF DurableInv, DurableTypeOK, Processes
<1>5. PlaceSane(p)' /\ WriterSane(p)'
  BY <1>2, <1>3, <1>4 DEF PlaceSane, WriterSane, Holding
<1> HIDE DEF v
<1>6. QED
  BY <1>1, <1>3, <1>4, <1>5, OwnStep, DurableAssumption DEF Holding, DurableInv, DurableTypeOK

\* Up means the right side of the hand-over, for a process that is not down.
LEMMA UpSide ==
    ASSUME DurableInv, NEW p \in Processes, process[p].pc # "down"
    PROVE  provisioned <=> p \in Runtimes
BY DurableAssumption DEF DurableInv, Phases, Processes

\* The lock is free: nobody else is at this store.
LEMMA LockFree ==
    ASSUME DurableInv, NEW p \in Processes, process[p].at \in 1..2, ~Locked(Store(p)),
           NEW q \in Processes, process[q].pc \in Holding
    PROVE  process[q].at # process[p].at
BY DEF DurableInv, Locked, Store, PlaceSane

LEMMA OpenLockStep ==
    ASSUME DurableInv, NEW p \in Processes, OpenLock(p)
    PROVE  DurableInv'
<1>1. /\ process[p] \in ProcessRecord /\ process[p].pc = "open" /\ process[p].at \in 1..2
      /\ process[p].locked = FALSE
      /\ p \in Runtimes => process[p].unusable = FALSE
      /\ UNCHANGED <<file, synced, answered, provisioned, litter, upsets>>
      /\ lockFile \in [StoreNames -> BOOLEAN] /\ litter \in [StoreNames -> BOOLEAN]
      /\ upsets \in Nat /\ process \in [Processes -> ProcessRecord]
  BY DEF OpenLock, DurableInv, DurableTypeOK, PlaceSane, Holding, WriterSane, ProcessRecord
<1>2. provisioned <=> p \in Runtimes
  BY <1>1, UpSide
<1>3. CASE MayOpenLock(p) /\ ~Locked(Store(p))
  <2> DEFINE v == [process[p] EXCEPT !.pc = "locked", !.locked = TRUE]
  <2>1. /\ process' = [process EXCEPT ![p] = v]
        /\ lockFile' = [lockFile EXCEPT ![Store(p)] = TRUE]
    BY <1>3 DEF OpenLock, Set
  <2>2. /\ v \in ProcessRecord /\ v.pc = "locked" /\ v.at = process[p].at
        /\ v.locked = TRUE /\ v.unusable = process[p].unusable
    BY <1>1 DEF ProcessRecord, Places, Holding
  <2>3. process'[p] = v
    BY <1>1, <2>1
  <2> HIDE DEF v
  <2>4. PlaceSane(p)' /\ (p \in Runtimes => WriterSane(p)')
    BY <1>1, <2>2, <2>3 DEF PlaceSane, WriterSane, Holding
  <2>5. \A q \in Processes : process[q].pc \in Holding => process[q].at # v.at
    BY <1>1, <1>3, <2>2, LockFree
  <2>6. QED
    BY <1>1, <1>2, <2>1, <2>2, <2>4, <2>5, OwnStep
<1>4. CASE ~(MayOpenLock(p) /\ ~Locked(Store(p))) /\ p # Initializer
  <2>1. Set(p, Down) /\ UNCHANGED lockFile
    BY <1>4 DEF OpenLock
  <2>2. QED
    BY <1>1, <2>1, DownStep
<1>5. CASE ~(MayOpenLock(p) /\ ~Locked(Store(p))) /\ p = Initializer
  <2> DEFINE v == [process[p] EXCEPT !.pc = "cleanup"]
  <2>1. process' = [process EXCEPT ![p] = v] /\ UNCHANGED lockFile
    BY <1>5 DEF OpenLock, Set
  <2>2. v \in ProcessRecord /\ v.pc = "cleanup" /\ v.at = process[p].at /\ v.locked = FALSE
    BY <1>1 DEF ProcessRecord, Places, Holding
  <2>3. process'[p] = v
    BY <1>1, <2>1
  <2> HIDE DEF v
  <2>4. PlaceSane(p)' /\ p \notin Runtimes
    BY <1>1, <1>5, <2>2, <2>3, DurableAssumption DEF PlaceSane, Holding
  <2>5. QED
    BY <1>1, <1>2, <1>5, <2>1, <2>2, <2>4, OwnStep DEF Holding
<1>6. QED
  BY <1>3, <1>4, <1>5

\* A holder that moves on to another place under its lock.
LEMMA HolderStep ==
    ASSUME DurableInv, NEW p \in Processes, process[p].pc \in Holding,
           NEW v \in ProcessRecord, process' = [process EXCEPT ![p] = v],
           v.pc \in Holding, v.at = process[p].at, v.locked = TRUE,
           UNCHANGED <<file, lockFile, synced, litter, answered, provisioned>>,
           upsets' \in Nat,
           p \in Runtimes => WriterSane(p)',
           p = Initializer => v.pc \notin {"loaded", "serving"}
    PROVE  DurableInv'
<1>1. process'[p] = v /\ process[p].at \in 1..2
  BY DEF DurableInv, DurableTypeOK, PlaceSane, Holding
<1>2. PlaceSane(p)'
  BY <1>1 DEF PlaceSane
<1>3. provisioned <=> p \in Runtimes
  BY UpSide DEF Holding
<1>4. \A q \in Processes : process[q].pc \in Holding /\ v.at = process[q].at => q = p
  BY DEF DurableInv, OneHolder
<1>5. QED
  BY <1>2, <1>3, <1>4, OwnStep DEF Holding, DurableInv, DurableTypeOK

\* What holds of a process under its lock.
LEMMA HolderFacts ==
    ASSUME DurableInv, NEW p \in Processes, process[p].pc \in Holding
    PROVE  /\ process \in [Processes -> ProcessRecord]
           /\ process[p] \in ProcessRecord
           /\ process[p].at \in 1..2
           /\ process[p].locked = TRUE
           /\ Store(p) \in StoreNames
           /\ p \in Runtimes /\ process[p].pc # "serving" => process[p].unusable = FALSE
           /\ file[Store(p)] \in Int
<1>1. /\ process \in [Processes -> ProcessRecord] /\ process[p] \in ProcessRecord
      /\ process[p].at \in 1..2 /\ process[p].locked = TRUE
  BY DEF DurableInv, DurableTypeOK, PlaceSane, Holding, ProcessRecord
<1>2. Store(p) \in StoreNames
  BY <1>1, StoreFacts
<1>3. p \in Runtimes /\ process[p].pc # "serving" => process[p].unusable = FALSE
  BY <1>1 DEF DurableInv, WriterSane, Holding, ProcessRecord
<1>4. QED
  BY <1>1, <1>2, <1>3 DEF DurableInv, DurableTypeOK

\* The command gives up: it drops the lock and goes on to clean up.
LEMMA CleanupStep ==
    ASSUME DurableInv, process[Initializer].pc # "down",
           Set(Initializer, [process[Initializer] EXCEPT !.pc = "cleanup", !.locked = FALSE]),
           UNCHANGED <<file, lockFile, synced, litter, answered, provisioned>>,
           upsets' \in Nat
    PROVE  DurableInv'
<1> DEFINE v == [process[Initializer] EXCEPT !.pc = "cleanup", !.locked = FALSE]
<1>1. Initializer \in Processes /\ Initializer \notin Runtimes
  BY DurableAssumption DEF Processes
<1>2. process[Initializer] \in ProcessRecord /\ process[Initializer].at \in 1..2
  BY <1>1 DEF DurableInv, DurableTypeOK, PlaceSane
<1>3. process' = [process EXCEPT ![Initializer] = v]
  BY DEF Set
<1>4. v \in ProcessRecord /\ v.pc = "cleanup" /\ v.at = process[Initializer].at /\ v.locked = FALSE
  BY <1>2, MovedLocked DEF Places
<1> HIDE DEF v
<1>5. process'[Initializer] = v
  BY <1>1, <1>3 DEF DurableInv, DurableTypeOK
<1>6. PlaceSane(Initializer)'
  BY <1>2, <1>4, <1>5 DEF PlaceSane, Holding
<1>7. provisioned <=> Initializer \in Runtimes
  BY <1>1, UpSide
<1>8. QED
  BY <1>1, <1>3, <1>4, <1>6, <1>7, OwnStep DEF Holding, DurableInv, DurableTypeOK

LEMMA CreateEmptyStep == DurableInv /\ CreateEmpty => DurableInv'
<1> SUFFICES ASSUME DurableInv, CreateEmpty PROVE DurableInv'
  OBVIOUS
<1>1. Initializer \in Processes /\ Initializer \notin Runtimes
  BY DurableAssumption DEF Processes
<1>2. /\ process[Initializer].pc = "locked" /\ process[Initializer].pc \in Holding
      /\ UNCHANGED <<file, lockFile, synced, litter, answered, provisioned, upsets>>
      /\ upsets \in Nat
  BY DEF CreateEmpty, Holding, OnlyProcess, DurableInv, DurableTypeOK
<1>3. CASE file[Store(Initializer)] = Missing
  <2> DEFINE v == [process[Initializer] EXCEPT !.pc = "temporary", !.next = 0]
  <2>1. process' = [process EXCEPT ![Initializer] = v]
    BY <1>3 DEF CreateEmpty, Set
  <2>2. /\ v \in ProcessRecord /\ v.pc = "temporary" /\ v.at = process[Initializer].at
        /\ v.locked = TRUE
    <3>1. process[Initializer] \in ProcessRecord /\ process[Initializer].locked = TRUE
      BY <1>1, <1>2, HolderFacts
    <3>2. 0 \in Int /\ "temporary" \in Places
      BY DEF Places, Holding
    <3>3. QED
      BY <3>1, <3>2, MovedNext, Zenon
  <2> HIDE DEF v
  <2>3. QED
    BY <1>1, <1>2, <2>1, <2>2, HolderStep DEF Holding
<1>4. CASE file[Store(Initializer)] # Missing
  BY <1>2, <1>4, CleanupStep DEF CreateEmpty
<1>5. QED
  BY <1>3, <1>4

LEMMA LoadStep ==
    ASSUME DurableInv, NEW p \in Runtimes, LoadJournal(p) \/ LoadCheckpoint(p)
    PROVE  DurableInv'
<1> DEFINE pc == IF LoadJournal(p) THEN "serving" ELSE "loaded"
           v == [process[p] EXCEPT !.pc = pc, !.memory = file[Store(p)]]
<1>1. p \in Processes
  BY DEF Processes
<1>2. /\ process[p].pc = "locked" /\ process[p].pc \in Holding
      /\ UNCHANGED <<file, lockFile, synced, litter, answered, provisioned, upsets>>
      /\ upsets \in Nat /\ lockFile \in [StoreNames -> BOOLEAN]
      /\ litter \in [StoreNames -> BOOLEAN]
  BY DEF LoadJournal, LoadCheckpoint, Holding, OnlyProcess, DurableInv, DurableTypeOK
<1>3. CASE file[Store(p)] = Missing
  <2>1. Set(p, Down)
    BY <1>3 DEF LoadJournal, LoadCheckpoint
  <2>2. QED
    BY <1>1, <1>2, <2>1, DownStep
<1>4. CASE file[Store(p)] # Missing
  <2>1. process' = [process EXCEPT ![p] = v]
    BY <1>4 DEF LoadJournal, LoadCheckpoint, Set
  <2>2. /\ v \in ProcessRecord /\ v.pc \in {"serving", "loaded"} /\ v.at = process[p].at
        /\ v.locked = TRUE /\ v.unusable = FALSE /\ v.memory = file[Store(p)]
    <3>1. /\ process[p] \in ProcessRecord /\ process[p].locked = TRUE
          /\ process[p].unusable = FALSE /\ file[Store(p)] \in Int
      BY <1>1, <1>2, HolderFacts
    <3>2. QED
      BY <3>1 DEF ProcessRecord, Places, Holding
  <2> HIDE DEF v
  <2>3. process'[p] = v /\ Store(p)' = Store(p) /\ Store(p) \in StoreNames
    BY <1>1, <1>2, <2>1, <2>2, HolderFacts DEF Store
  <2>4. ToldUpTo(Store(p), file[Store(p)])
    BY <2>3 DEF DurableInv, AnswersKept, ToldUpTo
  <2>5. WriterSane(p)'
    BY <1>2, <2>2, <2>3, <2>4 DEF WriterSane, ToldUpTo
  <2>6. p # Initializer
    BY DurableAssumption
  <2>7. QED
    BY <1>1, <1>2, <2>1, <2>2, <2>5, <2>6, HolderStep DEF Holding
<1>5. QED
  BY <1>3, <1>4

\* The baseline, a record or a checkpoint: the write is one more than the memory, and
\* the memory is the file.
LEMMA BeginWriteStep ==
    ASSUME DurableInv, NEW p \in Runtimes,
           InstallBaseline(p) \/ StoreRecord(p) \/ CommitCheckpoint(p)
    PROVE  DurableInv'
<1> DEFINE v == [process[p] EXCEPT !.pc = "temporary", !.next = process[p].memory + 1]
<1>1. p \in Processes /\ p # Initializer
  BY DurableAssumption DEF Processes
<1>2. /\ process[p].pc \in {"loaded", "serving"} /\ process[p].pc \in Holding
      /\ ~process[p].unusable
      /\ UNCHANGED <<file, lockFile, synced, litter, answered, provisioned, upsets>>
      /\ upsets \in Nat
  BY DEF InstallBaseline, StoreRecord, CommitCheckpoint, VerifiedState, Holding,
         OnlyProcess, DurableInv, DurableTypeOK, WriterSane
<1>3. process' = [process EXCEPT ![p] = v]
  <2>1. CASE InstallBaseline(p)
    <3>1. process[p].memory + 1 = 1
      BY <2>1 DEF InstallBaseline, NoBaseline
    <3>2. QED
      BY <2>1, <3>1 DEF InstallBaseline, Set
  <2>2. CASE StoreRecord(p) \/ CommitCheckpoint(p)
    BY <2>2 DEF StoreRecord, CommitCheckpoint, Set
  <2>3. QED
    BY <2>1, <2>2
<1>4. /\ v \in ProcessRecord /\ v.pc = "temporary" /\ v.at = process[p].at /\ v.locked = TRUE
      /\ v.unusable = process[p].unusable /\ v.memory = process[p].memory
      /\ v.next = process[p].memory + 1
  <2>1. process[p] \in ProcessRecord /\ process[p].locked = TRUE
    BY <1>1, <1>2, HolderFacts
  <2>2. process[p].memory + 1 \in Int
    BY <2>1 DEF ProcessRecord
  <2>3. QED
    BY <2>1, <2>2 DEF ProcessRecord, Places, Holding
<1> HIDE DEF v
<1>5. process'[p] = v /\ Store(p)' = Store(p)
  BY <1>1, <1>2, <1>3, <1>4, HolderFacts DEF Store
<1>6. /\ process[p].memory = file[Store(p)]
      /\ ToldUpTo(Store(p), process[p].memory)
  BY <1>2 DEF DurableInv, WriterSane, Holding
<1>7. WriterSane(p)'
  BY <1>2, <1>4, <1>5, <1>6 DEF WriterSane, ToldUpTo
<1>8. QED
  BY <1>1, <1>2, <1>3, <1>4, <1>7, HolderStep DEF Holding

\* A restored plant serves or does not start, and a deadline that passed leaves the plant as it was.
LEMMA ServeStep ==
    ASSUME DurableInv, NEW p \in Runtimes, RestoreState(p) \/ DeadlinePassed(p)
    PROVE  DurableInv'
<1> DEFINE v == [process[p] EXCEPT !.pc = "serving"]
<1>1. p \in Processes /\ p # Initializer
  BY DurableAssumption DEF Processes
<1>2. /\ process[p].pc \in {"loaded", "replace"} /\ process[p].pc \in Holding
      /\ UNCHANGED <<file, lockFile, synced, litter, answered, provisioned, upsets>>
      /\ upsets \in Nat
  BY DEF RestoreState, DeadlinePassed, Holding, OnlyProcess, DurableInv, DurableTypeOK
<1>4. /\ v \in ProcessRecord /\ v.pc = "serving" /\ v.at = process[p].at /\ v.locked = TRUE
      /\ v.unusable = process[p].unusable /\ v.memory = process[p].memory
  BY <1>1, <1>2, HolderFacts, Moved DEF Places, Holding
<1>9. CASE Set(p, Down)
  <2>1. lockFile \in [StoreNames -> BOOLEAN] /\ litter \in [StoreNames -> BOOLEAN]
    BY DEF DurableInv, DurableTypeOK
  <2>2. QED
    BY <1>1, <1>2, <1>9, <2>1, DownStep
<1> SUFFICES ASSUME ~Set(p, Down)  PROVE DurableInv'
  BY <1>9
<1>3. process' = [process EXCEPT ![p] = v]
  BY DEF RestoreState, DeadlinePassed, Goto, Set
<1> HIDE DEF v
<1>5. process'[p] = v /\ Store(p)' = Store(p)
  BY <1>1, <1>2, <1>3, <1>4, HolderFacts DEF Store
<1>6. /\ process[p].memory = file[Store(p)]
      /\ ToldUpTo(Store(p), process[p].memory)
  BY <1>2 DEF DurableInv, WriterSane, Holding
<1>7. WriterSane(p)'
  BY <1>2, <1>4, <1>5, <1>6 DEF WriterSane, ToldUpTo
<1>8. QED
  BY <1>1, <1>2, <1>3, <1>4, <1>7, HolderStep DEF Holding

-------------------------------------------------------------------------------
(* Writing it. *)

LEMMA PersistFailsStep ==
    ASSUME DurableInv, NEW p \in Processes, PersistFails(p),
           process[p].pc \in {"temporary", "replace", "sync"},
           UNCHANGED <<file, lockFile, synced, litter, answered, provisioned>>,
           upsets' \in Nat
    PROVE  DurableInv'
<1>1. process[p].pc \in Holding /\ process[p].pc # "down"
  BY DEF Holding
<1>2. CASE p = Initializer
  BY <1>1, <1>2, CleanupStep DEF PersistFails
<1>3. CASE p # Initializer /\ NoBaseline(p)
  <2>1. Set(p, Down)
    BY <1>3 DEF PersistFails
  <2>2. QED
    BY <2>1, DownStep DEF DurableInv, DurableTypeOK
<1>4. CASE p # Initializer /\ ~NoBaseline(p)
  <2> DEFINE v == [process[p] EXCEPT !.pc = "serving", !.unusable = TRUE]
  <2>1. process' = [process EXCEPT ![p] = v] /\ p \in Runtimes
    BY <1>4 DEF PersistFails, Set, Processes
  <2>2. process[p] \in ProcessRecord /\ process[p].locked = TRUE
    BY <1>1, HolderFacts
  <2>3. /\ v \in ProcessRecord /\ v.pc = "serving" /\ v.at = process[p].at /\ v.locked = TRUE
        /\ v.memory = process[p].memory /\ v.unusable = TRUE
    BY <2>2 DEF ProcessRecord, Places, Holding
  <2> HIDE DEF v
  <2>4. process'[p] = v /\ Store(p)' = Store(p)
    BY <1>1, <2>1, <2>3, HolderFacts DEF Store
  <2>5. ToldUpTo(Store(p), process[p].memory)
    BY <2>1 DEF DurableInv, WriterSane, Holding
  <2>6. WriterSane(p)'
    BY <2>3, <2>4, <2>5 DEF WriterSane, ToldUpTo
  <2>7. QED
    BY <1>1, <1>4, <2>1, <2>3, <2>6, HolderStep DEF Holding
<1>5. QED
  BY <1>2, <1>3, <1>4

LEMMA WriteTemporaryStep ==
    ASSUME DurableInv, NEW p \in Processes, WriteTemporary(p)
    PROVE  DurableInv'
<1>1. /\ process[p].pc = "temporary" /\ process[p].pc \in Holding
      /\ UNCHANGED <<file, lockFile, synced, litter, answered, provisioned>>
      /\ upsets' \in Nat
  BY DEF WriteTemporary, OnlyProcess, Holding, Upset, DurableInv, DurableTypeOK
<1>2. CASE PersistFails(p)
  BY <1>1, <1>2, PersistFailsStep
<1>3. CASE Goto(p, "replace")
  <2> DEFINE v == [process[p] EXCEPT !.pc = "replace"]
  <2>1. process' = [process EXCEPT ![p] = v]
    BY <1>3 DEF Goto, Set
  <2>2. process[p] \in ProcessRecord /\ process[p].locked = TRUE
    BY <1>1, HolderFacts
  <2>3. /\ v \in ProcessRecord /\ v.pc = "replace" /\ v.at = process[p].at /\ v.locked = TRUE
        /\ v.memory = process[p].memory /\ v.next = process[p].next
        /\ v.unusable = process[p].unusable
    BY <2>2 DEF ProcessRecord, Places, Holding
  <2> HIDE DEF v
  <2>4. process'[p] = v /\ Store(p)' = Store(p)
    BY <1>1, <2>1, <2>3, HolderFacts DEF Store
  <2>5. p \in Runtimes => WriterSane(p)'
    BY <1>1, <2>3, <2>4 DEF DurableInv, WriterSane, ToldUpTo, Holding
  <2>6. QED
    BY <1>1, <2>1, <2>3, <2>5, HolderStep DEF Holding
<1>4. QED
  BY <1>2, <1>3 DEF WriteTemporary

\* No other holder is at the store of a holder, so what it does to the file is
\* nobody else's business.
LEMMA OthersElsewhere ==
    ASSUME DurableInv, NEW p \in Processes, process[p].pc \in Holding,
           NEW q \in Processes, q # p, process[q].pc \in Holding
    PROVE  Store(q) # Store(p)
<1>1. process[p].at \in 1..2 /\ process[q].at \in 1..2
  BY HolderFacts
<1>2. process[p].at # process[q].at
  BY DEF DurableInv, OneHolder
<1>3. QED
  BY <1>1, <1>2, StoreFacts

LEMMA ReplaceStep ==
    ASSUME DurableInv, NEW p \in Processes, Replace(p)
    PROVE  DurableInv'
<1>1. /\ process[p].pc = "replace" /\ process[p].pc \in Holding
      /\ UNCHANGED <<lockFile, synced, litter, answered, provisioned>>
      /\ upsets' \in Nat
  BY DEF Replace, OnlyProcess, Holding, Upset, DurableInv, DurableTypeOK
<1>2. CASE PersistFails(p) /\ UNCHANGED file
  BY <1>1, <1>2, PersistFailsStep
<1>3. CASE Goto(p, "sync") /\ file' = [file EXCEPT ![Store(p)] = process[p].next]
  <2> DEFINE v == [process[p] EXCEPT !.pc = "sync"]
  <2>1. process' = [process EXCEPT ![p] = v]
    BY <1>3 DEF Goto, Set
  <2>2. /\ process[p] \in ProcessRecord /\ process[p].locked = TRUE /\ Store(p) \in StoreNames
        /\ process[p].at \in 1..2
    BY <1>1, HolderFacts
  <2>3. /\ v \in ProcessRecord /\ v.pc = "sync" /\ v.at = process[p].at /\ v.locked = TRUE
        /\ v.memory = process[p].memory /\ v.next = process[p].next
        /\ v.unusable = process[p].unusable
    BY <2>2 DEF ProcessRecord, Places, Holding
  <2>4. process[p].next \in Int /\ process[p].memory \in Int
    BY <2>2 DEF ProcessRecord
  <2> HIDE DEF v
  <2>5. /\ process'[p] = v /\ Store(p)' = Store(p)
        /\ \A q \in Processes : q # p => process'[q] = process[q] /\ Store(q)' = Store(q)
    BY <2>1, <2>3 DEF Store, DurableInv, DurableTypeOK
  <2>6. /\ file'[Store(p)] = process[p].next
        /\ \A k \in StoreNames : k # Store(p) => file'[k] = file[k]
        /\ file' \in [StoreNames -> Int]
    BY <1>3, <2>2, <2>4 DEF DurableInv, DurableTypeOK
  <2>7. DurableTypeOK'
    BY <1>1, <2>1, <2>3, <2>6 DEF DurableInv, DurableTypeOK
  <2>8. \A q \in Processes : PlaceSane(q)'
    BY <2>2, <2>3, <2>5 DEF DurableInv, PlaceSane, Holding
  <2>9. OneHolder'
    BY <1>1, <2>3, <2>5 DEF DurableInv, OneHolder
  <2>10. Phases'
    BY <1>1, <2>3, <2>5, DurableAssumption DEF DurableInv, Phases, Processes
  <2>11. ASSUME NEW q \in Runtimes PROVE WriterSane(q)'
    <3>1. CASE q = p
      BY <1>1, <2>3, <2>5, <2>6, <3>1 DEF DurableInv, WriterSane, ToldUpTo, Holding
    <3>2. CASE q # p /\ process[q].pc \in Holding
      <4>1. q \in Processes /\ Store(q) # Store(p) /\ Store(q) \in StoreNames
        BY <1>1, <3>2, OthersElsewhere, HolderFacts DEF Processes
      <4>2. QED
        BY <1>1, <2>5, <2>6, <3>2, <4>1 DEF DurableInv, WriterSane, ToldUpTo
    <3>3. CASE q # p /\ process[q].pc \notin Holding
      BY <2>5, <3>3 DEF DurableInv, WriterSane, Holding, Processes
    <3>4. QED
      BY <3>1, <3>2, <3>3
  <2>12. ASSUME NEW k \in StoreNames, NEW i \in DOMAIN answered[k]
         PROVE  answered[k][i] <= file'[k]
    <3>1. answered[k][i] \in Int /\ file[k] \in Int /\ answered[k][i] <= file[k]
      BY DEF DurableInv, DurableTypeOK, AnswersKept
    <3>2. CASE k # Store(p)
      BY <2>6, <3>1, <3>2
    <3>3. CASE k = Store(p)
      <4>1. p \in Runtimes
        BY <1>1, <3>1, UpSide DEF DurableInv, Phases
      <4>2. answered[k][i] <= process[p].memory /\ process[p].next = process[p].memory + 1
        BY <1>1, <3>3, <4>1 DEF DurableInv, WriterSane, ToldUpTo, Holding
      <4>3. QED
        BY <2>4, <2>6, <3>1, <3>3, <4>2
    <3>4. QED
      BY <3>2, <3>3
  <2>13. AnswersKept'
    BY <1>1, <2>12 DEF DurableInv, AnswersKept
  <2>14. QED
    BY <2>7, <2>8, <2>9, <2>10, <2>11, <2>13 DEF DurableInv
<1>4. QED
  BY <1>2, <1>3 DEF Replace

LEMMA SyncDirectoryStep ==
    ASSUME DurableInv, NEW p \in Processes, SyncDirectory(p)
    PROVE  DurableInv'
<1>1. /\ process[p].pc = "sync" /\ process[p].pc \in Holding
      /\ UNCHANGED <<file, lockFile, litter, answered, provisioned>>
      /\ upsets' \in Nat
  BY DEF SyncDirectory, OnlyProcess, Holding, Upset, DurableInv, DurableTypeOK
<1>2. CASE PersistFails(p) /\ UNCHANGED synced
  BY <1>1, <1>2, PersistFailsStep
<1>3. CASE /\ Goto(p, "confirm")
           /\ synced' = [synced EXCEPT ![Store(p)] =
                           [file |-> file[Store(p)], lockFile |-> lockFile[Store(p)]]]
  <2> DEFINE v == [process[p] EXCEPT !.pc = "confirm"]
  <2>1. process' = [process EXCEPT ![p] = v]
    BY <1>3 DEF Goto, Set
  <2>2. /\ process[p] \in ProcessRecord /\ process[p].locked = TRUE /\ Store(p) \in StoreNames
        /\ process[p].at \in 1..2
    BY <1>1, HolderFacts
  <2>3. /\ v \in ProcessRecord /\ v.pc = "confirm" /\ v.at = process[p].at /\ v.locked = TRUE
        /\ v.memory = process[p].memory /\ v.next = process[p].next
        /\ v.unusable = process[p].unusable
    BY <2>2 DEF ProcessRecord, Places, Holding
  <2> HIDE DEF v
  <2>4. /\ process'[p] = v /\ Store(p)' = Store(p)
        /\ \A q \in Processes : q # p => process'[q] = process[q] /\ Store(q)' = Store(q)
    BY <2>1, <2>3 DEF Store, DurableInv, DurableTypeOK
  <2>5. [file |-> file[Store(p)], lockFile |-> lockFile[Store(p)]]
            \in [file : Int, lockFile : BOOLEAN]
    BY <2>2 DEF DurableInv, DurableTypeOK
  <2>6. /\ synced'[Store(p)].file = file[Store(p)]
        /\ \A k \in StoreNames : k # Store(p) => synced'[k] = synced[k]
        /\ synced' \in [StoreNames -> [file : Int, lockFile : BOOLEAN]]
    BY <1>3, <2>2, <2>5 DEF DurableInv, DurableTypeOK
  <2>7. DurableTypeOK'
    BY <1>1, <2>1, <2>3, <2>6 DEF DurableInv, DurableTypeOK
  <2>8. \A q \in Processes : PlaceSane(q)'
    BY <2>2, <2>3, <2>4 DEF DurableInv, PlaceSane, Holding
  <2>9. OneHolder'
    BY <1>1, <2>3, <2>4 DEF DurableInv, OneHolder
  <2>10. Phases'
    BY <1>1, <2>3, <2>4, DurableAssumption DEF DurableInv, Phases, Processes
  <2>11. ASSUME NEW q \in Runtimes PROVE WriterSane(q)'
    <3>1. CASE q = p
      BY <1>1, <2>3, <2>4, <2>6, <3>1 DEF DurableInv, WriterSane, ToldUpTo, Holding
    <3>2. CASE q # p /\ process[q].pc \in Holding
      <4>1. q \in Processes /\ Store(q) # Store(p) /\ Store(q) \in StoreNames
        BY <1>1, <3>2, OthersElsewhere, HolderFacts DEF Processes
      <4>2. QED
        BY <1>1, <2>4, <2>6, <3>2, <4>1 DEF DurableInv, WriterSane, ToldUpTo
    <3>3. CASE q # p /\ process[q].pc \notin Holding
      BY <2>4, <3>3 DEF DurableInv, WriterSane, Holding, Processes
    <3>4. QED
      BY <3>1, <3>2, <3>3
  <2>12. AnswersKept'
    BY <1>1, <2>6 DEF DurableInv, AnswersKept
  <2>13. QED
    BY <2>7, <2>8, <2>9, <2>10, <2>11, <2>12 DEF DurableInv
<1>4. QED
  BY <1>2, <1>3 DEF SyncDirectory

\* One more at the end of an increasing sequence, when it is above all of them.
LEMMA AppendIncreasing ==
    ASSUME NEW s \in Seq(Int), NEW n \in Int,
           \A i \in DOMAIN s : s[i] < n,
           \A i \in DOMAIN s : \A j \in 1..(i - 1) : s[j] < s[i]
    PROVE  LET t == Append(s, n) IN
           /\ t \in Seq(Int)
           /\ \A i \in DOMAIN t : (i \in DOMAIN s /\ t[i] = s[i]) \/ t[i] = n
           /\ \A i \in DOMAIN t : \A j \in 1..(i - 1) : t[j] < t[i]
OBVIOUS

LEMMA ConfirmStep ==
    ASSUME DurableInv, NEW p \in Runtimes, Confirm(p)
    PROVE  DurableInv'
<1> DEFINE v == [process[p] EXCEPT !.pc = "serving", !.memory = process[p].next]
           k == Store(p)
           told == Append(answered[k], process[p].next)
<1>1. /\ p \in Processes /\ process[p].pc = "confirm" /\ process[p].pc \in Holding
      /\ process' = [process EXCEPT ![p] = v]
      /\ UNCHANGED <<file, lockFile, synced, litter, provisioned, upsets>>
      /\ answered' = [answered EXCEPT ![k] = told]
  BY DEF Confirm, Holding, Processes, Set
<1>2. /\ process[p] \in ProcessRecord /\ process[p].locked = TRUE /\ k \in StoreNames
      /\ process[p].at \in 1..2
  BY <1>1, HolderFacts
<1>3. process[p].next \in Int /\ process[p].memory \in Int
  BY <1>2 DEF ProcessRecord
<1>4. /\ v \in ProcessRecord /\ v.pc = "serving" /\ v.at = process[p].at /\ v.locked = TRUE
      /\ v.memory = process[p].next /\ v.unusable = process[p].unusable
  BY <1>2, <1>3 DEF ProcessRecord, Places, Holding
<1> HIDE DEF v
<1>5. /\ process[p].next = process[p].memory + 1
      /\ file[k] = process[p].next /\ synced[k].file = process[p].next
      /\ \A i \in DOMAIN answered[k] : answered[k][i] <= process[p].memory
  BY <1>1 DEF DurableInv, WriterSane, ToldUpTo, Holding
<1>6. answered[k] \in Seq(Int)
  BY <1>2 DEF DurableInv, DurableTypeOK
<1>7. \A i \in DOMAIN answered[k] : answered[k][i] < process[p].next
  <2>1. \A i \in DOMAIN answered[k] : answered[k][i] \in Int
    BY <1>6
  <2>2. QED
    BY <1>3, <1>5, <2>1
<1>8. \A i \in DOMAIN answered[k] : \A j \in 1..(i - 1) : answered[k][j] < answered[k][i]
  BY <1>2 DEF DurableInv, AnswersKept
<1>9. /\ told \in Seq(Int)
      /\ \A i \in DOMAIN told :
            (i \in DOMAIN answered[k] /\ told[i] = answered[k][i]) \/ told[i] = process[p].next
      /\ \A i \in DOMAIN told : \A j \in 1..(i - 1) : told[j] < told[i]
  BY <1>3, <1>6, <1>7, <1>8, AppendIncreasing
<1> HIDE DEF told
<1>10. /\ answered'[k] = told
       /\ \A m \in StoreNames : m # k => answered'[m] = answered[m]
       /\ answered' \in [StoreNames -> Seq(Int)]
  BY <1>1, <1>2, <1>9 DEF DurableInv, DurableTypeOK
<1>11. /\ process'[p] = v /\ Store(p)' = Store(p)
       /\ \A q \in Processes : q # p => process'[q] = process[q] /\ Store(q)' = Store(q)
  BY <1>1, <1>4 DEF Store, DurableInv, DurableTypeOK
<1>12. DurableTypeOK'
  BY <1>1, <1>4, <1>10 DEF DurableInv, DurableTypeOK
<1>13. \A q \in Processes : PlaceSane(q)'
  BY <1>2, <1>4, <1>11 DEF DurableInv, PlaceSane, Holding
<1>14. OneHolder'
  BY <1>1, <1>4, <1>11 DEF DurableInv, OneHolder
<1>15. Phases'
  <2>1. provisioned
    BY <1>1, UpSide
  <2>2. QED
    BY <1>1, <1>4, <1>11, <2>1, DurableAssumption DEF DurableInv, Phases, Processes
<1>16. ASSUME NEW q \in Runtimes PROVE WriterSane(q)'
  <2>1. CASE q = p
    <3>1. \A i \in DOMAIN told : told[i] <= process[p].next
      BY <1>3, <1>7, <1>9
    <3>2. QED
      BY <1>1, <1>4, <1>5, <1>10, <1>11, <2>1, <3>1 DEF WriterSane, ToldUpTo, Holding
  <2>2. CASE q # p /\ process[q].pc \in Holding
    <3>1. q \in Processes /\ Store(q) # k /\ Store(q) \in StoreNames
      BY <1>1, <2>2, OthersElsewhere, HolderFacts DEF Processes
    <3>2. QED
      BY <1>1, <1>10, <1>11, <2>2, <3>1 DEF DurableInv, WriterSane, ToldUpTo
  <2>3. CASE q # p /\ process[q].pc \notin Holding
    BY <1>11, <2>3 DEF DurableInv, WriterSane, Holding, Processes
  <2>4. QED
    BY <2>1, <2>2, <2>3
<1>17. AnswersKept'
  <2>1. ASSUME NEW m \in StoreNames, NEW i \in DOMAIN answered'[m]
        PROVE  /\ answered'[m][i] <= file[m] /\ answered'[m][i] <= synced[m].file
               /\ \A j \in 1..(i - 1) : answered'[m][j] < answered'[m][i]
    <3>1. CASE m # k
      BY <1>10, <3>1 DEF DurableInv, AnswersKept
    <3>2. CASE m = k
      <4>1. answered'[m][i] <= process[p].next
        BY <1>3, <1>7, <1>9, <1>10, <3>2
      <4>2. QED
        BY <1>5, <1>9, <1>10, <3>2, <4>1
    <3>3. QED
      BY <3>1, <3>2
  <2>2. QED
    BY <1>1, <2>1 DEF AnswersKept
<1>18. QED
  BY <1>12, <1>13, <1>14, <1>15, <1>16, <1>17 DEF DurableInv

-------------------------------------------------------------------------------
(* The rest of the provisioning command, and the ends of processes. *)

LEMMA NextArtifactStep == DurableInv /\ NextArtifact => DurableInv'
<1> SUFFICES ASSUME DurableInv, NextArtifact PROVE DurableInv'
  OBVIOUS
<1>1. Initializer \in Processes /\ Initializer \notin Runtimes
  BY DurableAssumption DEF Processes
<1>2. /\ process[Initializer].pc = "confirm" /\ process[Initializer].pc \in Holding
      /\ UNCHANGED <<file, lockFile, synced, litter, answered, provisioned, upsets>>
      /\ upsets \in Nat
  BY DEF NextArtifact, Holding, OnlyProcess, DurableInv, DurableTypeOK
<1>3. process[Initializer].at \in 1..2 /\ ~provisioned
  BY <1>1, <1>2, HolderFacts, UpSide
<1>4. PICK v \in ProcessRecord :
        /\ process' = [process EXCEPT ![Initializer] = v]
        /\ v.pc \in {"open", "assign"} /\ v.at \in 1..2 /\ v.locked = FALSE
  <2>1. CASE process[Initializer].at < Len(Stores)
    <3> DEFINE w == [Down EXCEPT !.pc = "open", !.at = process[Initializer].at + 1]
    <3>1. process' = [process EXCEPT ![Initializer] = w]
      BY <2>1 DEF NextArtifact, Set
    <3>2. process[Initializer].at + 1 \in 1..2
      BY <1>3, <2>1 DEF Stores
    <3>3. w \in ProcessRecord /\ w.pc = "open" /\ w.at \in 1..2 /\ w.locked = FALSE
      BY <3>2, Opened, Zenon
    <3> HIDE DEF w
    <3>4. QED
      BY <3>1, <3>3
  <2>2. CASE ~(process[Initializer].at < Len(Stores))
    <3> DEFINE w == [Down EXCEPT !.pc = "assign", !.at = 1]
    <3>1. process' = [process EXCEPT ![Initializer] = w]
      BY <2>2 DEF NextArtifact, Set
    <3>2. 1 \in 1..2
      OBVIOUS
    <3>3. w \in ProcessRecord /\ w.pc = "assign" /\ w.at \in 1..2 /\ w.locked = FALSE
      BY <3>2, Opened, Zenon
    <3> HIDE DEF w
    <3>4. QED
      BY <3>1, <3>3
  <2>3. QED
    BY <2>1, <2>2
<1>5. process'[Initializer] = v
  BY <1>1, <1>4 DEF DurableInv, DurableTypeOK
<1>6. PlaceSane(Initializer)'
  BY <1>4, <1>5 DEF PlaceSane, Holding
<1>7. v.pc \notin Holding /\ v.pc \notin {"loaded", "serving"} /\ v.pc # "down"
  BY <1>4 DEF Holding
<1>8. QED
  BY <1>1, <1>2, <1>3, <1>4, <1>6, <1>7, OwnStep DEF DurableInv, DurableTypeOK

LEMMA AssignArtifactsStep == DurableInv /\ AssignArtifacts => DurableInv'
<1> SUFFICES ASSUME DurableInv, AssignArtifacts PROVE DurableInv'
  OBVIOUS
<1>1. Initializer \in Processes /\ Initializer \notin Runtimes
  BY DurableAssumption DEF Processes
<1>2. /\ process[Initializer].pc = "assign"
      /\ UNCHANGED <<file, lockFile, synced, litter, answered>>
      /\ upsets' \in Nat
  BY DEF AssignArtifacts, Upset, DurableInv, DurableTypeOK
<1>3. process[Initializer] \in ProcessRecord /\ process[Initializer].at \in 1..2 /\ ~provisioned
  BY <1>1, <1>2, UpSide DEF DurableInv, DurableTypeOK, PlaceSane
<1>4. CASE provisioned' = TRUE /\ Set(Initializer, Down)
  <2>1. /\ process'[Initializer] = Down
        /\ \A q \in Processes : q # Initializer => process'[q] = process[q]
    BY <1>1, <1>4 DEF Set, DurableInv, DurableTypeOK
  <2>2. Down.pc = "down" /\ Down.locked = FALSE
    BY DEF Down
  <2>3. \A q \in Runtimes : process'[q] = process[q] /\ process[q].pc = "down"
    BY <1>1, <1>3, <2>1 DEF DurableInv, Phases, Processes
  <2>4. DurableTypeOK'
    BY <1>2, <1>4, DownIsRecord DEF Set, DurableInv, DurableTypeOK
  <2>5. (\A q \in Processes : PlaceSane(q)') /\ OneHolder'
    BY <2>1, <2>2 DEF DurableInv, PlaceSane, OneHolder, Holding
  <2>6. Phases'
    BY <1>4, <2>1, <2>2, <2>3 DEF Phases
  <2>7. \A q \in Runtimes : WriterSane(q)'
    BY <2>3 DEF DurableInv, WriterSane, Holding
  <2>8. AnswersKept'
    BY <1>2 DEF DurableInv, AnswersKept
  <2>9. QED
    BY <2>4, <2>5, <2>6, <2>7, <2>8 DEF DurableInv
<1>5. CASE Goto(Initializer, "cleanup") /\ UNCHANGED provisioned
  <2> DEFINE v == [process[Initializer] EXCEPT !.pc = "cleanup"]
  <2>1. process' = [process EXCEPT ![Initializer] = v]
    BY <1>5 DEF Goto, Set
  <2>2. process[Initializer].locked = FALSE
    BY <1>1, <1>2, <1>3 DEF DurableInv, PlaceSane, Holding, ProcessRecord
  <2>3. v \in ProcessRecord /\ v.pc = "cleanup" /\ v.at = process[Initializer].at /\ v.locked = FALSE
    BY <1>3, <2>2 DEF ProcessRecord, Places
  <2> HIDE DEF v
  <2>4. process'[Initializer] = v
    BY <1>1, <2>1 DEF DurableInv, DurableTypeOK
  <2>5. PlaceSane(Initializer)'
    BY <1>3, <2>3, <2>4 DEF PlaceSane, Holding
  <2>6. QED
    BY <1>1, <1>2, <1>3, <1>5, <2>1, <2>3, <2>5, OwnStep DEF Holding, DurableInv, DurableTypeOK
<1>6. QED
  BY <1>4, <1>5 DEF AssignArtifacts

\* Every process down, or the command down with no runtime up yet: the files may
\* change under nobody.
LEMMA NobodyUp ==
    ASSUME DurableInv,
           DurableTypeOK',
           \A q \in Processes : process'[q] = Down,
           UNCHANGED <<answered, provisioned>>,
           AnswersKept'
    PROVE  DurableInv'
<1>1. \A q \in Processes : process'[q].pc = "down" /\ process'[q].locked = FALSE
                           /\ process'[q].unusable = FALSE
  BY DEF Down
<1>2. (\A q \in Processes : PlaceSane(q)') /\ OneHolder'
  BY <1>1 DEF PlaceSane, OneHolder, Holding
<1>3. Phases'
  BY <1>1 DEF DurableInv, Phases, Processes
<1>4. \A q \in Runtimes : WriterSane(q)'
  BY <1>1 DEF WriterSane, Holding, Processes
<1>5. QED
  BY <1>2, <1>3, <1>4 DEF DurableInv

LEMMA RemoveArtifactsStep == DurableInv /\ RemoveArtifacts => DurableInv'
<1> SUFFICES ASSUME DurableInv, RemoveArtifacts PROVE DurableInv'
  OBVIOUS
<1>1. Initializer \in Processes /\ Initializer \notin Runtimes
  BY DurableAssumption DEF Processes
<1>2. process[Initializer].pc = "cleanup" /\ ~provisioned
  BY <1>1, UpSide DEF RemoveArtifacts
<1>3. /\ process' = [process EXCEPT ![Initializer] = Down]
      /\ process'[Initializer] = Down
      /\ \A q \in Processes : q # Initializer => process'[q] = process[q]
  BY <1>1 DEF RemoveArtifacts, Set, DurableInv, DurableTypeOK
<1>4. DurableTypeOK'
  <2>1. file' \in [StoreNames -> Int] /\ lockFile' \in [StoreNames -> BOOLEAN]
    BY DEF RemoveArtifacts, Missing
  <2>2. process' \in [Processes -> ProcessRecord]
    BY <1>3, DownIsRecord DEF DurableInv, DurableTypeOK
  <2>3. QED
    BY <2>1, <2>2 DEF RemoveArtifacts, DurableInv, DurableTypeOK
<1>5. \A k \in StoreNames : answered[k] = <<>>
  BY <1>2 DEF DurableInv, Phases
<1>6. AnswersKept'
  BY <1>5 DEF AnswersKept, RemoveArtifacts
<1>7. \A q \in Processes : process'[q].pc = "down" /\ ~process'[q].locked
                           /\ (q \in Runtimes => process'[q].pc = "down")
  BY <1>2, <1>3 DEF DurableInv, Phases, Processes, Down, PlaceSane, Holding
<1>8. (\A q \in Processes : PlaceSane(q)') /\ OneHolder'
  BY <1>7 DEF PlaceSane, OneHolder, Holding
<1>9. Phases'
  BY <1>5, <1>7 DEF RemoveArtifacts, Phases, Processes
<1>10. \A q \in Runtimes : WriterSane(q)'
  BY <1>7 DEF WriterSane, Holding, Processes
<1>11. QED
  BY <1>4, <1>6, <1>8, <1>9, <1>10 DEF DurableInv

LEMMA PowerLossStep == DurableInv /\ PowerLoss => DurableInv'
<1> SUFFICES ASSUME DurableInv, PowerLoss PROVE DurableInv'
  OBVIOUS
<1>1. DurableTypeOK'
  BY DownIsRecord DEF PowerLoss, Upset, DurableInv, DurableTypeOK
<1>2. \A q \in Processes : process'[q] = Down
  BY DEF PowerLoss
<1>3. AnswersKept'
  BY DEF PowerLoss, DurableInv, AnswersKept
<1>4. QED
  BY <1>1, <1>2, <1>3, NobodyUp DEF PowerLoss

LEMMA EndStep ==
    ASSUME DurableInv, NEW p \in Processes, CloseStore(p) \/ Kill(p)
    PROVE  DurableInv'
<1>1. /\ Set(p, Down) /\ UNCHANGED <<file, lockFile, synced, answered, provisioned>>
      /\ upsets' \in Nat
  BY DEF CloseStore, Kill, OnlyProcess, Upset, DurableInv, DurableTypeOK
<1>2. litter \in [StoreNames -> BOOLEAN] /\ lockFile \in [StoreNames -> BOOLEAN]
  BY DEF DurableInv, DurableTypeOK
<1>3. litter' \in [StoreNames -> BOOLEAN]
  <2>1. CASE CloseStore(p)
    BY <1>2, <2>1 DEF CloseStore, OnlyProcess
  <2>2. CASE Kill(p)
    <3> DEFINE b == litter[Store(p)] \/ process[p].pc \in {"temporary", "replace"}
    <3>1. litter' = [litter EXCEPT ![Store(p)] = b] /\ b \in BOOLEAN
      BY <2>2, Zenon DEF Kill
    <3> HIDE DEF b
    <3>2. QED
      BY <1>2, <3>1
  <2>3. QED
    BY <2>1, <2>2
<1>4. QED
  BY <1>1, <1>2, <1>3, DownStep

-------------------------------------------------------------------------------
\* The inductive step, action by action.
LEMMA NextDurableInv == DurableInv /\ [DurableNext]_durableVars => DurableInv'
<1> SUFFICES ASSUME DurableInv, [DurableNext]_durableVars PROVE DurableInv'
  OBVIOUS
<1>1. CASE UNCHANGED durableVars
  BY <1>1 DEF durableVars, DurableInv, DurableTypeOK, PlaceSane, OneHolder, Phases,
              WriterSane, AnswersKept, Store, ToldUpTo
<1>2. CASE BeginProvisioning \/ CreateEmpty \/ NextArtifact \/ AssignArtifacts \/ RemoveArtifacts
  BY <1>2, BeginProvisioningStep, CreateEmptyStep, NextArtifactStep, AssignArtifactsStep,
     RemoveArtifactsStep
<1>3. CASE \E p \in Runtimes, at \in DOMAIN Stores : StartRuntime(p, at)
  BY <1>3, StartRuntimeStep
<1>4. CASE \E p \in Processes :
             OpenLock(p) \/ WriteTemporary(p) \/ Replace(p) \/ SyncDirectory(p) \/ Kill(p)
  BY <1>4, OpenLockStep, WriteTemporaryStep, ReplaceStep, SyncDirectoryStep, EndStep
<1>5. CASE \E p \in Runtimes :
             \/ LoadJournal(p) \/ LoadCheckpoint(p) \/ InstallBaseline(p) \/ RestoreState(p)
             \/ StoreRecord(p) \/ CommitCheckpoint(p) \/ DeadlinePassed(p) \/ Confirm(p)
             \/ CloseStore(p)
  BY <1>5, LoadStep, BeginWriteStep, ServeStep, ConfirmStep, EndStep DEF Processes
<1>6. CASE PowerLoss
  BY <1>6, PowerLossStep
<1>7. QED
  BY <1>1, <1>2, <1>3, <1>4, <1>5, <1>6 DEF DurableNext

\* The inductive invariant holds in every reachable state: lock holders exclude each
\* other and know what their file holds (_LifetimeWriterLock, _persist).
THEOREM DurableInvariant == DurableSpec => []DurableInv
BY InitDurableInv, NextDurableInv, PTL DEF DurableSpec

\* A write a caller was told of survives every kill, failing call and power loss, and
\* a usable service has in memory what a restart would load (_persist, commit_next).
THEOREM AnswersSurvive == DurableSpec => []AnsweredSurvives
<1>1. DurableInv => AnsweredSurvives
  <2> SUFFICES ASSUME DurableInv PROVE AnsweredSurvives
    OBVIOUS
  <2>1. \A p \in Runtimes :
          process[p].pc \in {"serving", "temporary", "replace"} /\ ~process[p].unusable
              => process[p].memory = file[Store(p)]
    BY DEF DurableInv, WriterSane
  <2>2. QED
    BY <2>1 DEF DurableInv, AnswersKept, AnsweredSurvives
<1>2. QED
  BY <1>1, DurableInvariant, PTL
==============================================================================
