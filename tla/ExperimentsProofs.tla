--------------------------- MODULE ExperimentsProofs ---------------------------
(***************************************************************************)
(* Proofs about the capability experiments, for any requests, plant states *)
(* and bounds: the closed loop's dispositions, the independent evaluator's *)
(* search, the acceptance of evidence packages and the evidence of the     *)
(* live campaigns.                                                         *)
(***************************************************************************)
EXTENDS ClosedLoop, LiveCampaign, IndependentEvaluator, EvidencePackage, SequenceTheorems, TLAPS

(***************************************************************************)
(* The inductive invariant of the closed loop.  A permit is bound to the   *)
(* one observation its request was made from and is in one place at a      *)
(* time: in the gateway's pipe, with the PLC, in a pipe to the plant, or   *)
(* spent on an effect.  The plant's observation number outruns every       *)
(* observation an effect was authorized under.                             *)
(***************************************************************************)
Earlier == {"resolve", "simulate", "permit"}

TxFields == {"req", "id", "stage", "obs", "assessment", "permit", "client", "ack"}
PlcFields == {"boot", "up", "stage", "job", "current", "link"}

\* A signed observation that a request can be made from: none in the cache is
\* later with an earlier snapshot.
IsObservation(o) ==
  /\ o # None /\ o.phase = "pre"
  /\ o.seq \in Nat /\ o.seq <= observed
  /\ o.snap.seq \in Nat /\ o.snap.seq <= plant.seq
  /\ \A d \in ToSet(cache) : d.phase = "pre" /\ o.seq < d.seq => o.snap.seq < d.snap.seq

ObservationsInOrder ==
  /\ observed \in Nat /\ plant.seq \in Nat /\ DOMAIN plant = {"state", "seq", "at"}
  /\ cache \in Seq(ToSet(cache))
  /\ \A d \in ToSet(cache) : d # None /\ (d.phase = "pre" => IsObservation(d))
  /\ DOMAIN asked = Requests
  /\ \A r \in Requests : asked[r] # None => IsObservation(asked[r])

\* A permit is bound to the observation of its request and to the candidate
\* state that was simulated for it.
IsPermit(p) ==
  /\ p.id \in 1..attempts
  /\ p.req \in Requests /\ p.obs = asked[p.req] /\ p.obs # None
  /\ p.pre = p.obs.snap /\ p.post = Candidate(p.pre.state, p.req)

TxPermits == IF tx = None THEN {} ELSE {tx.permit}
Spent == {effects[i].permit : i \in DOMAIN effects}
Underway == {inbox, plc.job, pending[1], pending[2]} \ {None}
Issued == (TxPermits \cup Underway \cup Spent) \ {None}

PermitsBound ==
  /\ \A p \in Issued : IsPermit(p)
  /\ \A p, q \in Issued : p.id = q.id => p = q

\* The permit that was given this identity can act or has acted.
Acting == Underway \cup Spent
Live(id) == \E p \in Acting : p.id = id

Acted(id) == \E p \in Spent : p.id = id

EffectsInOrder ==
  /\ effects \in Seq(Range(effects))
  /\ None \notin Spent
  /\ \A i \in DOMAIN effects :
       /\ effects[i].pre = effects[i].permit.pre
       /\ effects[i].pre.seq \in Nat /\ effects[i].pre.seq < plant.seq
  /\ \A i, j \in DOMAIN effects : effects[i].permit.req = effects[j].permit.req => i = j

PlcSane ==
  /\ DOMAIN pending = Boots /\ DOMAIN plc = PlcFields /\ plc.boot \in Boots
  /\ plc.link \in BOOLEAN
  /\ plc.stage \in {"idle", "checked", "reserved", "applying"}
  /\ plc.stage = "idle" <=> plc.job = None
  /\ plc.stage # "idle" => plc.up /\ plc.link
  /\ plc.boot = 1 => pending[2] = None
  /\ plc.link /\ plc.stage # "applying" => pending[plc.boot] = None
  /\ restart \in {"none", "stopped"} => plc.boot = 1
  /\ restart = "stopped" => ~plc.up /\ plc.stage = "idle"

\* A permit is in one place.
OnePlace ==
  /\ inbox # None => inbox \notin {plc.job, pending[1], pending[2]} \cup Spent
  /\ pending[1] # None => pending[1] # pending[2]
  /\ \A b \in Boots : pending[b] # None =>
       /\ pending[b] \notin Spent
       /\ pending[b] = plc.job => b = plc.boot /\ plc.stage = "applying"
  /\ plc.stage \in {"checked", "reserved"} => plc.job \notin Spent
  /\ plc.stage = "applying" =>
       IF applied = None THEN pending[plc.boot] = plc.job
       ELSE /\ pending[plc.boot] = None
            /\ applied.answer = "none" <=> plc.job \in Spent
  /\ applied # None => plc.stage = "applying"

TxSane ==
  tx # None =>
    /\ DOMAIN tx = TxFields
    /\ tx.stage \in Earlier \cup {"dispatch", "waiting", "post"}
    /\ tx.id \in 1..attempts /\ tx.req \in Requests /\ tx.obs = asked[tx.req] /\ tx.obs # None
    /\ tx.stage \in Earlier => tx.permit = None
    /\ tx.stage = "permit" => /\ tx.assessment.pre = tx.obs.snap
                              /\ tx.assessment.post = Candidate(tx.obs.snap.state, tx.req)
    /\ tx.stage \notin Earlier =>
         tx.permit # None /\ tx.permit.id = tx.id /\ tx.permit.obs = tx.obs /\ tx.permit.req = tx.req
    /\ tx.stage \in Earlier \cup {"dispatch"} => ~Live(tx.id)
    /\ tx.stage = "post" => tx.ack # None /\ tx.ack.status = "applied" /\ Acted(tx.id)

ReplySane ==
  reply # None =>
    /\ tx # None /\ tx.stage = "waiting"
    /\ reply.kind \in {"ack", "error"}
    /\ reply.kind = "ack" =>
         /\ reply.status \in {"applied", "rejected", "unknown"}
         /\ reply.status = "applied" => Acted(reply.permit)
         /\ reply.status = "rejected" => ~Live(reply.permit)

NoEffect == {"not_dispatched", "candidate_rejected", "plc_rejected"}

ResultsTrue ==
  \A r \in results :
    /\ r.id \in 1..attempts
    /\ tx # None => r.id # tx.id
    /\ r.status \in NoEffect \cup {"completed", "unknown_effect", "observation_diverged"}
    /\ r.status \in NoEffect => ~Live(r.id)
    /\ r.status = "completed" =>
         \E p \in Spent : /\ p.id = r.id /\ p.req = r.req /\ p.obs = r.obs
                          /\ r.post.snap.state = p.post

ClosedLoopInv ==
  /\ attempts \in Nat
  /\ ObservationsInOrder
  /\ PermitsBound
  /\ EffectsInOrder
  /\ PlcSane
  /\ OnePlace
  /\ TxSane
  /\ ReplySane
  /\ ResultsTrue

----------------------------------------------------------------------------
\* Nothing comes alive that was not.
LEMMA LiveShrinks ==
  ASSUME Acting' \subseteq Acting, NEW id, ~Live(id)
  PROVE  ~Live(id)'
BY DEF Live

\* Permits stay bound while none is added, whatever else is asked.
LEMMA PermitsKept ==
  ASSUME PermitsBound, attempts \in Nat, attempts' \in Nat, attempts <= attempts',
         \A r \in Requests : asked[r] # None => asked'[r] = asked[r],
         Issued' \subseteq Issued
  PROVE  PermitsBound'
<1>1. ASSUME NEW p \in Issued'
      PROVE  IsPermit(p)'
  <2>1. IsPermit(p)
    BY <1>1 DEF PermitsBound
  <2>2. p.obs = asked[p.req] /\ p.obs # None /\ p.req \in Requests /\ p.id \in 1..attempts
        /\ p.pre = p.obs.snap /\ p.post = Candidate(p.pre.state, p.req)
    BY <2>1 DEF IsPermit
  <2>3. asked'[p.req] = asked[p.req] /\ p.id \in 1..attempts'
    BY <2>2
  <2> QED
    BY <2>2, <2>3 DEF IsPermit, Candidate, None
<1> QED
  BY <1>1 DEF PermitsBound

\* An observation stays one when the plant's number grows and the cache only
\* takes in later snapshots.
LEMMA ObservationsKept ==
  ASSUME ObservationsInOrder, observed' \in Nat, observed <= observed',
         plant'.seq \in Nat, plant.seq <= plant'.seq,
         \A d \in ToSet(cache') : d \in ToSet(cache) \/ (d.phase = "pre" => d.snap.seq \in Nat /\ plant.seq < d.snap.seq),
         NEW o, IsObservation(o)
  PROVE  IsObservation(o)'
<1>1. ASSUME NEW d \in ToSet(cache'), d.phase = "pre", o.seq < d.seq
      PROVE  o.snap.seq < d.snap.seq
  <2>1. CASE d \in ToSet(cache)
    BY <1>1, <2>1 DEF IsObservation
  <2>2. CASE d.snap.seq \in Nat /\ plant.seq < d.snap.seq
    <3>1. o.snap.seq <= plant.seq /\ o.snap.seq \in Nat /\ plant.seq \in Nat
      BY DEF IsObservation, ObservationsInOrder
    <3> QED
      BY <2>2, <3>1
  <2> QED
    BY <1>1, <2>1, <2>2
<1> QED
  BY <1>1 DEF IsObservation, ObservationsInOrder, None, ToSet

\* The plant, its pipes and the PLC are left alone.
LEMMA WorldStill ==
  ASSUME ClosedLoopInv, UNCHANGED <<effects, pending, inbox, plc, applied, restart>>,
         plant'.seq \in Nat, plant.seq <= plant'.seq
  PROVE  /\ Spent' = Spent /\ Underway' = Underway /\ Acting' = Acting
         /\ EffectsInOrder' /\ PlcSane' /\ OnePlace'
<1>1. Spent' = Spent
  BY DEF Spent
<1>2. Underway' = Underway
  BY DEF Underway, None
<1>3. EffectsInOrder'
  <2>1. plant.seq \in Nat
    BY DEF ClosedLoopInv, ObservationsInOrder
  <2>2. \A i \in DOMAIN effects : effects[i].pre.seq \in Nat /\ effects[i].pre.seq < plant'.seq
    BY <2>1 DEF ClosedLoopInv, EffectsInOrder
  <2> QED
    BY <1>1, <2>2 DEF ClosedLoopInv, EffectsInOrder, Range, None
<1>4. PlcSane'
  BY DEF ClosedLoopInv, PlcSane, None, Boots
<1>5. OnePlace'
  BY <1>1 DEF ClosedLoopInv, OnePlace, None, Boots
<1> QED
  BY <1>1, <1>2, <1>3, <1>4, <1>5 DEF Acting

\* The cache takes in one envelope and may drop one.
LEMMA CachedEnvelopes ==
  ASSUME cache \in Seq(ToSet(cache)), NEW e, Capture(e)
  PROVE  cache' \in Seq(ToSet(cache')) /\ ToSet(cache') \subseteq ToSet(cache) \cup {e}
<1> DEFINE S == ToSet(cache) \cup {e}
           s == Append(cache, e)
<1>1. s \in Seq(S) /\ Len(s) = Len(cache) + 1 /\ Len(cache) \in Nat
  BY DEF ToSet
<1>2. cache' \in Seq(S)
  <2>1. Tail(s) \in Seq(S)
    <3> HIDE DEF s, S
    <3> QED
      BY <1>1
  <2> HIDE DEF s
  <2> QED
    BY <1>1, <2>1 DEF Capture, Evict, s
<1> HIDE DEF S
<1>3. ToSet(cache') \subseteq S
  BY <1>2 DEF ToSet
<1>4. cache' \in Seq(ToSet(cache'))
  BY <1>2 DEF ToSet
<1> QED
  BY <1>3, <1>4 DEF S

(***************************************************************************)
(* A capture: the new envelope comes after all others, and so does its     *)
(* snapshot when it is one a request can be made from.                     *)
(***************************************************************************)
LEMMA CaptureStep ==
  ASSUME ObservationsInOrder, NEW e, Capture(e), e # None, e.seq = observed + 1,
         plant' = plant \/ plant' = CaptureState,
         e.phase = "pre" => plant' = CaptureState /\ e.snap = CaptureState,
         UNCHANGED asked
  PROVE  ObservationsInOrder' /\ plant'.seq \in Nat /\ plant.seq <= plant'.seq
<1>1. /\ observed \in Nat /\ plant.seq \in Nat /\ DOMAIN plant = {"state", "seq", "at"}
      /\ cache \in Seq(ToSet(cache))
      /\ \A d \in ToSet(cache) : d # None /\ (d.phase = "pre" => IsObservation(d))
  BY DEF ObservationsInOrder
<1>2. /\ plant'.seq \in Nat /\ plant.seq <= plant'.seq /\ DOMAIN plant' = {"state", "seq", "at"}
      /\ e.phase = "pre" => plant'.seq = plant.seq + 1 /\ e.snap.seq = plant'.seq
  <2> DEFINE captured == CaptureState
  <2>1. captured.seq = plant.seq + 1 /\ DOMAIN captured = {"state", "seq", "at"}
    BY <1>1 DEF CaptureState
  <2> HIDE DEF captured
  <2>2. /\ plant' = plant \/ plant' = captured
        /\ e.phase = "pre" => plant' = captured /\ e.snap = captured
    BY DEF captured
  <2> QED
    BY <1>1, <2>1, <2>2
<1>3. observed' = observed + 1 /\ observed' \in Nat /\ observed <= observed'
  BY <1>1 DEF Capture
<1>4. cache' \in Seq(ToSet(cache')) /\ ToSet(cache') \subseteq ToSet(cache) \cup {e}
  BY <1>1, CachedEnvelopes
<1>5. \A d \in ToSet(cache') : d \in ToSet(cache)
                               \/ (d.phase = "pre" => d.snap.seq \in Nat /\ plant.seq < d.snap.seq)
  BY <1>1, <1>2, <1>4
<1>6. \A o : IsObservation(o) => IsObservation(o)'
  BY <1>2, <1>3, <1>5, ObservationsKept
<1>7. ASSUME e.phase = "pre"
      PROVE  IsObservation(e)'
  <2>1. \A d \in ToSet(cache') : d.phase = "pre" => ~(e.seq < d.seq)
    BY <1>1, <1>3, <1>4 DEF IsObservation
  <2> QED
    BY <1>2, <1>3, <1>7, <2>1 DEF IsObservation, None, ToSet
<1>8. \A d \in ToSet(cache') : d # None /\ (d.phase = "pre" => IsObservation(d)')
  BY <1>1, <1>4, <1>6, <1>7
<1>9. \A r \in Requests : asked'[r] # None => IsObservation(asked[r])'
  <2> SUFFICES ASSUME NEW r \in Requests, asked'[r] # None
               PROVE  IsObservation(asked[r])'
    OBVIOUS
  <2>1. PICK o : o = asked[r]
    OBVIOUS
  <2>2. IsObservation(o) /\ asked'[r] = o
    BY <2>1 DEF ObservationsInOrder
  <2>3. IsObservation(o)'
    BY <1>6, <2>2
  <2> QED
    BY <2>2, <2>3 DEF IsObservation, None, ToSet
<1> QED
  BY <1>2, <1>3, <1>4, <1>8, <1>9 DEF ObservationsInOrder, IsObservation, None, ToSet

----------------------------------------------------------------------------
(* The controller's steps. *)

\* What has been recorded stays true while nothing comes alive or is undone.
LEMMA ResultsKept ==
  ASSUME ResultsTrue, UNCHANGED results, attempts \in Nat, attempts' \in Nat, attempts <= attempts',
         Acting' \subseteq Acting, Spent \subseteq Spent',
         tx' # None => (tx # None /\ tx'.id = tx.id) \/ tx'.id > attempts
  PROVE  ResultsTrue'
<1> SUFFICES ASSUME NEW r \in results
             PROVE  /\ r.id \in 1..attempts'
                    /\ tx' # None => r.id # tx'.id
                    /\ r.status \in NoEffect \cup {"completed", "unknown_effect", "observation_diverged"}
                    /\ r.status \in NoEffect => ~Live(r.id)'
                    /\ r.status = "completed" =>
                         \E p \in Spent' : /\ p.id = r.id /\ p.req = r.req /\ p.obs = r.obs
                                           /\ r.post.snap.state = p.post
  BY DEF ResultsTrue, Live, None, NoEffect
<1>1. /\ r.id \in 1..attempts
      /\ tx # None => r.id # tx.id
      /\ r.status \in NoEffect \cup {"completed", "unknown_effect", "observation_diverged"}
      /\ r.status \in NoEffect => ~Live(r.id)
      /\ r.status = "completed" =>
           \E p \in Spent : /\ p.id = r.id /\ p.req = r.req /\ p.obs = r.obs
                            /\ r.post.snap.state = p.post
  BY DEF ResultsTrue
<1>2. r.id \in 1..attempts' /\ (tx' # None => r.id # tx'.id)
  BY <1>1
<1>3. r.status \in NoEffect => ~Live(r.id)'
  BY <1>1, LiveShrinks
<1> QED
  BY <1>1, <1>2, <1>3

(***************************************************************************)
(* An execution is recorded: its status is one a result may have, and true *)
(* of the plant from then on.                                              *)
(***************************************************************************)
LEMMA RecordStep ==
  ASSUME ClosedLoopInv, tx # None, NEW status, NEW dispatched, NEW ack, NEW post,
         Record(status, dispatched, ack, post), TerminalShape(status, dispatched, ack, post),
         status \in NoEffect \cup {"completed", "unknown_effect", "observation_diverged"},
         status \in NoEffect => ~Live(tx.id),
         status = "completed" => Acted(tx.id) /\ post.snap.state = tx.permit.post /\ tx.stage = "post",
         UNCHANGED attempts, Acting' = Acting, Spent' = Spent,
         reply' = None \/ (UNCHANGED reply /\ tx.stage # "waiting")
  PROVE  ResultsTrue' /\ TxSane' /\ ReplySane' /\ TxPermits' = {}
<1>1. PICK new : new = [req |-> tx.req, id |-> tx.id, obs |-> tx.obs, post |-> post, status |-> status]
  OBVIOUS
<1>2. results' = results \cup {new} /\ tx' = None
  BY <1>1 DEF Record
<1>3. /\ new.req = tx.req /\ new.id = tx.id /\ new.obs = tx.obs /\ new.post = post /\ new.status = status
  BY <1>1
<1>4. tx.id \in 1..attempts /\ attempts \in Nat
  BY DEF ClosedLoopInv, TxSane
<1>5. ASSUME status = "completed"
      PROVE  \E p \in Spent : p.id = tx.id /\ p.req = tx.req /\ p.obs = tx.obs /\ post.snap.state = p.post
  <2>1. PICK p \in Spent : p.id = tx.id
    BY <1>5 DEF Acted
  <2>2. tx.permit # None /\ tx.permit.id = tx.id /\ tx.permit.req = tx.req /\ tx.permit.obs = tx.obs
    BY <1>5 DEF ClosedLoopInv, TxSane, Earlier
  <2>3. p \in Issued /\ tx.permit \in Issued
    BY <2>2 DEF Issued, TxPermits, ClosedLoopInv, EffectsInOrder
  <2>4. p = tx.permit
    BY <2>1, <2>2, <2>3 DEF ClosedLoopInv, PermitsBound
  <2> QED
    BY <1>5, <2>1, <2>2, <2>4
<1>6. ResultsTrue'
  <2> SUFFICES ASSUME NEW r \in results \cup {new}
               PROVE  /\ r.id \in 1..attempts
                      /\ r.status \in NoEffect \cup {"completed", "unknown_effect", "observation_diverged"}
                      /\ r.status \in NoEffect => ~Live(r.id)
                      /\ r.status = "completed" =>
                           \E p \in Spent : /\ p.id = r.id /\ p.req = r.req /\ p.obs = r.obs
                                            /\ r.post.snap.state = p.post
    BY <1>2 DEF ResultsTrue, Live
  <2>1. CASE r \in results
    BY <2>1 DEF ClosedLoopInv, ResultsTrue
  <2>2. CASE r = new
    BY <1>3, <1>4, <1>5, <2>2
  <2> QED
    BY <2>1, <2>2
<1>7. reply' = None
  BY DEF ClosedLoopInv, ReplySane
<1> QED
  BY <1>2, <1>6, <1>7 DEF TxSane, ReplySane, TxPermits, None

\* An execution that has not been dispatched is recorded as that.
LEMMA NotDispatchedShape ==
  ASSUME ClosedLoopInv, tx # None, tx.stage \in Earlier
  PROVE  /\ TerminalShape("not_dispatched", FALSE, None, None)
         /\ TerminalShape("candidate_rejected", FALSE, None, None)
         /\ ~Live(tx.id) /\ tx.stage # "waiting"
BY DEF ClosedLoopInv, TxSane, TerminalShape, Earlier

\* What the recording of an execution leaves.
LEMMA RecordedStep ==
  ASSUME ClosedLoopInv, UNCHANGED <<plantVars, observerVars, pending, inbox, plc, applied, asked, attempts, restart>>,
         ResultsTrue', TxSane', ReplySane', TxPermits' \subseteq TxPermits
  PROVE  ClosedLoopInv'
<1>1. plant' = plant /\ effects' = effects /\ cache' = cache /\ observed' = observed
  BY DEF plantVars, observerVars
<1>2. plant.seq \in Nat /\ attempts \in Nat
  BY DEF ClosedLoopInv, ObservationsInOrder
<1>3. /\ Spent' = Spent /\ Underway' = Underway
      /\ EffectsInOrder' /\ PlcSane' /\ OnePlace'
  BY <1>1, <1>2, WorldStill
<1>4. PermitsBound'
  <2>1. Issued' \subseteq Issued
    BY <1>3 DEF Issued
  <2> QED
    BY <1>2, <2>1, PermitsKept DEF ClosedLoopInv
<1>5. ObservationsInOrder'
  BY <1>1 DEF ClosedLoopInv, ObservationsInOrder, IsObservation, None, ToSet
<1> QED
  BY <1>2, <1>3, <1>4, <1>5 DEF ClosedLoopInv

\* An execution begins with an identity no permit has.
LEMMA SubmitStep ==
  ASSUME ClosedLoopInv, NEW r \in Requests, Submit(r),
         UNCHANGED <<now, plantVars, observerVars, postSource, pending, plcVars>>
  PROVE  ClosedLoopInv'
<1>1. /\ UNCHANGED <<plant, effects, observed, cache, pending, plc, inbox, applied, reply, results, restart>>
      /\ tx = None /\ attempts' = attempts + 1
  BY DEF Submit, Idle, plantVars, observerVars, plcVars
<1>2. attempts \in Nat /\ DOMAIN asked = Requests /\ plant.seq \in Nat
  BY DEF ClosedLoopInv, ObservationsInOrder
<1>3. PICK env \in ToSet(cache) \cup {asked[r]} :
        /\ env # None /\ env.phase = "pre"
        /\ asked[r] # None => env = asked[r]
        /\ asked' = [asked EXCEPT ![r] = env]
        /\ tx' = Begin(r, env)
  BY DEF Submit
<1>4. IsObservation(env)
  BY <1>3 DEF ClosedLoopInv, ObservationsInOrder
<1>5. /\ DOMAIN asked' = Requests /\ asked'[r] = env
      /\ \A x \in Requests : asked[x] # None => asked'[x] = asked[x]
      /\ \A x \in Requests : asked'[x] = asked[x] \/ asked'[x] = env
  BY <1>2, <1>3
<1>6. /\ DOMAIN tx' = TxFields /\ tx'.req = r /\ tx'.id = attempts + 1 /\ tx'.stage = "resolve"
      /\ tx'.obs = env /\ tx'.permit = None /\ tx' # None
  BY <1>3 DEF Begin, TxFields, None
<1>7. ObservationsInOrder'
  <2>1. \A o : IsObservation(o) => IsObservation(o)'
    BY <1>1 DEF IsObservation, None, ToSet
  <2>2. ASSUME NEW x \in Requests, asked'[x] # None
        PROVE  IsObservation(asked[x])'
    <3>1. PICK o : o = asked'[x]
      OBVIOUS
    <3>2. IsObservation(o)'
      BY <1>4, <1>5, <2>1, <2>2, <3>1 DEF ClosedLoopInv, ObservationsInOrder
    <3> QED
      BY <3>1, <3>2 DEF IsObservation, None, ToSet
  <2>3. ToSet(cache)' = ToSet(cache) /\ None' = None
    BY <1>1 DEF ToSet, None
  <2>4. /\ observed' \in Nat /\ plant'.seq \in Nat /\ DOMAIN plant' = {"state", "seq", "at"}
        /\ cache' \in Seq(ToSet(cache)')
    BY <1>1, <2>3 DEF ClosedLoopInv, ObservationsInOrder
  <2>5. ASSUME NEW d \in ToSet(cache)' PROVE d # None' /\ (d.phase = "pre" => IsObservation(d)')
    BY <2>1, <2>3 DEF ClosedLoopInv, ObservationsInOrder
  <2> QED
    BY <1>5, <2>2, <2>3, <2>4, <2>5 DEF ObservationsInOrder
<1>8. /\ Spent' = Spent /\ Underway' = Underway /\ Acting' = Acting
      /\ EffectsInOrder' /\ PlcSane' /\ OnePlace'
  BY <1>1, <1>2, WorldStill
<1>9. PermitsBound'
  <2>1. Issued' \subseteq Issued
    BY <1>1, <1>6, <1>8 DEF Issued, TxPermits, None
  <2> QED
    BY <1>1, <1>2, <1>5, <2>1, PermitsKept DEF ClosedLoopInv
<1>10. ~Live(attempts + 1)
  <2>1. \A p \in Acting : p.id \in 1..attempts
    BY DEF ClosedLoopInv, PermitsBound, Acting, Issued, IsPermit, EffectsInOrder, Underway
  <2> QED
    BY <1>2, <2>1 DEF Live
<1>11. TxSane'
  <2>1. ~\E p \in Acting' : p.id = tx'.id
    BY <1>6, <1>8, <1>10 DEF Live
  <2> QED
    BY <1>1, <1>2, <1>3, <1>5, <1>6, <2>1 DEF TxSane, Earlier, TxFields, None, Live
<1>12. ReplySane'
  BY <1>1 DEF ClosedLoopInv, ReplySane, None
<1>13. ResultsTrue'
  BY <1>1, <1>2, <1>6, <1>8, ResultsKept DEF ClosedLoopInv
<1> QED
  BY <1>1, <1>2, <1>7, <1>8, <1>9, <1>11, <1>12, <1>13 DEF ClosedLoopInv

\* Before the dispatch an execution goes on or is recorded without an effect.
LEMMA EndsUndispatched ==
  ASSUME ClosedLoopInv, tx # None, tx.stage \in Earlier,
         NEW status \in {"not_dispatched", "candidate_rejected"}, Record(status, FALSE, None, None),
         UNCHANGED <<plantVars, observerVars, pending, inbox, plc, applied, reply, asked, attempts, restart>>
  PROVE  ClosedLoopInv'
<1>1. /\ TerminalShape("not_dispatched", FALSE, None, None)
      /\ TerminalShape("candidate_rejected", FALSE, None, None)
      /\ ~Live(tx.id) /\ tx.stage # "waiting"
  BY NotDispatchedShape
<1>2. Spent' = Spent /\ Acting' = Acting
  BY DEF Spent, Acting, Underway, plantVars, None
<1>3. ResultsTrue' /\ TxSane' /\ ReplySane' /\ TxPermits' = {}
  <2>1. TerminalShape(status, FALSE, None, None)
    BY <1>1
  <2> QED
    BY <1>1, <1>2, <2>1, RecordStep DEF NoEffect
<1> QED
  BY <1>3, RecordedStep

\* The next stage of an execution that has no permit yet.
LEMMA GoesOn ==
  ASSUME ClosedLoopInv, tx # None, tx.stage \in Earlier, NEW stage \in {"simulate", "permit"}, NEW assessment,
         tx' = [tx EXCEPT !.stage = stage, !.assessment = assessment],
         stage = "permit" => /\ assessment.pre = tx.obs.snap
                             /\ assessment.post = Candidate(tx.obs.snap.state, tx.req),
         UNCHANGED <<plantVars, observerVars, pending, inbox, plc, applied, reply, asked, attempts, restart, results>>
  PROVE  ClosedLoopInv'
<1>1. Spent' = Spent /\ Acting' = Acting
  BY DEF Spent, Acting, Underway, plantVars, None
<1>2. /\ DOMAIN tx = TxFields /\ tx.permit = None /\ ~Live(tx.id) /\ attempts \in Nat
      /\ tx.id \in 1..attempts /\ tx.req \in Requests /\ tx.obs = asked[tx.req] /\ tx.obs # None
  BY DEF ClosedLoopInv, TxSane
<1>3. /\ DOMAIN tx' = TxFields /\ tx'.stage = stage /\ tx'.assessment = assessment /\ tx'.permit = None
      /\ tx'.id = tx.id /\ tx'.req = tx.req /\ tx'.obs = tx.obs /\ tx' # None
  BY <1>2 DEF TxFields, None
<1>4. TxSane'
  <2>1. ~\E p \in Acting' : p.id = tx'.id
    BY <1>1, <1>2, <1>3 DEF Live
  <2> QED
    BY <1>2, <1>3, <2>1 DEF TxSane, Live, Earlier, None, Candidate
<1>5. ReplySane'
  BY DEF ClosedLoopInv, ReplySane, Earlier, None
<1>6. ResultsTrue'
  BY <1>1, <1>2, <1>3, ResultsKept DEF ClosedLoopInv
<1>7. TxPermits' \subseteq TxPermits
  BY <1>2, <1>3 DEF TxPermits, None
<1> QED
  BY <1>4, <1>5, <1>6, <1>7, RecordedStep

\* The observation is resolved and verified, and the candidate simulated.
LEMMA DecideSteps ==
  ASSUME ClosedLoopInv, ResolveFails \/ Authorize \/ Simulate,
         UNCHANGED <<now, plantVars, observerVars, postSource, pending, plcVars>>
  PROVE  ClosedLoopInv'
<1>1. UNCHANGED <<plantVars, observerVars, pending, inbox, plc, applied, reply, asked, attempts, restart>>
  BY DEF ResolveFails, Authorize, Simulate, plcVars
<1>2. CASE ResolveFails
  <2>1. tx # None /\ tx.stage \in Earlier /\ Record("not_dispatched", FALSE, None, None)
    BY <1>2 DEF ResolveFails, Earlier
  <2> QED
    BY <1>1, <2>1, EndsUndispatched
<1>3. CASE Authorize
  <2>1. tx # None /\ tx.stage \in Earlier /\ DOMAIN tx = TxFields
    BY <1>3 DEF Authorize, Earlier, ClosedLoopInv, TxSane
  <2>2. CASE Record("not_dispatched", FALSE, None, None)
    BY <1>1, <2>1, <2>2, EndsUndispatched
  <2>3. CASE tx' = [tx EXCEPT !.stage = "simulate"] /\ UNCHANGED results
    <3>1. PICK a : a = tx.assessment
      OBVIOUS
    <3>2. tx' = [tx EXCEPT !.stage = "simulate", !.assessment = a]
      BY <2>1, <2>3, <3>1 DEF TxFields
    <3> QED
      BY <1>1, <2>1, <2>3, <3>2, GoesOn
  <2> QED
    BY <1>3, <2>2, <2>3 DEF Authorize
<1>4. CASE Simulate
  <2>1. tx # None /\ tx.stage \in Earlier
    BY <1>4 DEF Simulate, Earlier
  <2>2. CASE \E status \in {"not_dispatched", "candidate_rejected"} : Record(status, FALSE, None, None)
    BY <1>1, <2>1, <2>2, EndsUndispatched
  <2>3. CASE /\ SimulateCandidate(tx.req).pre = tx.obs.snap
             /\ tx' = [tx EXCEPT !.stage = "permit", !.assessment = SimulateCandidate(tx.req)]
             /\ UNCHANGED results
    <3>1. PICK a : a = SimulateCandidate(tx.req)
      OBVIOUS
    <3>2. a.pre = tx.obs.snap /\ a.post = Candidate(tx.obs.snap.state, tx.req)
      BY <2>3, <3>1 DEF SimulateCandidate
    <3>3. tx' = [tx EXCEPT !.stage = "permit", !.assessment = a]
      BY <2>3, <3>1
    <3> QED
      BY <1>1, <2>1, <2>3, <3>2, <3>3, GoesOn
  <2> QED
    BY <1>4, <2>2, <2>3 DEF Simulate
<1> QED
  BY <1>2, <1>3, <1>4

\* A permit is issued for the execution, which has none yet.
LEMMA IssuePermitStep ==
  ASSUME ClosedLoopInv, IssuePermit,
         UNCHANGED <<now, plantVars, observerVars, postSource, pending, plcVars>>
  PROVE  ClosedLoopInv'
<1>1. /\ UNCHANGED <<plantVars, observerVars, pending, inbox, plc, applied, reply, asked, attempts, restart>>
      /\ tx # None /\ tx.stage = "permit"
  BY DEF IssuePermit, plcVars
<1>2. CASE Record("not_dispatched", FALSE, None, None)
  BY <1>1, <1>2, EndsUndispatched DEF Earlier
<1>3. ASSUME NEW p,
             p = [id |-> tx.id, req |-> tx.req, obs |-> tx.obs,
                  pre |-> tx.assessment.pre, post |-> tx.assessment.post,
                  target |-> TargetBoot, issued |-> now, expires |-> now + PermitLife],
             tx' = [tx EXCEPT !.stage = "dispatch", !.permit = p], UNCHANGED results
      PROVE  ClosedLoopInv'
  <2>1. /\ DOMAIN tx = TxFields /\ tx.permit = None /\ ~Live(tx.id) /\ attempts \in Nat
        /\ tx.id \in 1..attempts /\ tx.req \in Requests /\ tx.obs = asked[tx.req] /\ tx.obs # None
        /\ tx.assessment.pre = tx.obs.snap
        /\ tx.assessment.post = Candidate(tx.obs.snap.state, tx.req)
    BY <1>1 DEF ClosedLoopInv, TxSane, Earlier
  <2>2. p # None
    BY <1>3 DEF None
  <2>3. /\ p.id = tx.id /\ p.req = tx.req /\ p.obs = tx.obs /\ p.pre = tx.obs.snap
        /\ p.post = Candidate(tx.obs.snap.state, tx.req)
    BY <1>3, <2>1
  <2>4. /\ DOMAIN tx' = TxFields /\ tx'.stage = "dispatch" /\ tx'.permit = p
        /\ tx'.id = tx.id /\ tx'.req = tx.req /\ tx'.obs = tx.obs /\ tx' # None
    BY <1>3, <2>1 DEF TxFields, None
  <2>5. plant' = plant /\ effects' = effects /\ observed' = observed /\ cache' = cache /\ plant.seq \in Nat
    BY <1>1 DEF plantVars, observerVars, ClosedLoopInv, ObservationsInOrder
  <2>6. /\ Spent' = Spent /\ Underway' = Underway /\ Acting' = Acting
        /\ EffectsInOrder' /\ PlcSane' /\ OnePlace'
    BY <1>1, <2>5, WorldStill
  <2>7. Issued' \subseteq Issued \cup {p}
    BY <2>4, <2>6 DEF Issued, TxPermits, None
  <2>8. \A q \in Issued : IsPermit(q) /\ q.id # p.id
    <3>1. \A q \in Issued : q \in Acting
      BY <1>1, <2>1 DEF Issued, TxPermits, Acting
    <3> QED
      BY <2>1, <2>3, <3>1 DEF Live, ClosedLoopInv, PermitsBound
  <2>9. IsPermit(p)
    BY <2>1, <2>3 DEF IsPermit
  <2>10. \A q : IsPermit(q) => IsPermit(q)'
    BY <1>1 DEF IsPermit, Candidate, None
  <2>11. PermitsBound'
    <3>1. \A q \in Issued' : IsPermit(q)'
      BY <2>7, <2>8, <2>9, <2>10
    <3>2. \A q, s \in Issued : q.id = s.id => q = s
      BY DEF ClosedLoopInv, PermitsBound
    <3>3. \A q, s \in Issued' : q.id = s.id => q = s
      BY <2>7, <2>8, <3>2
    <3> QED
      BY <3>1, <3>3 DEF PermitsBound
  <2>12. ObservationsInOrder'
    BY <1>1, <2>5 DEF ClosedLoopInv, ObservationsInOrder, IsObservation, None, ToSet
  <2>13. TxSane'
    <3>1. ~\E q \in Acting' : q.id = tx'.id
      BY <2>1, <2>4, <2>6 DEF Live
    <3> QED
      BY <1>1, <2>1, <2>2, <2>3, <2>4, <3>1 DEF TxSane, Live, Earlier, None
  <2>14. ReplySane'
    BY <1>1 DEF ClosedLoopInv, ReplySane, None
  <2>15. ResultsTrue'
    BY <1>1, <1>3, <2>1, <2>4, <2>6, ResultsKept DEF ClosedLoopInv
  <2> QED
    BY <1>1, <2>1, <2>6, <2>11, <2>12, <2>13, <2>14, <2>15 DEF ClosedLoopInv
<1> QED
  BY <1>2, <1>3 DEF IssuePermit

\* The permit goes into the pipe, where no other copy of it is.
LEMMA DispatchStep ==
  ASSUME ClosedLoopInv, Dispatch, UNCHANGED <<now, plantVars, observerVars, postSource, pending>>
  PROVE  ClosedLoopInv'
<1>1. /\ UNCHANGED <<plant, effects, observed, cache, pending, plc, applied, reply, asked, attempts, restart>>
      /\ tx # None /\ tx.stage = "dispatch"
  BY DEF Dispatch, plantVars, observerVars
<1>2. /\ DOMAIN tx = TxFields /\ ~Live(tx.id) /\ attempts \in Nat
      /\ tx.id \in 1..attempts /\ tx.req \in Requests /\ tx.obs = asked[tx.req] /\ tx.obs # None
      /\ tx.permit # None /\ tx.permit.id = tx.id /\ tx.permit.obs = tx.obs /\ tx.permit.req = tx.req
  BY <1>1 DEF ClosedLoopInv, TxSane, Earlier
<1>3. reply = None
  BY <1>1 DEF ClosedLoopInv, ReplySane
<1>4. CASE Record("unknown_effect", TRUE, None, None) /\ UNCHANGED inbox
  <2>1. TerminalShape("unknown_effect", TRUE, None, None)
    BY <1>2 DEF TerminalShape
  <2>2. Spent' = Spent /\ Acting' = Acting
    BY <1>1, <1>4 DEF Spent, Acting, Underway, None
  <2>3. ResultsTrue' /\ TxSane' /\ ReplySane' /\ TxPermits' = {}
    BY <1>1, <1>4, <2>1, <2>2, RecordStep DEF NoEffect
  <2> QED
    BY <1>1, <1>4, <2>3, RecordedStep DEF plantVars, observerVars
<1>5. CASE /\ inbox' = tx.permit /\ UNCHANGED results
           /\ tx' = [tx EXCEPT !.stage = "waiting", !.client = ClientBoot]
  <2> DEFINE p == tx.permit
  <2>1. /\ DOMAIN tx' = TxFields /\ tx'.stage = "waiting" /\ tx'.permit = p
        /\ tx'.id = tx.id /\ tx'.req = tx.req /\ tx'.obs = tx.obs /\ tx' # None
    BY <1>2, <1>5 DEF TxFields, None
  <2>2. Spent' = Spent /\ Underway' \subseteq Underway \cup {p} /\ Acting' \subseteq Acting \cup {p}
    BY <1>1, <1>5 DEF Spent, Underway, Acting, None
  <2>3. p \notin Acting
    BY <1>2 DEF Live
  <2>4. PermitsBound'
    <3>1. Issued' \subseteq Issued
      BY <1>1, <1>2, <2>1, <2>2 DEF Issued, TxPermits, None
    <3> QED
      BY <1>1, <1>2, <3>1, PermitsKept DEF ClosedLoopInv
  <2>5. ObservationsInOrder' /\ EffectsInOrder'
    BY <1>1, <2>2 DEF ClosedLoopInv, ObservationsInOrder, EffectsInOrder, IsObservation, None, ToSet, Range
  <2>6. PlcSane'
    BY <1>1 DEF ClosedLoopInv, PlcSane, None, Boots
  <2>7. OnePlace'
    <3>1. p \notin {plc.job, pending[1], pending[2]} \cup Spent
      BY <1>2, <2>3 DEF Acting, Underway
    <3> QED
      BY <1>1, <1>2, <1>5, <2>2, <3>1 DEF ClosedLoopInv, OnePlace, None, Boots
  <2>8. TxSane'
    BY <1>1, <1>2, <2>1 DEF TxSane, Earlier, None
  <2>9. ReplySane'
    BY <1>1, <1>3 DEF ReplySane, None
  <2>10. ResultsTrue'
    <3> SUFFICES ASSUME NEW r \in results
                 PROVE  /\ r.id \in 1..attempts /\ r.id # tx.id
                        /\ r.status \in NoEffect \cup {"completed", "unknown_effect", "observation_diverged"}
                        /\ r.status \in NoEffect => ~\E q \in Acting' : q.id = r.id
                        /\ r.status = "completed" =>
                             \E q \in Spent : /\ q.id = r.id /\ q.req = r.req /\ q.obs = r.obs
                                              /\ r.post.snap.state = q.post
      BY <1>1, <1>5, <2>1, <2>2 DEF ResultsTrue, Live, None, NoEffect
    <3>1. /\ r.id \in 1..attempts /\ r.id # tx.id
          /\ r.status \in NoEffect \cup {"completed", "unknown_effect", "observation_diverged"}
          /\ r.status \in NoEffect => ~Live(r.id)
          /\ r.status = "completed" =>
               \E q \in Spent : /\ q.id = r.id /\ q.req = r.req /\ q.obs = r.obs
                                /\ r.post.snap.state = q.post
      BY <1>1 DEF ClosedLoopInv, ResultsTrue
    <3> QED
      BY <1>2, <2>2, <3>1 DEF Live
  <2> QED
    BY <1>1, <1>2, <2>4, <2>5, <2>6, <2>7, <2>8, <2>9, <2>10 DEF ClosedLoopInv
<1> QED
  BY <1>4, <1>5 DEF Dispatch

\* The PLC's answer, or none in time.
LEMMA AcknowledgedStep ==
  ASSUME ClosedLoopInv, Acknowledged \/ DispatchGivesUp,
         UNCHANGED <<now, plantVars, observerVars, postSource, pending>>
  PROVE  ClosedLoopInv'
<1>1. /\ UNCHANGED <<plantVars, observerVars, pending, plc, inbox, applied, asked, attempts, restart>>
      /\ tx # None /\ tx.stage = "waiting" /\ reply' = None
  BY DEF Acknowledged, DispatchGivesUp, plcVars
<1>2. /\ DOMAIN tx = TxFields /\ attempts \in Nat
      /\ tx.id \in 1..attempts /\ tx.req \in Requests /\ tx.obs = asked[tx.req] /\ tx.obs # None
      /\ tx.permit # None /\ tx.permit.id = tx.id /\ tx.permit.obs = tx.obs /\ tx.permit.req = tx.req
  BY <1>1 DEF ClosedLoopInv, TxSane, Earlier
<1>3. Spent' = Spent /\ Acting' = Acting
  BY <1>1 DEF Spent, Acting, Underway, plantVars, None
<1>4. ASSUME NEW ack, Record("unknown_effect", TRUE, ack, None)
      PROVE  ClosedLoopInv'
  <2>1. TerminalShape("unknown_effect", TRUE, ack, None)
    BY <1>2 DEF TerminalShape
  <2>2. ResultsTrue' /\ TxSane' /\ ReplySane' /\ TxPermits' = {}
    BY <1>1, <1>3, <1>4, <2>1, RecordStep DEF NoEffect
  <2> QED
    BY <1>1, <2>2, RecordedStep
<1>5. CASE DispatchGivesUp
  BY <1>4, <1>5 DEF DispatchGivesUp
<1>6. CASE Acknowledged
  <2>1. reply # None /\ reply.kind \in {"ack", "error"}
    BY <1>6 DEF Acknowledged, ClosedLoopInv, ReplySane
  <2>2. CASE reply.kind = "error"
    <3>1. Record("unknown_effect", TRUE, None, None)
      BY <1>6, <2>2 DEF Acknowledged
    <3> QED
      BY <1>4, <3>1
  <2>3. CASE reply.kind = "ack" /\ ~AcknowledgmentValid(reply)
    <3>1. Record("unknown_effect", TRUE, reply, None)
      BY <1>6, <2>3 DEF Acknowledged
    <3> QED
      BY <1>4, <3>1
  <2>4. CASE reply.kind = "ack" /\ AcknowledgmentValid(reply)
    <3>1. reply.permit = tx.id
      BY <1>2, <2>4 DEF AcknowledgmentValid
    <3>2. /\ reply.status \in {"applied", "rejected", "unknown"}
          /\ reply.status = "applied" => Acted(tx.id)
          /\ reply.status = "rejected" => ~Live(tx.id)
      BY <2>1, <2>4, <3>1 DEF ClosedLoopInv, ReplySane
    <3>3. CASE reply.status = "unknown"
      <4>1. Record("unknown_effect", TRUE, reply, None)
        BY <1>6, <2>4, <3>3 DEF Acknowledged
      <4> QED
        BY <1>4, <4>1
    <3>4. CASE reply.status = "rejected"
      <4>1. PICK status : status = RejectedStatus(reply.reason)
        OBVIOUS
      <4>2. status \in {"candidate_rejected", "plc_rejected"}
        BY <4>1 DEF RejectedStatus
      <4>3. Record(status, TRUE, reply, None)
        BY <1>6, <2>4, <3>4, <4>1 DEF Acknowledged
      <4>4. TerminalShape(status, TRUE, reply, None)
        BY <1>2, <2>1, <3>4, <4>2 DEF TerminalShape, Status
      <4>5. ResultsTrue' /\ TxSane' /\ ReplySane' /\ TxPermits' = {}
        BY <1>1, <1>3, <3>2, <3>4, <4>2, <4>3, <4>4, RecordStep DEF NoEffect
      <4> QED
        BY <1>1, <4>5, RecordedStep
    <3>5. CASE reply.status = "applied"
      <4>1. tx' = [tx EXCEPT !.stage = "post", !.ack = reply] /\ UNCHANGED results
        BY <1>6, <2>4, <3>5 DEF Acknowledged
      <4>2. /\ DOMAIN tx' = TxFields /\ tx'.stage = "post" /\ tx'.permit = tx.permit /\ tx'.ack = reply
            /\ tx'.id = tx.id /\ tx'.req = tx.req /\ tx'.obs = tx.obs /\ tx' # None
        BY <1>2, <4>1 DEF TxFields, None
      <4>3. TxSane'
        <5>1. Acted(tx.id)'
          <6>1. \E p \in Spent : p.id = tx.id
            BY <3>2, <3>5 DEF Acted
          <6> QED
            BY <1>3, <4>2, <6>1 DEF Acted
        <5> QED
          BY <1>1, <1>2, <2>1, <3>5, <4>2, <5>1 DEF TxSane, Earlier, None
      <4>4. ReplySane' /\ TxPermits' \subseteq TxPermits
        BY <1>1, <4>2 DEF ReplySane, TxPermits, None
      <4>5. ResultsTrue'
        BY <1>1, <1>2, <1>3, <4>1, <4>2, ResultsKept DEF ClosedLoopInv
      <4> QED
        BY <1>1, <4>3, <4>4, <4>5, RecordedStep
    <3> QED
      BY <3>2, <3>3, <3>4, <3>5
  <2> QED
    BY <2>1, <2>2, <2>3, <2>4
<1> QED
  BY <1>5, <1>6

\* What an observation leaves, and the recording of an execution with it.
LEMMA CapturedStep ==
  ASSUME ClosedLoopInv, UNCHANGED <<effects, pending, inbox, plc, applied, asked, attempts, restart>>,
         ObservationsInOrder', plant'.seq \in Nat, plant.seq <= plant'.seq,
         ResultsTrue', TxSane', ReplySane', TxPermits' \subseteq TxPermits
  PROVE  ClosedLoopInv'
<1>1. /\ Spent' = Spent /\ Underway' = Underway
      /\ EffectsInOrder' /\ PlcSane' /\ OnePlace'
  BY WorldStill
<1>2. PermitsBound'
  <2>1. Issued' \subseteq Issued
    BY <1>1 DEF Issued
  <2> QED
    BY <2>1, PermitsKept DEF ClosedLoopInv
<1> QED
  BY <1>1, <1>2 DEF ClosedLoopInv

\* A telemetry client observes.
LEMMA CapturePreStep ==
  ASSUME ClosedLoopInv, CapturePre, UNCHANGED <<now, postSource, pending, plcVars, controlVars>>
  PROVE  ClosedLoopInv'
<1>1. UNCHANGED <<effects, pending, inbox, plc, applied, reply, asked, attempts, tx, restart, results>>
  BY DEF CapturePre, plcVars, controlVars
<1>2. PICK e : e = Envelope(observed + 1, CaptureState, "pre", observed + 1,
                            <<"pre", observed + 1>>, None, None)
  OBVIOUS
<1>3. e # None /\ e.seq = observed + 1 /\ e.phase = "pre" /\ e.snap = CaptureState
  BY <1>2 DEF Envelope, None
<1>4. ObservationsInOrder' /\ plant'.seq \in Nat /\ plant.seq <= plant'.seq
  BY <1>1, <1>2, <1>3, CaptureStep DEF CapturePre, ClosedLoopInv
<1>5. Spent' = Spent /\ Acting' = Acting /\ TxPermits' = TxPermits
  BY <1>1 DEF Spent, Acting, Underway, TxPermits, None
<1>6. TxSane' /\ ReplySane'
  BY <1>1, <1>5 DEF ClosedLoopInv, TxSane, ReplySane, Live, Acted, None, Candidate
<1>7. ResultsTrue'
  BY <1>1, <1>5, ResultsKept DEF ClosedLoopInv
<1> QED
  BY <1>1, <1>4, <1>5, <1>6, <1>7, CapturedStep

\* The observer's report after an effect, or none.
LEMMA CompleteStep ==
  ASSUME ClosedLoopInv, Complete \/ PostFails, UNCHANGED <<now, postSource, pending, plcVars>>
  PROVE  ClosedLoopInv'
<1> DEFINE challenge == <<"post", tx.id>>
           env == PostEnvelope(tx.obs, challenge, tx.ack)
<1>1. /\ UNCHANGED <<pending, inbox, plc, applied, reply, asked, attempts, restart>>
      /\ tx # None /\ tx.stage = "post"
      /\ UNCHANGED <<plantVars, observerVars>> \/ CapturePost(tx.obs, challenge, tx.ack)
  BY DEF Complete, PostFails, plcVars
<1>2. /\ tx.obs # None /\ tx.permit # None /\ tx.permit.obs = tx.obs
      /\ tx.ack # None /\ tx.ack.status = "applied" /\ Acted(tx.id)
  BY <1>1 DEF ClosedLoopInv, TxSane, Earlier
<1>3. /\ env # None /\ env.seq = observed + 1 /\ env.phase = "post" /\ env.corr = tx.obs.corr
      /\ env.ack = tx.ack /\ env.previous = tx.obs.seq
  BY DEF PostEnvelope, Envelope, None
<1> HIDE DEF env
<1>4. /\ effects' = effects
      /\ ObservationsInOrder' /\ plant'.seq \in Nat /\ plant.seq <= plant'.seq
  <2>1. CASE UNCHANGED <<plantVars, observerVars>>
    BY <1>1, <2>1 DEF plantVars, observerVars, ClosedLoopInv, ObservationsInOrder, IsObservation, None, ToSet
  <2>2. CASE CapturePost(tx.obs, challenge, tx.ack)
    <3>1. effects' = effects /\ Capture(env) /\ (plant' = plant \/ plant' = CaptureState)
      BY <2>2 DEF CapturePost, env
    <3> QED
      BY <1>1, <1>3, <3>1, CaptureStep DEF ClosedLoopInv
  <2> QED
    BY <1>1, <2>1, <2>2
<1>5. Spent' = Spent /\ Acting' = Acting
  BY <1>1, <1>4 DEF Spent, Acting, Underway, None
<1>6. ASSUME NEW status \in {"completed", "unknown_effect", "observation_diverged"}, NEW post,
             Record(status, TRUE, tx.ack, post), TerminalShape(status, TRUE, tx.ack, post),
             status = "completed" => post.snap.state = tx.permit.post
      PROVE  ClosedLoopInv'
  <2>1. status \notin NoEffect
    BY DEF NoEffect
  <2>2. ResultsTrue' /\ TxSane' /\ ReplySane' /\ TxPermits' = {}
    BY <1>1, <1>2, <1>5, <1>6, <2>1, RecordStep
  <2> QED
    BY <1>1, <1>4, <2>2, CapturedStep
<1>7. CASE Record("unknown_effect", TRUE, tx.ack, None)
  <2>1. TerminalShape("unknown_effect", TRUE, tx.ack, None)
    BY <1>2 DEF TerminalShape
  <2> QED
    BY <1>6, <1>7, <2>1
<1>8. CASE Record(IF PostMatches(env, tx.ack, tx.permit) THEN "completed" ELSE "observation_diverged",
                  TRUE, tx.ack, env)
  <2>1. PostBound(env, tx.ack) /\ Status(tx.ack) = "applied"
    BY <1>2, <1>3 DEF PostBound, Status
  <2>2. CASE PostMatches(env, tx.ack, tx.permit)
    <3>1. Record("completed", TRUE, tx.ack, env)
      BY <1>8, <2>2
    <3>2. TerminalShape("completed", TRUE, tx.ack, env)
      BY <1>2, <1>3, <2>1, <2>2 DEF TerminalShape
    <3> QED
      BY <1>6, <2>2, <3>1, <3>2 DEF PostMatches
  <2>3. CASE ~PostMatches(env, tx.ack, tx.permit)
    <3>1. Record("observation_diverged", TRUE, tx.ack, env)
      BY <1>8, <2>3
    <3>2. TerminalShape("observation_diverged", TRUE, tx.ack, env)
      BY <1>2, <1>3, <2>1, <2>3 DEF TerminalShape, PostMatches
    <3> QED
      BY <1>6, <3>1, <3>2
  <2> QED
    BY <2>2, <2>3
<1> QED
  BY <1>7, <1>8 DEF Complete, PostFails, env

----------------------------------------------------------------------------
(* The PLC's and the plant's steps. *)

\* What a step of the PLC or the plant has to show: a permit moves from one
\* place to the next, and an answer says what became of it.
LEMMA PlcMoves ==
  ASSUME ClosedLoopInv, UNCHANGED <<asked, tx, attempts, results>>, UNCHANGED observerVars,
         Acting' \subseteq Acting, Spent \subseteq Spent',
         DOMAIN plant' = {"state", "seq", "at"}, plant'.seq \in Nat, plant.seq <= plant'.seq,
         EffectsInOrder', PlcSane', OnePlace', ReplySane'
  PROVE  ClosedLoopInv'
<1>1. UNCHANGED <<asked, tx, attempts, results, observed, cache>> /\ attempts \in Nat
  BY DEF observerVars, ClosedLoopInv
<1>2. \A o : IsObservation(o) => IsObservation(o)'
  BY <1>1, ObservationsKept DEF ClosedLoopInv, ObservationsInOrder
<1>3. ObservationsInOrder'
  <2>1. \A d \in ToSet(cache) : d # None /\ (d.phase = "pre" => IsObservation(d)')
    BY <1>2 DEF ClosedLoopInv, ObservationsInOrder
  <2>2. ASSUME NEW r \in Requests, asked[r] # None
        PROVE  IsObservation(asked[r])'
    <3>1. PICK o : o = asked[r]
      OBVIOUS
    <3>2. IsObservation(o)'
      BY <1>2, <2>2, <3>1 DEF ClosedLoopInv, ObservationsInOrder
    <3> QED
      BY <1>1, <3>1, <3>2 DEF IsObservation, None, ToSet
  <2> QED
    BY <1>1, <2>1, <2>2 DEF ClosedLoopInv, ObservationsInOrder, IsObservation, None, ToSet
<1>4. PermitsBound'
  <2>1. Issued' \subseteq Issued
    BY <1>1 DEF Issued, Acting, TxPermits, None
  <2> QED
    BY <1>1, <2>1, PermitsKept DEF ClosedLoopInv
<1>5. TxSane'
  BY <1>1 DEF ClosedLoopInv, TxSane, Live, Acted, None, Candidate
<1>6. ResultsTrue'
  BY <1>1, ResultsKept DEF ClosedLoopInv
<1> QED
  BY <1>1, <1>3, <1>4, <1>5, <1>6 DEF ClosedLoopInv

\* The PLC takes a request, reserves it and answers: nothing in the plant changes.
LEMMA PlcMovesOn ==
  ASSUME ClosedLoopInv, UNCHANGED controlVars, UNCHANGED observerVars, UNCHANGED plantVars,
         Underway' \subseteq Underway, PlcSane', OnePlace', ReplySane'
  PROVE  ClosedLoopInv'
<1>1. plant' = plant /\ effects' = effects
  BY DEF plantVars
<1>2. Spent' = Spent
  BY <1>1 DEF Spent
<1>3. EffectsInOrder'
  BY <1>1, <1>2 DEF ClosedLoopInv, EffectsInOrder, Range, None
<1>4. DOMAIN plant' = {"state", "seq", "at"} /\ plant'.seq \in Nat /\ plant.seq <= plant'.seq
  BY <1>1 DEF ClosedLoopInv, ObservationsInOrder
<1> QED
  BY <1>2, <1>3, <1>4, PlcMoves DEF Acting, controlVars

\* A rejection is true: no other copy of the permit can act.
LEMMA RejectionTrue ==
  ASSUME ClosedLoopInv, UNCHANGED <<effects, tx>>, NEW p, p \in Underway,
         p \notin Spent, p \notin Underway', Underway' \subseteq Underway
  PROVE  ~Live(p.id)'
<1>1. Spent' = Spent
  BY DEF Spent
<1>2. \A q \in Acting' : q \in Issued /\ q # p
  BY <1>1 DEF Acting, Issued, ClosedLoopInv, EffectsInOrder, Underway
<1>3. p \in Issued
  BY DEF Issued, Underway
<1>4. \A q \in Acting' : q.id # p.id
  BY <1>2, <1>3 DEF ClosedLoopInv, PermitsBound
<1> QED
  BY <1>4 DEF Live

\* An answer reaches the gateway only while it waits for one.
LEMMA AnswerSane ==
  ASSUME UNCHANGED tx, NEW m, reply' = IF Listening THEN m ELSE None,
         m.kind \in {"ack", "error"},
         m.kind = "ack" => /\ m.status \in {"applied", "rejected", "unknown"}
                           /\ m.status = "applied" => Acted(m.permit)'
                           /\ m.status = "rejected" => ~Live(m.permit)'
  PROVE  ReplySane'
<1>1. CASE ~Listening
  BY <1>1 DEF ReplySane, None
<1>2. CASE Listening
  <2>1. reply' = m /\ tx' # None /\ tx'.stage = "waiting"
    BY <1>2 DEF Listening
  <2> QED
    BY <2>1 DEF ReplySane, Live, Acted, None
<1> QED
  BY <1>1, <1>2

\* The PLC is idle again; its link to the plant is open only if nothing it sent
\* is still in the pipe.
LEMMA PlcRests ==
  ASSUME ClosedLoopInv, UNCHANGED <<effects, pending, restart>>, inbox' \in {inbox, None},
         applied' = None, plc.up,
         \E link \in BOOLEAN :
           /\ plc' = [plc EXCEPT !.stage = "idle", !.job = None, !.current = None, !.link = link]
           /\ link => pending[plc.boot] = None
  PROVE  /\ PlcSane' /\ OnePlace' /\ Underway' \subseteq Underway
         /\ plc.job \notin {inbox', pending[1], pending[2]} => plc.job \notin Underway'
<1>1. PICK link \in BOOLEAN :
        /\ plc' = [plc EXCEPT !.stage = "idle", !.job = None, !.current = None, !.link = link]
        /\ link => pending[plc.boot] = None
  OBVIOUS
<1>2. DOMAIN plc = PlcFields
  BY DEF ClosedLoopInv, PlcSane
<1>3. /\ DOMAIN plc' = PlcFields /\ plc'.stage = "idle" /\ plc'.job = None /\ plc'.link = link
      /\ plc'.boot = plc.boot /\ plc'.up = plc.up
  BY <1>1, <1>2 DEF PlcFields
<1>4. PlcSane'
  BY <1>1, <1>3 DEF ClosedLoopInv, PlcSane, None, Boots
<1>5. Spent' = Spent
  BY DEF Spent
<1>6. OnePlace'
  <2>1. inbox' # None => inbox' \notin {pending[1], pending[2]} \cup Spent
    BY DEF ClosedLoopInv, OnePlace
  <2> QED
    BY <1>3, <1>5, <2>1 DEF ClosedLoopInv, OnePlace, None, Boots
<1>7. Underway' = {inbox', pending[1], pending[2]} \ {None}
  BY <1>3 DEF Underway, None
<1> QED
  BY <1>4, <1>6, <1>7 DEF Underway, None

LEMMA PlcTakeStep ==
  ASSUME ClosedLoopInv, PlcTake(Listening), UNCHANGED pending,
         UNCHANGED <<now, plantVars, observerVars, postSource, controlVars>>
  PROVE  ClosedLoopInv'
<1>1. /\ plc.up /\ plc.stage = "idle" /\ inbox # None /\ plc.link /\ inbox' = None
      /\ UNCHANGED <<applied, tx, restart, effects>> /\ UNCHANGED controlVars
  BY DEF PlcTake, controlVars, plantVars
<1>2. /\ DOMAIN plc = PlcFields /\ plc.job = None /\ pending[plc.boot] = None /\ applied = None
      /\ inbox \notin {pending[1], pending[2]} \cup Spent
  BY <1>1 DEF ClosedLoopInv, PlcSane, OnePlace
<1>3. Spent' = Spent
  BY <1>1 DEF Spent
<1>4. CASE /\ plc' = [plc EXCEPT !.stage = "checked", !.job = inbox, !.current = ReadState]
           /\ UNCHANGED reply
  <2>1. /\ DOMAIN plc' = PlcFields /\ plc'.stage = "checked" /\ plc'.job = inbox
        /\ plc'.boot = plc.boot /\ plc'.up = plc.up /\ plc'.link = plc.link
    BY <1>2, <1>4 DEF PlcFields
  <2>2. PlcSane'
    BY <1>1, <1>2, <2>1 DEF ClosedLoopInv, PlcSane, None, Boots
  <2>3. OnePlace'
    BY <1>1, <1>2, <1>3, <2>1 DEF ClosedLoopInv, OnePlace, None, Boots
  <2>4. Underway' = Underway
    BY <1>1, <1>2, <2>1 DEF Underway, None
  <2>5. ReplySane'
    BY <1>1, <1>3, <1>4, <2>4 DEF ClosedLoopInv, ReplySane, Live, Acted, Acting, None
  <2> QED
    BY <1>1, <2>2, <2>3, <2>4, <2>5, PlcMovesOn
<1>5. CASE \E reason : Reject(inbox, "pre_dispatch", reason, ReadState, Listening)
  <2>1. PICK reason : Reject(inbox, "pre_dispatch", reason, ReadState, Listening)
    BY <1>5
  <2>2. PICK m : m = Acknowledgment(inbox, "rejected", "pre_dispatch", reason, ReadState, None)
    OBVIOUS
  <2>3. m.kind = "ack" /\ m.status = "rejected" /\ m.permit = inbox.id
    BY <2>2 DEF Acknowledgment
  <2>4. /\ reply' = IF Listening THEN m ELSE None
        /\ plc' = [plc EXCEPT !.stage = "idle", !.job = None, !.current = None]
    BY <2>1, <2>2 DEF Reject, Answer
  <2>5. plc' = [plc EXCEPT !.stage = "idle", !.job = None, !.current = None, !.link = TRUE]
    <3>1. plc.link = TRUE
      BY <1>1 DEF ClosedLoopInv, PlcSane
    <3> QED
      BY <1>2, <2>4, <3>1 DEF PlcFields
  <2>6. PlcSane' /\ OnePlace' /\ Underway' \subseteq Underway
    BY <1>1, <1>2, <2>5, PlcRests
  <2>7. inbox \notin Underway' /\ inbox \in Underway
    BY <1>1, <1>2, <2>4 DEF Underway, None, PlcFields
  <2>8. PICK p : p = inbox
    OBVIOUS
  <2>9. ~Live(p.id)'
    BY <1>1, <1>2, <2>6, <2>7, <2>8, RejectionTrue
  <2>10. ReplySane'
    BY <1>1, <2>3, <2>4, <2>8, <2>9, AnswerSane
  <2> QED
    BY <1>1, <2>6, <2>10, PlcMovesOn
<1> QED
  BY <1>4, <1>5 DEF PlcTake

\* The PLC rejects the request it has in hand.
LEMMA RejectsJob ==
  ASSUME ClosedLoopInv, NEW phase, NEW reason, NEW pre, Reject(plc.job, phase, reason, pre, Listening),
         plc.up, plc.stage # "idle", plc.job \notin Spent, pending[plc.boot] = None,
         applied' = None, UNCHANGED <<pending, inbox>>,
         UNCHANGED <<now, plantVars, observerVars, postSource, controlVars>>
  PROVE  ClosedLoopInv'
<1>1. UNCHANGED <<tx, restart, effects>> /\ UNCHANGED controlVars
  BY DEF controlVars, plantVars
<1>2. /\ DOMAIN plc = PlcFields /\ plc.job # None /\ plc.link = TRUE /\ plc.boot \in Boots
      /\ DOMAIN pending = Boots
  BY DEF ClosedLoopInv, PlcSane
<1>3. plc.job \notin {inbox, pending[1], pending[2]}
  <2>1. \A b \in Boots : pending[b] # plc.job
    BY <1>2 DEF ClosedLoopInv, OnePlace
  <2> QED
    BY <1>2, <2>1 DEF ClosedLoopInv, OnePlace, Boots
<1>4. PICK m : m = Acknowledgment(plc.job, "rejected", phase, reason, pre, None)
  OBVIOUS
<1>5. m.kind = "ack" /\ m.status = "rejected" /\ m.permit = plc.job.id
  BY <1>4 DEF Acknowledgment
<1>6. /\ reply' = IF Listening THEN m ELSE None
      /\ plc' = [plc EXCEPT !.stage = "idle", !.job = None, !.current = None]
  BY <1>4 DEF Reject, Answer
<1>7. plc' = [plc EXCEPT !.stage = "idle", !.job = None, !.current = None, !.link = TRUE]
  BY <1>2, <1>6 DEF PlcFields
<1>8. PlcSane' /\ OnePlace' /\ Underway' \subseteq Underway /\ plc.job \notin Underway'
  BY <1>1, <1>3, <1>7, PlcRests
<1>9. plc.job \in Underway
  BY <1>2 DEF Underway
<1>10. PICK p : p = plc.job
  OBVIOUS
<1>11. ~Live(p.id)'
  BY <1>1, <1>8, <1>9, <1>10, RejectionTrue
<1>12. ReplySane'
  BY <1>1, <1>5, <1>6, <1>10, <1>11, AnswerSane
<1> QED
  BY <1>1, <1>8, <1>12, PlcMovesOn

LEMMA PlcReserveStep ==
  ASSUME ClosedLoopInv, PlcReserve(Listening), UNCHANGED pending,
         UNCHANGED <<now, plantVars, observerVars, postSource, controlVars>>
  PROVE  ClosedLoopInv'
<1>1. /\ plc.up /\ plc.stage = "checked" /\ plc.link
      /\ UNCHANGED <<inbox, applied, tx, restart, effects>> /\ UNCHANGED controlVars
  BY DEF PlcReserve, controlVars, plantVars
<1>2. /\ DOMAIN plc = PlcFields /\ pending[plc.boot] = None /\ applied = None /\ plc.job \notin Spent
  BY <1>1 DEF ClosedLoopInv, PlcSane, OnePlace
<1>3. CASE plc' = [plc EXCEPT !.stage = "reserved"] /\ UNCHANGED reply
  <2>1. /\ DOMAIN plc' = PlcFields /\ plc'.stage = "reserved" /\ plc'.job = plc.job
        /\ plc'.boot = plc.boot /\ plc'.up = plc.up /\ plc'.link = plc.link
    BY <1>2, <1>3 DEF PlcFields
  <2>2. Spent' = Spent /\ Underway' = Underway
    BY <1>1, <2>1 DEF Underway, Spent, None
  <2>3. PlcSane'
    BY <1>1, <1>2, <2>1 DEF ClosedLoopInv, PlcSane, None, Boots
  <2>4. OnePlace'
    BY <1>1, <1>2, <2>1, <2>2 DEF ClosedLoopInv, OnePlace, None, Boots
  <2>5. ReplySane'
    BY <1>1, <1>3, <2>2 DEF ClosedLoopInv, ReplySane, Live, Acted, Acting, None
  <2> QED
    BY <1>1, <2>2, <2>3, <2>4, <2>5, PlcMovesOn
<1>4. CASE \E reason : Reject(plc.job, "pre_dispatch", reason, plc.current, Listening)
  BY <1>1, <1>2, <1>4, RejectsJob
<1> QED
  BY <1>3, <1>4 DEF PlcReserve

\* The apply request goes into the pipe to the plant, which was empty.
LEMMA PlcSendStep ==
  ASSUME ClosedLoopInv, PlcSend(Listening),
         UNCHANGED <<now, plantVars, observerVars, postSource, controlVars>>
  PROVE  ClosedLoopInv'
<1>1. /\ plc.up /\ plc.stage = "reserved"
      /\ UNCHANGED <<inbox, applied, tx, restart, effects>> /\ UNCHANGED controlVars
  BY DEF PlcSend, controlVars, plantVars
<1>2. /\ DOMAIN plc = PlcFields /\ pending[plc.boot] = None /\ applied = None /\ plc.job \notin Spent
      /\ plc.boot \in Boots /\ DOMAIN pending = Boots /\ plc.link /\ plc.job # None
  BY <1>1 DEF ClosedLoopInv, PlcSane, OnePlace
<1>3. CASE \E reason : Reject(plc.job, "pre_dispatch", reason, plc.current, Listening) /\ UNCHANGED pending
  BY <1>1, <1>2, <1>3, RejectsJob
<1>4. CASE /\ pending' = [pending EXCEPT ![plc.boot] = plc.job]
           /\ plc' = [plc EXCEPT !.stage = "applying"] /\ UNCHANGED reply
  <2>1. /\ DOMAIN plc' = PlcFields /\ plc'.stage = "applying" /\ plc'.job = plc.job
        /\ plc'.boot = plc.boot /\ plc'.up = plc.up /\ plc'.link = plc.link
    BY <1>2, <1>4 DEF PlcFields
  <2>2. /\ DOMAIN pending' = Boots /\ pending'[plc.boot] = plc.job
        /\ \A b \in Boots \ {plc.boot} : pending'[b] = pending[b]
    BY <1>2, <1>4
  <2>3. Spent' = Spent /\ Underway' \subseteq Underway
    BY <1>1, <1>2, <2>1, <2>2 DEF Underway, Spent, None, Boots
  <2>4. \A b \in Boots : pending[b] # plc.job
    BY <1>1, <1>2 DEF ClosedLoopInv, OnePlace
  <2>5. PlcSane'
    BY <1>1, <1>2, <2>1, <2>2 DEF ClosedLoopInv, PlcSane, None, Boots
  <2>6. OnePlace'
    BY <1>1, <1>2, <2>1, <2>2, <2>3, <2>4 DEF ClosedLoopInv, OnePlace, None, Boots
  <2>7. ReplySane'
    BY <1>1, <1>4, <2>3 DEF ClosedLoopInv, ReplySane, Live, Acted, Acting, None
  <2> QED
    BY <1>1, <2>3, <2>5, <2>6, <2>7, PlcMovesOn
<1> QED
  BY <1>3, <1>4 DEF PlcSend

\* An answer that leaves the effect open, or names one that happened.
LEMMA AnswersJob ==
  ASSUME ClosedLoopInv, NEW m, reply' = IF Listening THEN m ELSE None,
         NEW link \in BOOLEAN, link => pending[plc.boot] = None,
         plc' = [plc EXCEPT !.stage = "idle", !.job = None, !.current = None, !.link = link],
         m.kind \in {"ack", "error"},
         m.kind = "ack" => m.status = "unknown" \/ (m.status = "applied" /\ Acted(m.permit)),
         plc.up, applied' = None, inbox' \in {inbox, None}, UNCHANGED pending,
         UNCHANGED <<now, plantVars, observerVars, postSource, controlVars>>
  PROVE  ClosedLoopInv'
<1>1. UNCHANGED <<tx, restart, effects>> /\ UNCHANGED controlVars
  BY DEF controlVars, plantVars
<1>2. PlcSane' /\ OnePlace' /\ Underway' \subseteq Underway
  BY <1>1, PlcRests
<1>3. m.status = "applied" => (Acted(m.permit) => Acted(m.permit)')
  BY <1>1 DEF Acted, Spent
<1>4. ReplySane'
  BY <1>1, <1>3, AnswerSane
<1> QED
  BY <1>1, <1>2, <1>4, PlcMovesOn

LEMMA PlcConcludeStep ==
  ASSUME ClosedLoopInv, PlcConclude(Listening), UNCHANGED pending,
         UNCHANGED <<now, plantVars, observerVars, postSource, controlVars>>
  PROVE  ClosedLoopInv'
<1>1. /\ plc.up /\ plc.stage = "applying" /\ applied # None /\ applied' = None
      /\ UNCHANGED inbox
  BY DEF PlcConclude
<1>2. /\ DOMAIN plc = PlcFields /\ plc.link = TRUE /\ pending[plc.boot] = None
      /\ applied.answer = "none" <=> plc.job \in Spent
  BY <1>1 DEF ClosedLoopInv, PlcSane, OnePlace
<1>3. CASE applied.answer # "none"
  <2>1. PICK reason, pre : Reject(plc.job, "known_no_effect", reason, pre, Listening)
    BY <1>3 DEF PlcConclude
  <2> QED
    BY <1>1, <1>2, <1>3, <2>1, RejectsJob
<1>4. CASE applied.answer = "none"
  <2>1. PICK m : /\ Answer(m, Listening)
                 /\ \/ m = Acknowledgment(plc.job, "applied", "committed", "applied", plc.current, applied.state)
                    \/ m = Acknowledgment(plc.job, "unknown", "effect_unknown", "diverged", plc.current, None)
    BY <1>4 DEF PlcConclude
  <2>2. m.kind = "ack" /\ m.permit = plc.job.id /\ m.status \in {"applied", "unknown"}
    BY <2>1 DEF Acknowledgment
  <2>3. Acted(m.permit)
    BY <1>2, <1>4, <2>2 DEF Acted
  <2>4. /\ reply' = IF Listening THEN m ELSE None
        /\ plc' = [plc EXCEPT !.stage = "idle", !.job = None, !.current = None, !.link = TRUE]
    BY <1>2, <2>1 DEF Answer, PlcFields
  <2> QED
    BY <1>1, <1>2, <2>2, <2>3, <2>4, AnswersJob
<1> QED
  BY <1>3, <1>4

LEMMA PlcGivesUpStep ==
  ASSUME ClosedLoopInv, PlcGiveUp(Listening) \/ PlcFault(Listening), UNCHANGED pending,
         UNCHANGED <<now, plantVars, observerVars, postSource, controlVars>>
  PROVE  ClosedLoopInv'
<1>1. CASE PlcGiveUp(Listening)
  <2>1. PICK m : m = GiveUpAcknowledgment
    OBVIOUS
  <2>2. m.kind = "ack" /\ m.status = "unknown"
    BY <2>1 DEF GiveUpAcknowledgment, Acknowledgment
  <2>3. /\ plc.up /\ applied' = None /\ inbox' = inbox
        /\ reply' = IF Listening THEN m ELSE None
        /\ plc' = [plc EXCEPT !.stage = "idle", !.job = None, !.current = None, !.link = FALSE]
    BY <1>1, <2>1 DEF PlcGiveUp
  <2> QED
    BY <2>2, <2>3, AnswersJob
<1>2. CASE PlcFault(Listening)
  <2>1. PICK m : m = Error
    OBVIOUS
  <2>2. m.kind = "error"
    BY <2>1 DEF Error
  <2>3. /\ reply' = IF Listening THEN m ELSE None
        /\ plc.up /\ plc.stage \in {"idle", "checked"} /\ inbox' \in {inbox, None} /\ applied' = applied
    BY <1>2, <2>1 DEF PlcFault
  <2>4. applied = None /\ (plc.link => pending[plc.boot] = None)
    BY <2>3 DEF ClosedLoopInv, OnePlace, PlcSane
  <2>5. PICK link \in {FALSE, plc.link} :
           plc' = [plc EXCEPT !.stage = "idle", !.job = None, !.current = None, !.link = link]
    BY <1>2 DEF PlcFault
  <2>6. link \in BOOLEAN /\ (link => pending[plc.boot] = None)
    BY <2>4, <2>5 DEF ClosedLoopInv, PlcSane
  <2> QED
    BY <2>2, <2>3, <2>4, <2>5, <2>6, AnswersJob
<1> QED
  BY <1>1, <1>2

(***************************************************************************)
(* The plant acts: only under the very observation the permit is bound to, *)
(* so no request acts twice.                                               *)
(***************************************************************************)
LEMMA PlantActs ==
  ASSUME ClosedLoopInv, NEW b \in Boots, pending[b] # None, ApplyReason(pending[b]) = "none",
         plant' = [state |-> Candidate(plant.state, pending[b].req), seq |-> plant.seq + 1, at |-> now],
         effects' = Append(effects, [permit |-> pending[b], pre |-> plant])
  PROVE  /\ pending[b].pre = plant /\ EffectsInOrder' /\ Spent' = Spent \cup {pending[b]}
         /\ plant'.seq = plant.seq + 1 /\ DOMAIN plant' = {"state", "seq", "at"}
         /\ Range(effects') = Range(effects) \cup {[permit |-> pending[b], pre |-> plant]}
<1> DEFINE p == pending[b]
           e == [permit |-> p, pre |-> plant]
           n == Len(effects)
<1>1. p.pre = plant
  BY DEF ApplyReason, PrecommitReason
<1>2. /\ plant'.seq = plant.seq + 1 /\ DOMAIN plant' = {"state", "seq", "at"} /\ plant.seq \in Nat
  BY DEF ClosedLoopInv, ObservationsInOrder
<1>3. /\ effects \in Seq(Range(effects)) /\ None \notin Spent
      /\ \A i \in DOMAIN effects : /\ effects[i].pre = effects[i].permit.pre
                                   /\ effects[i].pre.seq \in Nat /\ effects[i].pre.seq < plant.seq
      /\ \A i, j \in DOMAIN effects : effects[i].permit.req = effects[j].permit.req => i = j
  BY DEF ClosedLoopInv, EffectsInOrder
<1>4. n \in Nat /\ DOMAIN effects = 1..n /\ DOMAIN effects' = 1..(n + 1)
      /\ effects'[n + 1] = e /\ \A i \in 1..n : effects'[i] = effects[i]
  BY <1>3
<1>5. e.permit = p /\ e.pre = plant
  OBVIOUS
<1>6. p \in Issued /\ p # None
  BY DEF Issued, Underway, Boots
<1> HIDE DEF p, e, n
<1>7. Spent' = Spent \cup {p}
  BY <1>4, <1>5 DEF Spent
<1>8. Range(effects') = Range(effects) \cup {e}
  BY <1>4 DEF Range
<1>9. effects' \in Seq(Range(effects'))
  <2>1. effects' \in Seq(Range(effects) \cup {e})
    BY <1>3 DEF e, p
  <2> QED
    BY <1>8, <2>1
<1>10. \A i \in 1..n : effects[i].permit.req # p.req
  <2> SUFFICES ASSUME NEW i \in 1..n, effects[i].permit.req = p.req
               PROVE  FALSE
    OBVIOUS
  <2>1. effects[i].permit \in Issued
    BY <1>3, <1>4 DEF Issued, Spent
  <2>2. effects[i].permit.pre = p.pre
    BY <1>6, <2>1 DEF ClosedLoopInv, PermitsBound, IsPermit
  <2>3. effects[i].pre = plant
    BY <1>1, <1>3, <1>4, <2>2 DEF p
  <2> QED
    BY <1>2, <1>3, <1>4, <2>3
<1>11. \A i \in 1..(n + 1) : /\ effects'[i].pre = effects'[i].permit.pre
                             /\ effects'[i].pre.seq \in Nat /\ effects'[i].pre.seq < plant'.seq
  <2> SUFFICES ASSUME NEW i \in 1..(n + 1)
               PROVE  /\ effects'[i].pre = effects'[i].permit.pre
                      /\ effects'[i].pre.seq \in Nat /\ effects'[i].pre.seq < plant'.seq
    OBVIOUS
  <2>1. CASE i = n + 1
    <3>1. effects'[i].permit = p /\ effects'[i].pre = plant
      BY <1>4, <1>5, <2>1
    <3>2. effects'[i].pre = effects'[i].permit.pre
      BY <1>1, <3>1
    <3>3. plant.seq < plant'.seq
      BY <1>2
    <3> QED
      BY <1>2, <3>1, <3>2, <3>3
  <2>2. CASE i # n + 1
    <3>1. i \in 1..n /\ effects'[i] = effects[i]
      BY <1>4, <2>2
    <3> QED
      BY <1>2, <1>3, <1>4, <3>1
  <2> QED
    BY <2>1, <2>2
<1>12. \A i, j \in 1..(n + 1) : effects'[i].permit.req = effects'[j].permit.req => i = j
  <2> SUFFICES ASSUME NEW i \in 1..(n + 1), NEW j \in 1..(n + 1),
                      effects'[i].permit.req = effects'[j].permit.req
               PROVE  i = j
    OBVIOUS
  <2>1. \A k \in 1..(n + 1) : k = n + 1 \/ (k \in 1..n /\ effects'[k] = effects[k])
    BY <1>4
  <2>2. effects'[n + 1].permit.req = p.req
    BY <1>4, <1>5
  <2> QED
    BY <1>3, <1>4, <1>10, <2>1, <2>2
<1>13. EffectsInOrder'
  BY <1>3, <1>4, <1>6, <1>7, <1>9, <1>11, <1>12 DEF EffectsInOrder, None
<1> QED
  BY <1>1, <1>2, <1>7, <1>8, <1>13 DEF p, e

LEMMA PlantApplyStep ==
  ASSUME ClosedLoopInv, NEW b \in Boots, PlantApply(b),
         UNCHANGED <<now, observerVars, postSource, controlVars>>
  PROVE  ClosedLoopInv'
<1> DEFINE p == pending[b]
<1>1. PICK answer :
        /\ ServeApply(b, answer)
        /\ applied' = IF plc.up /\ plc.boot = b /\ plc.stage = "applying"
                      THEN [answer |-> answer, state |-> plant'.state] ELSE applied
        /\ UNCHANGED <<plc, inbox, reserved, reply>>
  BY DEF PlantApply
<1>2. /\ p # None /\ pending' = [pending EXCEPT ![b] = None] /\ answer = ApplyReason(p)
      /\ UNCHANGED <<asked, tx, attempts, results, restart>>
  BY <1>1 DEF ServeApply, controlVars
<1>3. /\ DOMAIN pending = Boots /\ p \notin Spent /\ plc.boot \in Boots
      /\ p = plc.job => b = plc.boot /\ plc.stage = "applying"
  BY <1>2 DEF ClosedLoopInv, PlcSane, OnePlace
<1>4. DOMAIN pending' = Boots /\ pending'[b] = None /\ \A c \in Boots \ {b} : pending'[c] = pending[c]
  BY <1>2, <1>3
<1>5. /\ EffectsInOrder' /\ DOMAIN plant' = {"state", "seq", "at"} /\ plant'.seq \in Nat
      /\ plant.seq <= plant'.seq
      /\ Spent' = IF answer = "none" THEN Spent \cup {p} ELSE Spent
  <2>0. plant.seq \in Nat /\ DOMAIN plant = {"state", "seq", "at"}
    BY DEF ClosedLoopInv, ObservationsInOrder
  <2>1. CASE answer = "none"
    <3>1. /\ plant' = [state |-> Candidate(plant.state, p.req), seq |-> plant.seq + 1, at |-> now]
          /\ effects' = Append(effects, [permit |-> p, pre |-> plant])
      BY <1>1, <2>1 DEF ServeApply
    <3>2. /\ EffectsInOrder' /\ Spent' = Spent \cup {pending[b]}
          /\ plant'.seq = plant.seq + 1 /\ DOMAIN plant' = {"state", "seq", "at"}
      BY <1>2, <2>1, <3>1, PlantActs
    <3> QED
      BY <2>0, <2>1, <3>2
  <2>2. CASE answer # "none"
    <3>1. plant' = plant /\ effects' = effects
      BY <1>1, <2>2 DEF ServeApply, plantVars
    <3>2. Spent' = Spent
      BY <3>1 DEF Spent
    <3> QED
      BY <2>0, <2>2, <3>1, <3>2 DEF ClosedLoopInv, EffectsInOrder, Range, None
  <2> QED
    BY <2>1, <2>2
<1>6. Underway' \subseteq Underway /\ p \in Underway
  BY <1>1, <1>2, <1>4 DEF Underway, None, Boots
<1>7. Acting' \subseteq Acting /\ Spent \subseteq Spent'
  BY <1>5, <1>6 DEF Acting
<1>8. PlcSane'
  BY <1>1, <1>2, <1>4 DEF ClosedLoopInv, PlcSane, None, Boots
<1>9. CASE ~(plc.up /\ plc.boot = b /\ plc.stage = "applying")
  <2>1. applied' = applied /\ p # plc.job
    BY <1>1, <1>3, <1>9 DEF ClosedLoopInv, PlcSane
  <2>2. \A c \in Boots \ {b} : pending[c] # None => pending[c] # p
    BY <1>2 DEF ClosedLoopInv, OnePlace, Boots
  <2>3. inbox # None => inbox # p
    BY DEF ClosedLoopInv, OnePlace, Boots
  <2>4. plc.stage = "applying" => plc.boot # b
    BY <1>9 DEF ClosedLoopInv, PlcSane
  <2>5. OnePlace'
    BY <1>1, <1>3, <1>4, <1>5, <2>1, <2>2, <2>3, <2>4 DEF ClosedLoopInv, OnePlace, None, Boots
  <2>6. ReplySane'
    BY <1>1, <1>2, <1>7 DEF ClosedLoopInv, ReplySane, Live, Acted, None
  <2> QED
    BY <1>2, <1>5, <1>7, <1>8, <2>5, <2>6, PlcMoves
<1>10. CASE plc.up /\ plc.boot = b /\ plc.stage = "applying"
  <2>1. applied' # None /\ applied'.answer = answer
    BY <1>1, <1>10 DEF None
  <2>2. p = plc.job /\ plc.job # None
    BY <1>2, <1>10 DEF ClosedLoopInv, OnePlace, PlcSane
  <2>3. \A c \in Boots \ {b} : pending[c] # None => pending[c] # p
    BY <1>2 DEF ClosedLoopInv, OnePlace, Boots
  <2>4. inbox # None => inbox # p
    BY DEF ClosedLoopInv, OnePlace, Boots
  <2>5. OnePlace'
    BY <1>1, <1>3, <1>4, <1>5, <1>10, <2>1, <2>2, <2>3, <2>4 DEF ClosedLoopInv, OnePlace, None, Boots
  <2>6. ReplySane'
    BY <1>1, <1>2, <1>7 DEF ClosedLoopInv, ReplySane, Live, Acted, None
  <2> QED
    BY <1>2, <1>5, <1>7, <1>8, <2>5, <2>6, PlcMoves
<1> QED
  BY <1>9, <1>10

\* restart_plc: what the old PLC sent to the plant stays in its pipe.
LEMMA RestartSteps ==
  ASSUME ClosedLoopInv, Restart, UNCHANGED <<now, plantVars, observerVars, postSource, pending>>
  PROVE  ClosedLoopInv'
<1>1. UNCHANGED <<asked, tx, attempts, results, plant, effects, applied>>
  BY DEF Restart, StopPlc, SpawnPlc, SwapPlc, plantVars, plcVars
<1>2. Spent' = Spent
  BY <1>1 DEF Spent
<1>3. /\ EffectsInOrder' /\ DOMAIN plant' = {"state", "seq", "at"} /\ plant'.seq \in Nat
      /\ plant.seq <= plant'.seq
  BY <1>1, <1>2 DEF ClosedLoopInv, EffectsInOrder, ObservationsInOrder, Range, None
<1>4. PlcSane' /\ OnePlace' /\ Underway' \subseteq Underway
  <2>1. CASE StopPlc
    <3>1. /\ restart' = "stopped" /\ inbox' = None /\ plc' = [plc EXCEPT !.up = FALSE]
          /\ plc.stage = "idle" /\ restart = "none"
      BY <2>1 DEF StopPlc
    <3>2. /\ DOMAIN plc' = PlcFields /\ plc'.up = FALSE /\ plc'.stage = plc.stage /\ plc'.job = plc.job
          /\ plc'.boot = plc.boot /\ plc'.link = plc.link
      BY <3>1 DEF ClosedLoopInv, PlcSane, PlcFields
    <3> QED
      BY <1>1, <1>2, <3>1, <3>2 DEF ClosedLoopInv, PlcSane, OnePlace, Underway, None, Boots
  <2>2. CASE SpawnPlc
    <3>1. /\ restart' = "spawned" /\ inbox' = inbox /\ restart = "stopped"
          /\ plc' = [boot |-> 2, up |-> TRUE, stage |-> "idle", job |-> None, current |-> None, link |-> TRUE]
      BY <2>2 DEF SpawnPlc
    <3>2. /\ DOMAIN plc' = PlcFields /\ plc'.stage = "idle" /\ plc'.job = None
          /\ plc'.boot = 2 /\ plc'.link = TRUE
      BY <3>1 DEF PlcFields
    <3>3. plc.stage = "idle" /\ plc.job = None /\ pending[2] = None
      BY <3>1 DEF ClosedLoopInv, PlcSane
    <3> QED
      BY <1>1, <1>2, <3>1, <3>2, <3>3 DEF ClosedLoopInv, PlcSane, OnePlace, Underway, None, Boots
  <2>3. CASE SwapPlc
    BY <1>1, <1>2, <2>3 DEF SwapPlc, plcVars, ClosedLoopInv, PlcSane, OnePlace, Underway, None, Boots
  <2> QED
    BY <2>1, <2>2, <2>3 DEF Restart
<1>5. ReplySane'
  <2>1. reply' = reply \/ reply' = None
    BY DEF Restart, StopPlc, SpawnPlc, SwapPlc, plcVars
  <2> QED
    BY <1>1, <1>2, <1>4, <2>1 DEF ClosedLoopInv, ReplySane, Live, Acted, Acting, None
<1> QED
  BY <1>1, <1>2, <1>3, <1>4, <1>5, PlcMoves DEF Acting

----------------------------------------------------------------------------
(* The specification. *)

LEMMA ClosedLoopInitially == Init => ClosedLoopInv
<1> SUFFICES ASSUME Init
             PROVE  ClosedLoopInv
  OBVIOUS
<1>1. /\ plant = [state |-> Baseline, seq |-> 0, at |-> 0] /\ effects = <<>> /\ observed = 0
      /\ cache = <<>> /\ pending = [b \in Boots |-> None] /\ inbox = None /\ applied = None
      /\ reply = None /\ asked = [r \in Requests |-> None] /\ tx = None /\ attempts = 0
      /\ restart = "none" /\ results = {}
      /\ plc = [boot |-> 1, up |-> TRUE, stage |-> "idle", job |-> None, current |-> None, link |-> TRUE]
  BY DEF Init, PlantInit, PlcInit
<1>2. ObservationsInOrder
  BY <1>1 DEF ObservationsInOrder, ToSet
<1>3. Spent = {} /\ Underway = {} /\ Issued = {}
  BY <1>1 DEF Spent, Underway, Issued, TxPermits, Boots
<1>4. PermitsBound
  BY <1>3 DEF PermitsBound
<1>5. EffectsInOrder
  BY <1>1, <1>3 DEF EffectsInOrder, Range
<1>6. PlcSane
  BY <1>1 DEF PlcSane, PlcFields, Boots
<1>7. OnePlace
  BY <1>1 DEF OnePlace, Boots
<1>8. TxSane /\ ReplySane /\ ResultsTrue
  BY <1>1 DEF TxSane, ReplySane, ResultsTrue
<1> QED
  BY <1>1, <1>2, <1>4, <1>5, <1>6, <1>7, <1>8 DEF ClosedLoopInv

\* The clock enters nothing that is remembered.
LEMMA ClosedLoopStutters ==
  ASSUME ClosedLoopInv, UNCHANGED <<plantVars, observerVars, pending, plcVars, controlVars>>
  PROVE  ClosedLoopInv'
<1>1. /\ UNCHANGED <<plantVars, observerVars, pending, inbox, plc, applied, asked, attempts, restart>>
      /\ UNCHANGED <<tx, results, reply, effects>>
  BY DEF plantVars, plcVars, controlVars
<1>2. Spent' = Spent /\ Acting' = Acting /\ TxPermits' = TxPermits
  BY <1>1 DEF Spent, Acting, Underway, TxPermits, None
<1>3. TxSane' /\ ReplySane'
  BY <1>1, <1>2 DEF ClosedLoopInv, TxSane, ReplySane, Live, Acted, None, Candidate
<1>4. ResultsTrue'
  BY <1>1, <1>2, ResultsKept DEF ClosedLoopInv
<1> QED
  BY <1>1, <1>2, <1>3, <1>4, RecordedStep

LEMMA ClosedLoopStep ==
  ASSUME ClosedLoopInv, [Next]_vars
  PROVE  ClosedLoopInv'
<1>1. CASE UNCHANGED vars
  BY <1>1, ClosedLoopStutters DEF vars, plantVars, observerVars
<1>2. CASE Tick /\ UNCHANGED <<plantVars, observerVars, postSource, pending, plcVars, controlVars>>
  BY <1>2, ClosedLoopStutters
<1>3. CASE CapturePre /\ UNCHANGED <<now, postSource, pending, plcVars, controlVars>>
  BY <1>3, CapturePreStep
<1>4. CASE PlcStep /\ UNCHANGED <<now, plantVars, observerVars, postSource, controlVars>>
  BY <1>4, PlcTakeStep, PlcReserveStep, PlcSendStep, PlcConcludeStep, PlcGivesUpStep DEF PlcStep
<1>5. CASE \E b \in Boots : PlantApply(b) /\ UNCHANGED <<now, observerVars, postSource, controlVars>>
  BY <1>5, PlantApplyStep
<1>6. CASE Decide /\ UNCHANGED <<now, plantVars, observerVars, postSource, pending, plcVars>>
  BY <1>6, SubmitStep, DecideSteps, IssuePermitStep DEF Decide
<1>7. CASE /\ Dispatch \/ Acknowledged \/ DispatchGivesUp \/ Restart
           /\ UNCHANGED <<now, plantVars, observerVars, postSource, pending>>
  BY <1>7, DispatchStep, AcknowledgedStep, RestartSteps
<1>8. CASE (Complete \/ PostFails) /\ UNCHANGED <<now, postSource, pending, plcVars>>
  BY <1>8, CompleteStep
<1> QED
  BY <1>1, <1>2, <1>3, <1>4, <1>5, <1>6, <1>7, <1>8 DEF Next

(***************************************************************************)
(* The inductive invariant: a permit is bound to the one observation of    *)
(* its request, is in one place, and every answer and disposition is true  *)
(* of that place.                                                          *)
(***************************************************************************)
THEOREM ClosedLoopInvariant == Spec => []ClosedLoopInv
<1>1. Init => ClosedLoopInv
  BY ClosedLoopInitially
<1>2. ClosedLoopInv /\ [Next]_vars => ClosedLoopInv'
  BY ClosedLoopStep
<1> QED
  BY <1>1, <1>2, PTL DEF Spec

(***************************************************************************)
(* A recorded disposition stays true of the plant, for any requests,       *)
(* timeouts, replacements of the PLC and late deliveries                   *)
(* (CapabilityClosedLoopController._execute_locked).                       *)
(***************************************************************************)
THEOREM DispositionsStayTrue == Spec => []DispositionStaysTrue
<1>1. ASSUME ClosedLoopInv
      PROVE  DispositionStaysTrue
  <2>1. \A i \in DOMAIN effects : effects[i].permit \in Spent /\ effects[i].permit \in Issued
    BY <1>1 DEF Spent, Issued, ClosedLoopInv, EffectsInOrder
  <2>2. ASSUME NEW r \in results, r.status = "completed"
        PROVE  \E i \in EffectsOf(r.id) :
                 /\ EffectsOf(r.id) = {i}
                 /\ effects[i].pre = r.obs.snap
                 /\ r.post.snap.state = Candidate(effects[i].pre.state, r.req)
    <3>1. PICK p \in Spent : p.id = r.id /\ p.req = r.req /\ p.obs = r.obs /\ r.post.snap.state = p.post
      BY <1>1, <2>2 DEF ClosedLoopInv, ResultsTrue
    <3>2. PICK i \in DOMAIN effects : effects[i].permit = p
      BY <3>1 DEF Spent
    <3>3. p.pre = p.obs.snap /\ p.post = Candidate(p.pre.state, p.req) /\ effects[i].pre = p.pre
      BY <1>1, <2>1, <3>2 DEF ClosedLoopInv, PermitsBound, IsPermit, EffectsInOrder
    <3>4. \A j \in DOMAIN effects : effects[j].permit.id = r.id => j = i
      <4> SUFFICES ASSUME NEW j \in DOMAIN effects, effects[j].permit.id = r.id
                   PROVE  j = i
        OBVIOUS
      <4>1. effects[j].permit = effects[i].permit
        BY <1>1, <2>1, <3>1, <3>2 DEF ClosedLoopInv, PermitsBound
      <4> QED
        BY <1>1, <4>1 DEF ClosedLoopInv, EffectsInOrder
    <3>5. i \in EffectsOf(r.id) /\ EffectsOf(r.id) = {i}
      BY <3>1, <3>2, <3>4 DEF EffectsOf
    <3>6. effects[i].pre = r.obs.snap /\ r.post.snap.state = Candidate(effects[i].pre.state, r.req)
      BY <3>1, <3>3
    <3> QED
      BY <3>5, <3>6
  <2>3. ASSUME NEW r \in results, r.status \in NoEffect
        PROVE  EffectsOf(r.id) = {}
    <3>1. ~Live(r.id)
      BY <1>1, <2>3 DEF ClosedLoopInv, ResultsTrue
    <3> QED
      BY <2>1, <3>1 DEF EffectsOf, Live, Acting
  <2>4. \A r \in results : r.status \in NoEffect \cup {"completed", "unknown_effect", "observation_diverged"}
    BY <1>1 DEF ClosedLoopInv, ResultsTrue
  <2>5. \A i, j \in DOMAIN effects : effects[i].permit.req = effects[j].permit.req => i = j
    BY <1>1 DEF ClosedLoopInv, EffectsInOrder
  <2> QED
    BY <2>2, <2>3, <2>4, <2>5 DEF DispositionStaysTrue, NoEffect
<1> QED
  BY <1>1, ClosedLoopInvariant, PTL

\* Only the plant has effects, and only under the observation it last made.
LEMMA EffectsSettled ==
  ASSUME ClosedLoopInv, Next, NEW e \in Range(effects') \ Range(effects),
         NEW i \in DOMAIN cache, cache[i].phase = "pre"
  PROVE  cache[i].seq <= e.permit.obs.seq
<1>1. effects' # effects
  OBVIOUS
<1>2. PICK b \in Boots : PlantApply(b)
  BY <1>1 DEF Next, CapturePre, CapturePost, Complete, PostFails, Capture, plantVars
<1>3. PICK answer : ServeApply(b, answer)
  BY <1>2 DEF PlantApply
<1>4. /\ pending[b] # None /\ ApplyReason(pending[b]) = "none"
      /\ plant' = [state |-> Candidate(plant.state, pending[b].req), seq |-> plant.seq + 1, at |-> now]
      /\ effects' = Append(effects, [permit |-> pending[b], pre |-> plant])
  BY <1>1, <1>3 DEF ServeApply, plantVars
<1>5. pending[b].pre = plant /\ e = [permit |-> pending[b], pre |-> plant]
  BY <1>4, PlantActs
<1>6. e.permit = pending[b]
  BY <1>5
<1>7. pending[b] \in Issued
  BY <1>4 DEF Issued, Underway, Boots
<1>8. PICK p : p = pending[b]
  OBVIOUS
<1>9. p.req \in Requests /\ p.obs = asked[p.req] /\ p.obs # None /\ p.obs.snap = plant
  BY <1>5, <1>7, <1>8 DEF ClosedLoopInv, PermitsBound, IsPermit
<1>10. IsObservation(p.obs)
  BY <1>9 DEF ClosedLoopInv, ObservationsInOrder
<1>11. cache[i] \in ToSet(cache) /\ IsObservation(cache[i])
  BY DEF ClosedLoopInv, ObservationsInOrder, ToSet
<1>12. ~(p.obs.seq < cache[i].seq)
  <2>1. plant.seq \in Nat
    BY DEF ClosedLoopInv, ObservationsInOrder
  <2>2. cache[i].snap.seq \in Nat /\ cache[i].snap.seq <= plant.seq
    BY <1>11 DEF IsObservation
  <2>3. p.obs.seq < cache[i].seq => plant.seq < cache[i].snap.seq
    BY <1>9, <1>10, <1>11 DEF IsObservation
  <2> QED
    BY <2>1, <2>2, <2>3
<1>13. p.obs.seq \in Nat /\ cache[i].seq \in Nat
  BY <1>10, <1>11 DEF IsObservation
<1> QED
  BY <1>6, <1>8, <1>12, <1>13

(***************************************************************************)
(* Once the plant has been observed again, no permit bound to an older     *)
(* observation takes effect any more, in whatever pipe it still waits      *)
(* (apply_authorized_command).                                             *)
(***************************************************************************)
THEOREM ObservationsSettle == Spec => ObservationSettlesEffects
<1>1. ASSUME ClosedLoopInv, [Next]_vars
      PROVE  [\A e \in Range(effects') \ Range(effects) :
                \A i \in DOMAIN cache : cache[i].phase = "pre" => cache[i].seq <= e.permit.obs.seq]_vars
  BY <1>1, EffectsSettled
<1> QED
  BY <1>1, ClosedLoopInvariant, PTL DEF Spec, ObservationSettlesEffects

------------------------------------------------------------------------------
(***************************************************************************)
(* Proof, for any topology, that the search decides reachability.  While   *)
(* it runs, what is reached is supplied, and every bus that is reached and *)
(* no longer waiting has all its neighbours reached.                       *)
(***************************************************************************)
SearchHolds ==
    evaluator.pc \in {"baseline", "predict"} =>
        /\ fixture.sources \subseteq evaluator.reached
        /\ evaluator.work \subseteq evaluator.reached
        /\ evaluator.reached \subseteq Supplied(SearchedBranches, fixture.sources)
        /\ \A b \in evaluator.reached \ evaluator.work :
              Neighbours(SearchedBranches, b) \subseteq evaluator.reached

Decidable == Evaluable /\ PrestateUsable /\ question.post.converged

\* The search and the report it has written, if any.
EvaluatorType ==
    /\ evaluator = [pc |-> evaluator.pc, reached |-> evaluator.reached, work |-> evaluator.work,
                    report |-> evaluator.report]
    /\ evaluator.pc \in {"start", "baseline", "predict", "done"}
    /\ evaluator.reached \subseteq Buses /\ evaluator.work \subseteq Buses

EvaluatorInv ==
    /\ fixture.closed \subseteq Branches /\ fixture.sources \subseteq Buses
    /\ EvaluatorType
    /\ evaluator.pc \in {"baseline", "predict"} => Decidable
    /\ evaluator.pc = "predict" => question.pre.values = BaselineValues(fixture)
    /\ SearchHolds
    /\ AgreementIsReachability

\* A closed branch brings the search from one of its buses to the other, so a set that
\* holds the sources and the neighbours of its buses holds every supplied bus.
LEMMA ClosedUnderNeighbours ==
    ASSUME NEW closed \in SUBSET Branches, NEW sources, NEW S \in SUBSET Buses,
           sources \subseteq S, \A b \in S : Neighbours(closed, b) \subseteq S
    PROVE  Supplied(closed, sources) \subseteq S
<1>1. \A br \in closed : Ends[br][1] \in S <=> Ends[br][2] \in S
  <2>1. SUFFICES ASSUME NEW br \in closed PROVE Ends[br][1] \in S <=> Ends[br][2] \in S
    OBVIOUS
  <2>2. /\ Ends[br][1] \in Buses /\ Ends[br][2] \in Buses
        /\ Ends[br] = <<Ends[br][1], Ends[br][2]>>
    BY TopologyAssumption
  <2>3. /\ Ends[br][2] \in Neighbours(closed, Ends[br][1])
        /\ Ends[br][1] \in Neighbours(closed, Ends[br][2])
    BY <2>2 DEF Neighbours
  <2>4. QED
    BY <2>3
<1>2. QED
  BY <1>1 DEF Supplied, Reaches

LEMMA NeighboursAreSupplied ==
    ASSUME NEW closed \in SUBSET Branches, NEW sources \in SUBSET Buses,
           NEW b \in Supplied(closed, sources)
    PROVE  Neighbours(closed, b) \subseteq Supplied(closed, sources)
<1>1. SUFFICES ASSUME NEW n \in Neighbours(closed, b), NEW S \in SUBSET Buses,
                      sources \subseteq S,
                      \A br \in closed : Ends[br][1] \in S <=> Ends[br][2] \in S
               PROVE  n \in S
  BY DEF Supplied, Reaches, Neighbours
<1>2. b \in S
  BY <1>1 DEF Supplied, Reaches
<1>3. PICK br \in closed : Ends[br] = <<b, n>> \/ Ends[br] = <<n, b>>
  BY DEF Neighbours
<1>4. QED
  BY <1>1, <1>2, <1>3

LEMMA SourcesAreSupplied ==
    ASSUME NEW closed, NEW sources \in SUBSET Buses
    PROVE  sources \subseteq Supplied(closed, sources) /\ Supplied(closed, sources) \subseteq Buses
BY DEF Supplied, Reaches

\* An exhausted worklist: what is reached is what is supplied.
LEMMA SearchComplete ==
    ASSUME EvaluatorInv, evaluator.pc \in {"baseline", "predict"}, evaluator.work = {}
    PROVE  evaluator.reached = Supplied(SearchedBranches, fixture.sources)
<1>1. SearchedBranches \in SUBSET Branches /\ evaluator.reached \in SUBSET Buses
  BY TopologyAssumption DEF EvaluatorInv, EvaluatorType, SearchedBranches, Closed
<1>2. /\ fixture.sources \subseteq evaluator.reached
      /\ evaluator.reached \subseteq Supplied(SearchedBranches, fixture.sources)
      /\ \A b \in evaluator.reached :
            Neighbours(SearchedBranches, b) \subseteq evaluator.reached
  BY DEF EvaluatorInv, SearchHolds
<1>3. Supplied(SearchedBranches, fixture.sources) \subseteq evaluator.reached
  BY <1>1, <1>2, ClosedUnderNeighbours
<1>4. QED
  BY <1>2, <1>3

LEMMA ReportType ==
    ASSUME EvaluatorType, NEW status, NEW reason, Report(status, reason)
    PROVE  /\ EvaluatorType' /\ evaluator'.pc = "done"
           /\ evaluator'.report.status = status /\ evaluator'.report.exit = ExitStatus(status)
BY DEF EvaluatorType, Report

LEMMA ExitStatuses ==
    /\ ExitStatus("agree") = 0 /\ ExitStatus("not_applicable") = 0
    /\ ExitStatus("contradict") = 1 /\ ExitStatus("indeterminate") = 1
    /\ ExitStatus("input_rejected") = 2
BY DEF ExitStatus

LEMMA InitEvaluator == EvaluatorInit => EvaluatorInv
<1> SUFFICES ASSUME EvaluatorInit PROVE EvaluatorInv
  OBVIOUS
<1>1. fixture.closed \subseteq Branches /\ fixture.sources \subseteq Buses
  BY DEF EvaluatorInit
<1>2. evaluator = [pc |-> "start", reached |-> {}, work |-> {}, report |-> NoReport]
  BY DEF EvaluatorInit, Launched
<1>3. QED
  BY <1>1, <1>2 DEF EvaluatorInv, EvaluatorType, SearchHolds, AgreementIsReachability

LEMMA NextEvaluator == EvaluatorInv /\ [EvaluatorNext]_evaluatorVars => EvaluatorInv'
<1> SUFFICES ASSUME EvaluatorInv, [EvaluatorNext]_evaluatorVars PROVE EvaluatorInv'
  OBVIOUS
<1> DEFINE decided == Decidable /\ question.pre.values = BaselineValues(fixture)
           agrees == question.post.values = Consequence(fixture, question.command.setpoint)
<1>1. fixture.closed \subseteq Branches /\ fixture.sources \subseteq Buses /\ EvaluatorType
  BY DEF EvaluatorInv
<1>2. ASSUME UNCHANGED <<fixture, question>>, evaluator'.pc = "done", EvaluatorType',
             evaluator'.report.status = "agree" <=> decided /\ agrees,
             evaluator'.report.status = "contradict" <=> decided /\ ~agrees,
             evaluator'.report.exit = 0 <=>
                 (decided /\ agrees) \/ (Admitted /\ question.command = Absent)
      PROVE  EvaluatorInv'
  <2>1. AgreementIsReachability'
    BY <1>2 DEF AgreementIsReachability, Decidable, Evaluable, Admitted, PrestateUsable,
                BaselineValues, Consequence
  <2>2. QED
    BY <1>1, <1>2, <2>1 DEF EvaluatorInv, SearchHolds
<1>3. CASE UNCHANGED evaluatorVars
  BY <1>3 DEF evaluatorVars, EvaluatorInv, EvaluatorType, SearchHolds, AgreementIsReachability, Decidable,
              Evaluable, Admitted, PrestateUsable, BaselineValues, Consequence, SearchedBranches
<1>4. CASE RejectInput
  <2>1. PICK reason : Report("input_rejected", reason)
    BY <1>4 DEF RejectInput
  <2>2. /\ EvaluatorType' /\ evaluator'.pc = "done"
        /\ evaluator'.report.status = "input_rejected" /\ evaluator'.report.exit = 2
    BY <1>1, <2>1, ReportType, ExitStatuses
  <2>3. QED
    BY <1>2, <1>4, <2>2 DEF RejectInput, Decidable, Evaluable
<1>5. CASE Decline
  <2>1. UNCHANGED <<fixture, question>> /\ Admitted
    BY <1>5 DEF Decline
  <2>2. CASE question.command = Absent
    <3>1. Report("not_applicable", "no_consequence_artifacts")
      BY <1>5, <2>2 DEF Decline
    <3>2. /\ EvaluatorType' /\ evaluator'.pc = "done"
          /\ evaluator'.report.status = "not_applicable" /\ evaluator'.report.exit = 0
      BY <1>1, <3>1, ReportType, ExitStatuses
    <3>3. QED
      BY <1>2, <2>1, <2>2, <3>2 DEF Decidable, Evaluable
  <2>3. CASE question.command # Absent
    <3>1. ~Evaluable /\ \/ Report("indeterminate", "outside_profile")
                        \/ Report("input_rejected", "command_fixture_binding_mismatch")
      BY <1>5, <2>3 DEF Decline, Evaluable
    <3>2. /\ EvaluatorType' /\ evaluator'.pc = "done"
          /\ evaluator'.report.status \in {"indeterminate", "input_rejected"}
          /\ evaluator'.report.exit \in {1, 2}
      BY <1>1, <3>1, ReportType, ExitStatuses
    <3>3. QED
      BY <1>2, <2>1, <2>3, <3>1, <3>2 DEF Decidable
  <2>4. QED
    BY <2>2, <2>3
<1>6. CASE DeclineState
  <2>1. /\ UNCHANGED <<fixture, question>> /\ ~Decidable /\ question.command # Absent
        /\ Report("indeterminate", "state_outside_baseline")
    BY <1>6 DEF DeclineState, Decidable, Evaluable
  <2>2. /\ EvaluatorType' /\ evaluator'.pc = "done"
        /\ evaluator'.report.status = "indeterminate" /\ evaluator'.report.exit = 1
    BY <1>1, <2>1, ReportType, ExitStatuses
  <2>3. QED
    BY <1>2, <2>1, <2>2
<1>7. ASSUME NEW pc \in {"baseline", "predict"}, UNCHANGED <<fixture, question>>, Decidable,
             evaluator' = Searching(pc), pc = "predict" => question.pre.values = BaselineValues(fixture)
      PROVE  EvaluatorInv'
  <2>1. /\ EvaluatorType' /\ evaluator'.pc = pc
        /\ evaluator'.reached = fixture.sources /\ evaluator'.work = fixture.sources
    BY <1>1, <1>7 DEF Searching, EvaluatorType
  <2>2. SearchHolds'
    BY <1>1, <1>7, <2>1, SourcesAreSupplied DEF SearchHolds
  <2>3. Decidable' /\ AgreementIsReachability' /\ (BaselineValues(fixture))' = BaselineValues(fixture)
    BY <1>7, <2>1 DEF Decidable, Evaluable, Admitted, PrestateUsable, AgreementIsReachability,
                      BaselineValues
  <2>4. QED
    BY <1>1, <1>7, <2>1, <2>2, <2>3 DEF EvaluatorInv
<1>8. CASE StartBaseline
  BY <1>7, <1>8 DEF StartBaseline, Decidable
<1>9. CASE Visit
  <2>1. PICK current \in evaluator.work :
           evaluator' = [evaluator EXCEPT
               !.reached = @ \cup (Neighbours(SearchedBranches, current) \ evaluator.reached),
               !.work = (@ \ {current})
                        \cup (Neighbours(SearchedBranches, current) \ evaluator.reached)]
    BY <1>9 DEF Visit
  <2> DEFINE new == Neighbours(SearchedBranches, current) \ evaluator.reached
  <2>2. UNCHANGED <<fixture, question>> /\ evaluator.pc \in {"baseline", "predict"}
    BY <1>9 DEF Visit
  <2>3. new \subseteq Buses /\ SearchedBranches \in SUBSET Branches
    BY <1>1, TopologyAssumption DEF Neighbours, SearchedBranches, Closed
  <2>4. /\ EvaluatorType' /\ evaluator'.pc = evaluator.pc
        /\ evaluator'.reached = evaluator.reached \cup new
        /\ evaluator'.work = (evaluator.work \ {current}) \cup new
    BY <1>1, <2>1, <2>3 DEF EvaluatorType
  <2>5. SearchedBranches' = SearchedBranches
    BY <2>2, <2>4 DEF SearchedBranches
  <2>6. SearchHolds'
    <3>1. /\ fixture.sources \subseteq evaluator.reached
          /\ evaluator.work \subseteq evaluator.reached
          /\ evaluator.reached \subseteq Supplied(SearchedBranches, fixture.sources)
          /\ \A b \in evaluator.reached \ evaluator.work :
                Neighbours(SearchedBranches, b) \subseteq evaluator.reached
      BY <2>2 DEF EvaluatorInv, SearchHolds
    <3>2. new \subseteq Supplied(SearchedBranches, fixture.sources)
      BY <1>1, <2>3, <3>1, NeighboursAreSupplied
    <3>3. \A b \in evaluator'.reached \ evaluator'.work :
             Neighbours(SearchedBranches, b) \subseteq evaluator'.reached
      BY <2>4, <3>1
    <3>4. QED
      BY <2>2, <2>4, <2>5, <3>1, <3>2, <3>3 DEF SearchHolds
  <2>7. Decidable' /\ AgreementIsReachability' /\ (BaselineValues(fixture))' = BaselineValues(fixture)
    BY <2>2, <2>4 DEF EvaluatorInv, Decidable, Evaluable, Admitted, PrestateUsable,
                      AgreementIsReachability, BaselineValues
  <2>8. QED
    BY <1>1, <2>2, <2>4, <2>6, <2>7 DEF EvaluatorInv
<1>10. CASE CompareBaseline
  <2>1. /\ evaluator.pc = "baseline" /\ evaluator.work = {} /\ UNCHANGED <<fixture, question>>
        /\ Decidable /\ question.command # Absent
    BY <1>10 DEF CompareBaseline, EvaluatorInv, Decidable, Evaluable
  <2>2. TopologyValues(fixture, evaluator.reached, {}) = BaselineValues(fixture)
    BY <2>1, SearchComplete DEF BaselineValues, SearchedBranches
  <2>3. CASE question.pre.values = BaselineValues(fixture)
    BY <1>7, <1>10, <2>1, <2>2, <2>3 DEF CompareBaseline, Matches, ObservedValues
  <2>4. CASE question.pre.values # BaselineValues(fixture)
    <3>1. Report("indeterminate", "prestate_does_not_match")
      BY <1>10, <2>2, <2>4 DEF CompareBaseline, Matches, ObservedValues
    <3>2. /\ EvaluatorType' /\ evaluator'.pc = "done"
          /\ evaluator'.report.status = "indeterminate" /\ evaluator'.report.exit = 1
      BY <1>1, <3>1, ReportType, ExitStatuses
    <3>3. QED
      BY <1>2, <2>1, <2>4, <3>2
  <2>5. QED
    BY <2>3, <2>4
<1>11. CASE ComparePrediction
  <2>1. /\ evaluator.pc = "predict" /\ evaluator.work = {} /\ UNCHANGED <<fixture, question>>
        /\ decided /\ question.command # Absent
    BY <1>11 DEF ComparePrediction, EvaluatorInv, Decidable, Evaluable
  <2>2. TopologyValues(fixture, evaluator.reached, Isolated(question.command.setpoint))
            = Consequence(fixture, question.command.setpoint)
    BY <2>1, SearchComplete DEF Consequence, SearchedBranches
  <2>3. CASE agrees
    <3>1. Report("agree", "consequence_matches")
      BY <1>11, <2>2, <2>3 DEF ComparePrediction, Matches, ObservedValues
    <3>2. /\ EvaluatorType' /\ evaluator'.pc = "done"
          /\ evaluator'.report.status = "agree" /\ evaluator'.report.exit = 0
      BY <1>1, <3>1, ReportType, ExitStatuses
    <3>3. QED
      BY <1>2, <2>1, <2>3, <3>2
  <2>4. CASE ~agrees
    <3>1. Report("contradict", "metric_mismatch")
      BY <1>11, <2>2, <2>4 DEF ComparePrediction, Matches, ObservedValues
    <3>2. /\ EvaluatorType' /\ evaluator'.pc = "done"
          /\ evaluator'.report.status = "contradict" /\ evaluator'.report.exit = 1
      BY <1>1, <3>1, ReportType, ExitStatuses
    <3>3. QED
      BY <1>2, <2>1, <2>4, <3>2
  <2>5. QED
    BY <2>3, <2>4
<1>12. QED
  BY <1>3, <1>4, <1>5, <1>6, <1>8, <1>9, <1>10, <1>11 DEF EvaluatorNext

\* Whatever the topology, the evaluator agrees exactly with what is reachable, and
\* reports success for nothing else (evaluate_request, _connected_buses, main).
THEOREM SearchDecidesReachability == EvaluatorSpec => []AgreementIsReachability
<1>1. EvaluatorInv => AgreementIsReachability
  BY DEF EvaluatorInv
<1>2. QED
  BY <1>1, InitEvaluator, NextEvaluator, PTL DEF EvaluatorSpec

----------------------------------------------------------------------------
(***************************************************************************)
(* The evidence packages.  Each slip but one contradicts something that    *)
(* the verifier compares in session 0, or between the two sessions'        *)
(* chains.                                                                 *)
(***************************************************************************)
\* What RecordsCohere asks of session 0 alone, as far as a slip can break it.
FirstSessionCoheres(x) ==
    /\ \A p \in Phases : x.health[p].phase = p
    /\ \A i \in DOMAIN x.evidence : x.evidence[i].hash = Append(x.evidence[i].prev, x.evidence[i].body)
    /\ \A i, j \in 2..Len(x.registrations) : x.registrations[i].key = x.registrations[j].key => i = j
    /\ \A i \in 1..3 : /\ x.transactions[i].condition = Conditions[i]
                       /\ x.transactions[i].post = x.health["post_nominal"]
                       /\ x.transactions[i].last < Len(x.evidence)
                       /\ x.transactions[i].observer = x.registrations[2].key
    /\ x.transactions[3].last + 1 = Len(x.evidence)
    /\ x.replay.ack = x.registrations[5].key
    /\ x.replay.before.version = x.replay.after.version
    /\ x.probes.denied = ForbiddenRequests
    /\ x.request.command = x.command
    /\ x.report.request = x.request
    /\ x.registrations[6].boot = x.report.boot

\* What the verifier asks of all sessions, it asks of session 0.
LEMMA CohereFirst ==
    ASSUME NEW c, RecordsCohere(c), NEW x, x = c[0]
    PROVE  FirstSessionCoheres(x)
<1>1. 0 \in Sessions  BY DEF Sessions
<1>2. /\ HealthPhases(c) /\ EvidenceChains(c) /\ RegistrationGroups(c)
      /\ TransactionsBound(c) /\ EvidenceAssigned(c) /\ ReplayBound(c) /\ EvaluationBound(c)
  BY DEF RecordsCohere
<1>3. \A p \in Phases : x.health[p].phase = p  BY <1>1, <1>2 DEF HealthPhases
<1>4. \A i \in DOMAIN x.evidence : x.evidence[i].hash = Append(x.evidence[i].prev, x.evidence[i].body)
  BY <1>1, <1>2 DEF EvidenceChains
<1>5. \A i, j \in 2..Len(x.registrations) : x.registrations[i].key = x.registrations[j].key => i = j
  BY <1>1, <1>2 DEF RegistrationGroups
<1>6. \A i \in 1..3 : /\ x.transactions[i].condition = Conditions[i]
                       /\ x.transactions[i].post = x.health["post_nominal"]
                       /\ x.transactions[i].last < Len(x.evidence)
                       /\ x.transactions[i].observer = x.registrations[2].key
  BY <1>1, <1>2 DEF TransactionsBound, TransactionSigned
<1>7. x.transactions[3].last + 1 = Len(x.evidence)  BY <1>1, <1>2 DEF EvidenceAssigned
<1>8. /\ x.replay.ack = x.registrations[5].key
      /\ x.replay.before.version = x.replay.after.version
      /\ x.probes.denied = ForbiddenRequests
  BY <1>1, <1>2 DEF ReplayBound
<1>9. /\ x.request.command = x.command
      /\ x.report.request = x.request
      /\ x.registrations[6].boot = x.report.boot
  BY <1>1, <1>2 DEF EvaluationBound
<1> QED BY <1>3, <1>4, <1>5, <1>6, <1>7, <1>8, <1>9 DEF FirstSessionCoheres

\* The fields of the records of one session.
LEMMA RecordedFields ==
    ASSUME NEW w, NEW s
    PROVE  /\ DOMAIN Recorded(w, s) = {"registrations", "health", "evidence", "transactions",
                "reported", "command", "probes", "replay", "request", "report"}
           /\ Recorded(w, s).registrations = Registrations(w, s)
           /\ Recorded(w, s).health = Health(w, s)
           /\ Recorded(w, s).evidence = Chained(Bodies(w, s))
           /\ Recorded(w, s).transactions = [i \in 1..3 |-> Transaction(w, s, i)]
           /\ Recorded(w, s).reported = EvaluationReport(w, s)
           /\ Recorded(w, s).command = <<w, s, "command">>
           /\ Recorded(w, s).probes = ProbeBundle(s)
           /\ Recorded(w, s).replay = Replay(w, s)
           /\ Recorded(w, s).request = Request(w, s)
           /\ Recorded(w, s).report = EvaluationReport(w, s)
BY DEF Recorded

\* A chain has one record per body, each with the hashes before it and its own.
LEMMA ChainedRecords ==
    ASSUME NEW b, NEW n \in Nat, Len(b) = n
    PROVE  /\ DOMAIN Chained(b) = 1..n
           /\ Len(Chained(b)) = n
           /\ \A i \in 1..n : /\ DOMAIN Chained(b)[i] = {"seq", "body", "prev", "hash"}
                              /\ Chained(b)[i].body = b[i]
                              /\ Chained(b)[i].prev = [j \in 1..(i - 1) |-> b[j]]
                              /\ Chained(b)[i].hash = [j \in 1..i |-> b[j]]
<1>1. DOMAIN Chained(b) = 1..n  BY DEF Chained
<1>2. \A i \in 1..n : /\ DOMAIN Chained(b)[i] = {"seq", "body", "prev", "hash"}
                              /\ Chained(b)[i].body = b[i]
                              /\ Chained(b)[i].prev = [j \in 1..(i - 1) |-> b[j]]
                              /\ Chained(b)[i].hash = [j \in 1..i |-> b[j]]
  BY DEF Chained
<1>3. Len(Chained(b)) = n
  <2>1. Chained(b) \in Seq({Chained(b)[i] : i \in 1..n})
    <3>1. Chained(b) = [i \in 1..n |-> Chained(b)[i]]  BY <1>1 DEF Chained
    <3> QED BY <3>1
  <2> QED BY <2>1, <1>1
<1> QED BY <1>1, <1>2, <1>3

\* How long a chain is.
LEMMA ChainedLen ==
    ASSUME NEW b, NEW n \in Nat, Len(b) = n
    PROVE  DOMAIN Chained(b) = 1..n /\ Len(Chained(b)) = n
BY ChainedRecords

\* The record of the nominal decision.
LEMMA FourthRecord ==
    ASSUME NEW b, Len(b) = 5
    PROVE  /\ DOMAIN Chained(b)[4] = {"seq", "body", "prev", "hash"}
           /\ Chained(b)[4].prev = [j \in 1..3 |-> b[j]]
           /\ Chained(b)[4].hash = [j \in 1..4 |-> b[j]]
<1>1. 4 \in 1..Len(b) /\ 4 - 1 = 3  OBVIOUS
<1>2. Chained(b)[4] = [seq |-> 3, body |-> b[4], prev |-> [j \in 1..3 |-> b[j]], hash |-> [j \in 1..4 |-> b[j]]]
  BY <1>1 DEF Chained
<1> QED BY <1>2

\* The fields of a transaction record that a slip can contradict.
LEMMA NominalTransaction ==
    ASSUME NEW w, NEW s, NEW i
    PROVE  /\ DOMAIN Transaction(w, s, i) = {"session", "condition", "status", "first", "last", "head",
                "ends", "registrations", "pre", "post", "observer", "permit", "ack"}
           /\ Transaction(w, s, i).last = LastOf(i)
           /\ Transaction(w, s, i).condition = Conditions[i]
           /\ Transaction(w, s, i).post = Health(w, s)["post_nominal"]
           /\ Transaction(w, s, i).observer = <<w, s, "observer">>
BY DEF Transaction

\* The nominal transaction ends with the fifth evidence record.
LEMMA LastNominal == LastOf(3) = 4
BY DEF LastOf

\* A session writes five evidence records.
LEMMA FiveBodies ==
    ASSUME NEW w, NEW s
    PROVE  Len(Bodies(w, s)) = 5 /\ Bodies(w, s) \in Seq({Bodies(w, s)[i] : i \in 1..5})
BY DEF Bodies

\* The same, for its length alone.
LEMMA FiveLong ==
    ASSUME NEW w, NEW s
    PROVE  Len(Bodies(w, s)) = 5
BY FiveBodies

\* A record after the last transaction's belongs to no transaction.
LEMMA NoExtra ==
    ASSUME NEW w, NEW x, x = [Recorded(w, 0) EXCEPT !.evidence = Chained(Extra(w))], FirstSessionCoheres(x)
    PROVE  FALSE
<1>2. x.evidence = Chained(Extra(w)) /\ x.transactions = [i \in 1..3 |-> Transaction(w, 0, i)]
  BY RecordedFields
<1>3. Len(Extra(w)) = 6
   <2> DEFINE e == <<w, 0, "nominal", "disposition again">>
              b == Bodies(w, 0)
              S == {b[i] : i \in 1..5} \cup {e}
   <2>2. Len(b) = 5 /\ b \in Seq({b[i] : i \in 1..5})  BY FiveBodies
   <2>3. b \in Seq(S) /\ e \in S  
     <3> HIDE DEF b, e
     <3> QED BY <2>2
   <2>4. Extra(w) = Append(b, e)  BY DEF Extra
   <2> HIDE DEF S, b, e
   <2>6. Len(Append(b, e)) = Len(b) + 1  BY <2>3, AppendProperties
   <2> QED BY <2>2, <2>4, <2>6
<1>4. Len(x.evidence) = 6
  <2>1. 6 \in Nat  OBVIOUS
  <2> QED BY <2>1, <1>2, <1>3, ChainedLen
<1>5. x.transactions[3] = Transaction(w, 0, 3)  BY <1>2
<1>6. PICK n \in Nat : n = x.transactions[3].last /\ n = 4  BY <1>5, NominalTransaction, LastNominal
<1>7. n + 1 = Len(x.evidence)  BY <1>6 DEF FirstSessionCoheres
<1> QED BY <1>4, <1>6, <1>7

\* A chain that lost its last record is too short for the nominal transaction.
LEMMA NoMissing ==
    ASSUME NEW w, NEW x, x = [Recorded(w, 0) EXCEPT !.evidence = SubSeq(@, 1, 4)], FirstSessionCoheres(x)
    PROVE  FALSE
<1>2. /\ x.evidence = SubSeq(Chained(Bodies(w, 0)), 1, 4)
      /\ x.transactions = [i \in 1..3 |-> Transaction(w, 0, i)]
  BY RecordedFields
<1>4. Len(x.evidence) = 4
  <2> DEFINE e == Chained(Bodies(w, 0))
  <2>1. Len(e) = 5 /\ DOMAIN e = 1..5
    <3>1. 5 \in Nat  OBVIOUS
    <3> QED BY <3>1, FiveLong, ChainedLen
  <2>2. e = [i \in 1..5 |-> e[i]]  BY <2>1, FiveBodies DEF Chained
  <2> HIDE DEF e
  <2>3. e \in Seq({e[i] : i \in 1..5})  BY <2>2
  <2> QED BY <2>1, <2>3, <1>2, SubSeqProperties DEF e
<1>5. x.transactions[3] = Transaction(w, 0, 3)  BY <1>2
<1>6. PICK n \in Nat : n = x.transactions[3].last /\ n = 4  BY <1>5, NominalTransaction, LastNominal
<1>7. n + 1 = Len(x.evidence)  BY <1>6 DEF FirstSessionCoheres
<1> QED BY <1>4, <1>6, <1>7

\* An edited record no longer has the hash it carries.
LEMMA NoEdited ==
    ASSUME NEW w, NEW x, x = [Recorded(w, 0) EXCEPT !.evidence[4].body = <<w, 0, "nominal", "denied">>],
           FirstSessionCoheres(x)
    PROVE  FALSE
<1> DEFINE e == Chained(Bodies(w, 0))
           b == Bodies(w, 0)
<1>1. DOMAIN e = 1..5 /\ DOMAIN e[4] = {"seq", "body", "prev", "hash"}
      /\ e[4].prev = [j \in 1..3 |-> b[j]] /\ e[4].hash = [j \in 1..4 |-> b[j]]
  <2>1. 5 \in Nat /\ 4 \in 1..5  OBVIOUS
  <2>2. Len(b) = 5  BY FiveLong
  <2>3. DOMAIN Chained(b) = 1..5  BY <2>1, <2>2, ChainedLen
  <2> HIDE DEF b
  <2>4. /\ DOMAIN Chained(b)[4] = {"seq", "body", "prev", "hash"}
        /\ Chained(b)[4].prev = [j \in 1..3 |-> b[j]]
        /\ Chained(b)[4].hash = [j \in 1..4 |-> b[j]]
    BY <2>2, FourthRecord
  <2> QED BY <2>3, <2>4 DEF b
<1>2. x.evidence = [e EXCEPT ![4].body = <<w, 0, "nominal", "denied">>]
  BY RecordedFields
<1>b. b[4] = <<w, 0, "nominal", "decision">>  BY DEF Bodies
<1> HIDE DEF e, b
<1> DEFINE d == <<w, 0, "nominal", "denied">>
           p == [j \in 1..3 |-> b[j]]
           h == [j \in 1..4 |-> b[j]]
<1>3. /\ 4 \in DOMAIN x.evidence
      /\ x.evidence[4].body = d
      /\ x.evidence[4].prev = p /\ x.evidence[4].hash = h
  <2>1. x.evidence = [e EXCEPT ![4].body = d] /\ e[4].prev = p /\ e[4].hash = h  BY <1>1, <1>2
  <2> HIDE DEF d, p, h
  <2>0. PICK y : y = x.evidence  OBVIOUS
  <2>b. y = [e EXCEPT ![4] = [e[4] EXCEPT !.body = d]] /\ 4 \in 1..5  BY <2>0, <2>1
  <2>c. PICK f : f = [e[4] EXCEPT !.body = d]  OBVIOUS
  <2>a. DOMAIN y = 1..5 /\ y[4] = [e[4] EXCEPT !.body = d]
    <3>1. DOMAIN e = 1..5  BY <1>1
    <3>2. y = [e EXCEPT ![4] = f]  BY <2>b, <2>c
    <3>3. DOMAIN y = 1..5 /\ y[4] = f BY <3>1, <3>2
    <3> QED BY <3>3, <2>c
  <2>2. 4 \in DOMAIN x.evidence /\ x.evidence[4] = [e[4] EXCEPT !.body = d]  BY <2>0, <2>a
  <2> QED BY <1>1, <2>1, <2>2
<1>4. [j \in 1..4 |-> b[j]] = Append([j \in 1..3 |-> b[j]], <<w, 0, "nominal", "denied">>)
  <2> HIDE DEF d, p, h
  <2>1. h = Append(p, d)
    <3>1. x.evidence[4].hash = Append(x.evidence[4].prev, x.evidence[4].body)
      BY <1>3 DEF FirstSessionCoheres
    <3> QED BY <3>1, <1>3
  <2> QED BY <2>1 DEF d, p, h
<1>5. [j \in 1..4 |-> b[j]][4] = b[4]  OBVIOUS
<1>6. Append([j \in 1..3 |-> b[j]], <<w, 0, "nominal", "denied">>)[4] = <<w, 0, "nominal", "denied">>
  <2> DEFINE S == {b[i] : i \in 1..3} \cup {d}
  <2>1. p \in Seq(S) /\ d \in S  OBVIOUS
  <2>2. Len(p) = 3  BY <2>1
  <2> HIDE DEF p, d, S
  <2> QED BY <2>1, <2>2, AppendProperties DEF p, d
<1> QED BY <1>4, <1>5, <1>6, <1>b

\* The registered keys and boots of a session's processes.
LEMMA RegistrationsOf ==
    ASSUME NEW w, NEW s
    PROVE  /\ DOMAIN Registrations(w, s) = 1..6
           /\ \A i \in 1..6 : DOMAIN Registrations(w, s)[i] = {"session", "role", "boot", "key"}
           /\ Registrations(w, s)[2].key = <<w, s, "observer">>
           /\ Registrations(w, s)[3].key = <<w, s, "plc">>
           /\ Registrations(w, s)[5].key = <<w, s, "replacement_plc">>
           /\ Registrations(w, s)[6].boot = <<w, s, "evaluator">>
<1> DEFINE S == {"plant", "observer", "plc", "permit_signer", "replacement_plc", "evaluator"}
<1>a. RuntimeRoles \in Seq(S) /\ Len(RuntimeRoles) = 5 /\ "evaluator" \in S
      /\ RuntimeRoles[2] = "observer" /\ RuntimeRoles[3] = "plc" /\ RuntimeRoles[5] = "replacement_plc"
  <2>1. RuntimeRoles \in Seq(S)  BY DEF RuntimeRoles
  <2>2. Len(RuntimeRoles) = 5  BY DEF RuntimeRoles
  <2>3. RuntimeRoles[2] = "observer" /\ RuntimeRoles[3] = "plc" /\ RuntimeRoles[5] = "replacement_plc"
    BY DEF RuntimeRoles
  <2> QED BY <2>1, <2>2, <2>3
<1>b. SessionRoles = Append(RuntimeRoles, "evaluator")  BY DEF SessionRoles
<1> HIDE DEF S
<1>1. /\ Len(SessionRoles) = Len(RuntimeRoles) + 1
      /\ \A i \in 1..Len(RuntimeRoles) : SessionRoles[i] = RuntimeRoles[i]
      /\ SessionRoles[Len(RuntimeRoles) + 1] = "evaluator"
  <2>1. PICK r : r = RuntimeRoles  OBVIOUS
  <2>2. PICK e : e = "evaluator"  OBVIOUS
  <2>3. r \in Seq(S) /\ e \in S  BY <1>a, <2>1, <2>2
  <2>4. /\ Len(Append(r, e)) = Len(r) + 1
        /\ \A i \in 1..Len(r) : Append(r, e)[i] = r[i]
        /\ Append(r, e)[Len(r) + 1] = e
    BY <2>3, AppendProperties
  <2> QED BY <1>b, <2>1, <2>2, <2>4
<1>2. Len(SessionRoles) = 6 /\ SessionRoles[2] = "observer" /\ SessionRoles[3] = "plc"
      /\ SessionRoles[5] = "replacement_plc" /\ SessionRoles[6] = "evaluator"
  BY <1>a, <1>1
<1>3. Registrations(w, s) = [i \in 1..6 |-> Registration(w, s, SessionRoles[i])]
  BY <1>2 DEF Registrations
<1>4. \A i \in 1..6 : Registrations(w, s)[i] = Registration(w, s, SessionRoles[i])  BY <1>3
<1>5. \A r : DOMAIN Registration(w, s, r) = {"session", "role", "boot", "key"}
             /\ Registration(w, s, r).boot = <<w, s, r>>
             /\ (r # "plant" => Registration(w, s, r).key = <<w, s, r>>)
  BY DEF Registration
<1> QED BY <1>2, <1>3, <1>4, <1>5

\* The plant's health at each phase.
LEMMA HealthOf ==
    ASSUME NEW w, NEW s
    PROVE  /\ DOMAIN Health(w, s) = Phases
           /\ \A p \in Phases : /\ DOMAIN Health(w, s)[p] = {"session", "phase", "version"}
                                /\ Health(w, s)[p].phase = p
                                /\ p # "pre_transactions" => Health(w, s)[p].version = 1
BY DEF Health

\* The first transaction is the one of the first condition.
LEMMA NoReordered ==
    ASSUME NEW w, NEW x, x = [Recorded(w, 0) EXCEPT !.transactions = <<@[2], @[1], @[3]>>],
           FirstSessionCoheres(x)
    PROVE  FALSE
<1> DEFINE t == [i \in 1..3 |-> Transaction(w, 0, i)]
<1>1. x.transactions = <<t[2], t[1], t[3]>>  BY RecordedFields
<1>2. x.transactions[1] = Transaction(w, 0, 2)  BY <1>1
<1>3. Conditions[2] # Conditions[1]  BY DEF Conditions
<1>4. x.transactions[1].condition = Conditions[2]  BY <1>2, NominalTransaction
<1>5. 1 \in 1..3  OBVIOUS
<1> HIDE DEF t
<1> QED BY <1>3, <1>4, <1>5 DEF FirstSessionCoheres

\* A transaction of session 1 carries the signature of another observer.
LEMMA NoOtherTransaction ==
    ASSUME NEW w, NEW x, NEW y, y.observer = <<w, 1, "observer">>,
           x = [Recorded(w, 0) EXCEPT !.transactions[1] = y], FirstSessionCoheres(x)
    PROVE  FALSE
<1> DEFINE t == [i \in 1..3 |-> Transaction(w, 0, i)]
<1>0. PICK z : z = [Recorded(w, 0).transactions EXCEPT ![1] = y]  OBVIOUS
<1>a. x = [Recorded(w, 0) EXCEPT !.transactions = z]  BY <1>0
<1>1. x.transactions = [t EXCEPT ![1] = y] /\ x.registrations = Registrations(w, 0)
  <2>1. x.transactions = z /\ x.registrations = Registrations(w, 0)  BY <1>a, RecordedFields
  <2>2. Recorded(w, 0).transactions = t  BY RecordedFields
  <2> HIDE DEF t
  <2> QED BY <1>0, <2>1, <2>2
<1>2. x.transactions[1] = y  BY <1>1
<1>4. x.registrations[2].key = <<w, 0, "observer">>  BY <1>1, RegistrationsOf
<1>5. 1 \in 1..3 /\ <<w, 1, "observer">> # <<w, 0, "observer">>  OBVIOUS
<1>6. x.transactions[1].observer = x.registrations[2].key  BY <1>5 DEF FirstSessionCoheres
<1> HIDE DEF t
<1> QED BY <1>2, <1>4, <1>5, <1>6

\* The health a transaction embeds is the one the package keeps.
LEMMA NoHealthAgain ==
    ASSUME NEW w, NEW x, x = [Recorded(w, 0) EXCEPT !.health["post_nominal"].version = 2],
           FirstSessionCoheres(x)
    PROVE  FALSE
<1> DEFINE h == Health(w, 0)
           t == [i \in 1..3 |-> Transaction(w, 0, i)]
<1>1. x.health = [h EXCEPT !["post_nominal"].version = 2] /\ x.transactions = t  BY RecordedFields
<1>2. "post_nominal" \in Phases  BY DEF Phases
<1>3. DOMAIN h = Phases /\ DOMAIN h["post_nominal"] = {"session", "phase", "version"}
      /\ h["post_nominal"].version = 1
  BY <1>2, HealthOf
<1>4. x.transactions[1] = Transaction(w, 0, 1) /\ 1 \in 1..3  BY <1>1
<1>5. x.transactions[1].post = h["post_nominal"]  BY <1>4, NominalTransaction
<1>6. x.transactions[1].post = x.health["post_nominal"]  BY <1>4 DEF FirstSessionCoheres
<1> HIDE DEF h, t
<1>7. x.health["post_nominal"].version = 2
  <2>1. PICK y : y = [h["post_nominal"] EXCEPT !.version = 2]  OBVIOUS
  <2>2. x.health = [h EXCEPT !["post_nominal"] = y]  BY <1>1, <2>1
  <2>3. x.health["post_nominal"] = y  BY <1>2, <1>3, <2>2
  <2> QED BY <1>3, <2>1, <2>3
<1> QED BY <1>3, <1>5, <1>6, <1>7

\* No health record stands for another phase.
LEMMA NoPhaseTwice ==
    ASSUME NEW w, NEW x, NEW y, y.phase = "pre_replay",
           x = [Recorded(w, 0) EXCEPT !.health["post_replay"] = y],
           FirstSessionCoheres(x)
    PROVE  FALSE
<1>0. PICK z : z = [Recorded(w, 0).health EXCEPT !["post_replay"] = y]  OBVIOUS
<1>a. x = [Recorded(w, 0) EXCEPT !.health = z]  BY <1>0
<1>1. x.health = [Health(w, 0) EXCEPT !["post_replay"] = y]
  <2>1. x.health = z  BY <1>a, RecordedFields
  <2>2. Recorded(w, 0).health = Health(w, 0)  BY RecordedFields
  <2> QED BY <1>0, <2>1, <2>2
<1>2. "post_replay" \in Phases BY DEF Phases
<1>3. x.health["post_replay"] = y  BY <1>1, <1>2, HealthOf
<1> QED BY <1>2, <1>3 DEF FirstSessionCoheres

\* The fields of a replay record that a slip can contradict.
LEMMA ReplayFields ==
    ASSUME NEW w, NEW s
    PROVE  /\ DOMAIN Replay(w, s) = {"session", "original", "reported", "prior", "replacement", "ack",
                "observer", "before", "after", "state", "unchanged"}
           /\ Replay(w, s).ack = <<w, s, "replacement_plc">>
           /\ Replay(w, s).before = Health(w, s)["pre_replay"]
           /\ Replay(w, s).after = Health(w, s)["post_replay"]
BY DEF Replay

\* A replay leaves the plant's version alone.
LEMMA NoStateChange ==
    ASSUME NEW w, NEW x, x = [Recorded(w, 0) EXCEPT !.health["post_replay"].version = 2, !.replay.after.version = 2],
           FirstSessionCoheres(x)
    PROVE  FALSE
<1> DEFINE r == Replay(w, 0)
           h == Health(w, 0)
<1>1. x.replay = [r EXCEPT !.after.version = 2]  BY RecordedFields
<1>2. "post_replay" \in Phases /\ "pre_replay" \in Phases  BY DEF Phases
<1>3. r.before = h["pre_replay"] /\ r.after = h["post_replay"]
  BY ReplayFields
<1>4. h["pre_replay"].version = 1 /\ DOMAIN h["post_replay"] = {"session", "phase", "version"}
  BY <1>2, HealthOf
<1>5. DOMAIN r = {"session", "original", "reported", "prior", "replacement", "ack",
                "observer", "before", "after", "state", "unchanged"}  BY ReplayFields
<1> HIDE DEF r, h
<1>6. PICK y : y = [r.after EXCEPT !.version = 2]  OBVIOUS
<1>7. x.replay = [r EXCEPT !.after = y]  BY <1>1, <1>6
<1>8. x.replay.after = y /\ x.replay.before = r.before  BY <1>5, <1>7
<1>9. y.version = 2  BY <1>3, <1>4, <1>6
<1> QED BY <1>3, <1>4, <1>8, <1>9 DEF FirstSessionCoheres

\* No two processes register one key.
LEMMA NoSharedKey ==
    ASSUME NEW w, NEW x, x = [Recorded(w, 0) EXCEPT !.registrations[5].key = <<w, 0, "plc">>],
           FirstSessionCoheres(x)
    PROVE  FALSE
<1> DEFINE g == Registrations(w, 0)
           k == <<w, 0, "plc">>
<1>1. x.registrations = [g EXCEPT ![5].key = k]  BY RecordedFields
<1>2. DOMAIN g = 1..6 /\ DOMAIN g[5] = {"session", "role", "boot", "key"} /\ g[3].key = k  BY RegistrationsOf
<1> HIDE DEF g, k
<1>3. PICK y : y = [g[5] EXCEPT !.key = k]  OBVIOUS
<1>4. PICK q : q = x.registrations  OBVIOUS
<1>5. q = [g EXCEPT ![5] = y]  BY <1>1, <1>3, <1>4
<1>6. q[5] = y /\ q[3] = g[3] /\ DOMAIN q = 1..6  BY <1>2, <1>5
<1>7. y.key = k  BY <1>2, <1>3
<1>8. Len(q) = 6
  <2>1. q = [i \in 1..6 |-> q[i]]  BY <1>2, <1>5, <1>6
  <2>2. q \in Seq({q[i] : i \in 1..6})  BY <2>1
  <2> QED BY <1>6, <2>2
<1>9. 5 \in 2..6 /\ 3 \in 2..6  OBVIOUS
<1>10. \A i, j \in 2..6 : q[i].key = q[j].key => i = j
  <2>1. \A i, j \in 2..Len(x.registrations) : x.registrations[i].key = x.registrations[j].key => i = j
    BY DEF FirstSessionCoheres
  <2>2. \A i, j \in 2..Len(q) : q[i].key = q[j].key => i = j  BY <2>1, <1>4
  <2> QED BY <2>2, <1>8
<1>11. q[5].key = q[3].key  BY <1>2, <1>6, <1>7
<1> QED BY <1>9, <1>10, <1>11

\* Only the replacement PLC of this session answers its replay.
LEMMA NoOtherAnswer ==
    ASSUME NEW w, NEW x, NEW k, k # <<w, 0, "replacement_plc">>, x.replay.ack = k,
           x.registrations = Registrations(w, 0), FirstSessionCoheres(x)
    PROVE  FALSE
<1>1. x.registrations[5].key = <<w, 0, "replacement_plc">>  BY RegistrationsOf
<1> QED BY <1>1 DEF FirstSessionCoheres

\* So the first PLC does not,
LEMMA NoFirstPlc ==
    ASSUME NEW w, NEW x, x = [Recorded(w, 0) EXCEPT !.replay.ack = <<w, 0, "plc">>],
           FirstSessionCoheres(x)
    PROVE  FALSE
<1>1. x.replay = [Replay(w, 0) EXCEPT !.ack = <<w, 0, "plc">>] /\ x.registrations = Registrations(w, 0)
  BY RecordedFields
<1>2. x.replay.ack = <<w, 0, "plc">>  BY <1>1, ReplayFields
<1>3. <<w, 0, "plc">> # <<w, 0, "replacement_plc">>  OBVIOUS
<1> QED BY <1>1, <1>2, <1>3, NoOtherAnswer

\* and neither does the replacement of the other session.
LEMMA NoOtherReplay ==
    ASSUME NEW w, NEW x, NEW y, y = [Replay(w, 1) EXCEPT !.session = 0],
           x = [Recorded(w, 0) EXCEPT !.replay = y], FirstSessionCoheres(x)
    PROVE  FALSE
<1>1. x.replay = y /\ x.registrations = Registrations(w, 0)
  BY RecordedFields
<1>2. x.replay.ack = <<w, 1, "replacement_plc">>  BY <1>1, ReplayFields
<1>3. <<w, 1, "replacement_plc">> # <<w, 0, "replacement_plc">>  OBVIOUS
<1> QED BY <1>1, <1>2, <1>3, NoOtherAnswer

\* All four forbidden requests must have been denied.
LEMMA NoProbeMissing ==
    ASSUME NEW w, NEW x, x = [Recorded(w, 0) EXCEPT !.probes.denied = @ \ {"admin_apply"}],
           FirstSessionCoheres(x)
    PROVE  FALSE
<1>1. x.probes = [ProbeBundle(0) EXCEPT !.denied = @ \ {"admin_apply"}]  BY RecordedFields
<1>2. x.probes.denied = ForbiddenRequests \ {"admin_apply"}  BY <1>1 DEF ProbeBundle
<1>3. "admin_apply" \in ForbiddenRequests  BY DEF ForbiddenRequests
<1> QED BY <1>2, <1>3 DEF FirstSessionCoheres

\* The request is about the session's own command.
LEMMA NoOtherCommand ==
    ASSUME NEW w, NEW x, x = [Recorded(w, 0) EXCEPT !.request.command = <<w, 1, "command">>],
           FirstSessionCoheres(x)
    PROVE  FALSE
<1>1. x.request = [Request(w, 0) EXCEPT !.command = <<w, 1, "command">>] /\ x.command = <<w, 0, "command">>
  BY RecordedFields
<1>2. x.request.command = <<w, 1, "command">>  BY <1>1 DEF Request
<1>3. <<w, 1, "command">> # <<w, 0, "command">>  OBVIOUS
<1> QED BY <1>1, <1>2, <1>3 DEF FirstSessionCoheres

\* The report answers the session's own request.
LEMMA NoOtherReport ==
    ASSUME NEW w, NEW x, x = [Recorded(w, 0) EXCEPT !.report = EvaluationReport(w, 1)],
           FirstSessionCoheres(x)
    PROVE  FALSE
<1>1. x.report = EvaluationReport(w, 1) /\ x.request = Request(w, 0)  BY RecordedFields
<1>2. x.report.request = Request(w, 1)  BY <1>1 DEF EvaluationReport
<1>3. Request(w, 1).session = 1 /\ Request(w, 0).session = 0  BY DEF Request
<1> QED BY <1>1, <1>2, <1>3 DEF FirstSessionCoheres

\* The evaluator that reported is the registered one.
LEMMA NoOtherEvaluator ==
    ASSUME NEW w, NEW x, x = [Recorded(w, 0) EXCEPT !.registrations[6].boot = <<w, 1, "evaluator">>],
           FirstSessionCoheres(x)
    PROVE  FALSE
<1> DEFINE g == Registrations(w, 0)
           k == <<w, 1, "evaluator">>
<1>1. x.registrations = [g EXCEPT ![6].boot = k] /\ x.report = EvaluationReport(w, 0)  BY RecordedFields
<1>2. DOMAIN g = 1..6 /\ DOMAIN g[6] = {"session", "role", "boot", "key"}  BY RegistrationsOf
<1>b. x.report.boot = <<w, 0, "evaluator">>  BY <1>1 DEF EvaluationReport
<1>c. k # <<w, 0, "evaluator">>  OBVIOUS
<1> HIDE DEF g, k
<1>3. PICK y : y = [g[6] EXCEPT !.boot = k]  OBVIOUS
<1>4. PICK q : q = x.registrations  OBVIOUS
<1>5. q = [g EXCEPT ![6] = y]  BY <1>1, <1>3, <1>4
<1>6. q[6] = y  BY <1>2, <1>5
<1>7. y.boot = k  BY <1>2, <1>3
<1> QED BY <1>b, <1>c, <1>4, <1>6, <1>7 DEF FirstSessionCoheres

\* The verifier finds every slip but one: the registrations that a replay names
\* are never compared.
LEMMA CoherentSlips ==
    ASSUME NEW w \in Writers, NEW slip \in Coherent[w]
    PROVE  slip \in {"none", "replay names other registrations"}
<1> DEFINE c == [s \in Sessions |-> Recorded(w, s)]
           a == Assembled(w, slip)
           x == a[0]
<1>1. slip \in KnownSlips /\ RecordsCohere(a)  BY PackageAssumption DEF Coherent
<1>2. FirstSessionCoheres(x)
  <2>1. RecordsCohere(Assembled(w, slip))  BY <1>1
  <2> QED BY <2>1, CohereFirst
<1>3. DOMAIN c = {0, 1} /\ c[0] = Recorded(w, 0) /\ c[1] = Recorded(w, 1)  BY DEF Sessions
<1>4. ASSUME slip = "evidence extra"  PROVE FALSE
  <2>1. a = [c EXCEPT ![0].evidence = Chained(Extra(w))]  BY <1>4 DEF Assembled
  <2> HIDE DEF a, c
  <2>2. x = [Recorded(w, 0) EXCEPT !.evidence = Chained(Extra(w))]  BY <1>3, <2>1
  <2> QED BY <1>2, <2>2, NoExtra
<1>5. ASSUME slip = "evidence missing"  PROVE FALSE
  <2>1. a = [c EXCEPT ![0].evidence = SubSeq(@, 1, 4)]  BY <1>5 DEF Assembled
  <2> HIDE DEF a, c
  <2>2. x = [Recorded(w, 0) EXCEPT !.evidence = SubSeq(@, 1, 4)]  BY <1>3, <2>1
  <2> QED BY <1>2, <2>2, NoMissing
<1>6. ASSUME slip = "evidence edited"  PROVE FALSE
  <2>1. a = [c EXCEPT ![0].evidence[4].body = <<w, 0, "nominal", "denied">>]  BY <1>6 DEF Assembled
  <2> HIDE DEF a, c
  <2>2. x = [Recorded(w, 0) EXCEPT !.evidence[4].body = <<w, 0, "nominal", "denied">>]  BY <1>3, <2>1
  <2> QED BY <1>2, <2>2, NoEdited
<1>7. ASSUME slip = "transactions reordered"  PROVE FALSE
  <2>1. a = [c EXCEPT ![0].transactions = <<@[2], @[1], @[3]>>]  BY <1>7 DEF Assembled
  <2> HIDE DEF a, c
  <2>2. x = [Recorded(w, 0) EXCEPT !.transactions = <<@[2], @[1], @[3]>>]  BY <1>3, <2>1
  <2> QED BY <1>2, <2>2, NoReordered
<1>8. ASSUME slip = "health read again"  PROVE FALSE
  <2>1. a = [c EXCEPT ![0].health["post_nominal"].version = 2]  BY <1>8 DEF Assembled
  <2> HIDE DEF a, c
  <2>2. x = [Recorded(w, 0) EXCEPT !.health["post_nominal"].version = 2]  BY <1>3, <2>1
  <2> QED BY <1>2, <2>2, NoHealthAgain
<1>9. ASSUME slip = "state changed by the replay"  PROVE FALSE
  <2>1. a = [c EXCEPT ![0].health["post_replay"].version = 2, ![0].replay.after.version = 2]  BY <1>9 DEF Assembled
  <2> HIDE DEF a, c
  <2>2. x = [Recorded(w, 0) EXCEPT !.health["post_replay"].version = 2, !.replay.after.version = 2]  BY <1>3, <2>1
  <2> QED BY <1>2, <2>2, NoStateChange
<1>10. ASSUME slip = "replacement shares a key"  PROVE FALSE
  <2>1. a = [c EXCEPT ![0].registrations[5].key = <<w, 0, "plc">>]  BY <1>10 DEF Assembled
  <2> HIDE DEF a, c
  <2>2. x = [Recorded(w, 0) EXCEPT !.registrations[5].key = <<w, 0, "plc">>]  BY <1>3, <2>1
  <2> QED BY <1>2, <2>2, NoSharedKey
<1>11. ASSUME slip = "replay answered by the first PLC"  PROVE FALSE
  <2>1. a = [c EXCEPT ![0].replay.ack = <<w, 0, "plc">>]  BY <1>11 DEF Assembled
  <2> HIDE DEF a, c
  <2>2. x = [Recorded(w, 0) EXCEPT !.replay.ack = <<w, 0, "plc">>]  BY <1>3, <2>1
  <2> QED BY <1>2, <2>2, NoFirstPlc
<1>12. ASSUME slip = "probe missing"  PROVE FALSE
  <2>1. a = [c EXCEPT ![0].probes.denied = @ \ {"admin_apply"}]  BY <1>12 DEF Assembled
  <2> HIDE DEF a, c
  <2>2. x = [Recorded(w, 0) EXCEPT !.probes.denied = @ \ {"admin_apply"}]  BY <1>3, <2>1
  <2> QED BY <1>2, <2>2, NoProbeMissing
<1>13. ASSUME slip = "request about another command"  PROVE FALSE
  <2>1. a = [c EXCEPT ![0].request.command = <<w, 1, "command">>]  BY <1>13 DEF Assembled
  <2> HIDE DEF a, c
  <2>2. x = [Recorded(w, 0) EXCEPT !.request.command = <<w, 1, "command">>]  BY <1>3, <2>1
  <2> QED BY <1>2, <2>2, NoOtherCommand
<1>14. ASSUME slip = "evaluator registered anew"  PROVE FALSE
  <2>1. a = [c EXCEPT ![0].registrations[6].boot = <<w, 1, "evaluator">>]  BY <1>14 DEF Assembled
  <2> HIDE DEF a, c
  <2>2. x = [Recorded(w, 0) EXCEPT !.registrations[6].boot = <<w, 1, "evaluator">>]  BY <1>3, <2>1
  <2> QED BY <1>2, <2>2, NoOtherEvaluator
<1>15. ASSUME slip = "evidence of another session"  PROVE FALSE
  <2>1. a = [c EXCEPT ![0].evidence = c[1].evidence]  BY <1>15 DEF Assembled
  <2>a. EvidenceChains(a)  BY <1>1 DEF RecordsCohere
  <2>b. DOMAIN Chained(Bodies(w, 1)) = 1..5
    <3>1. 5 \in Nat  OBVIOUS
    <3> QED BY <3>1, FiveLong, ChainedLen
  <2> HIDE DEF a, c
  <2>2. a[0] = [Recorded(w, 0) EXCEPT !.evidence = Recorded(w, 1).evidence] /\ a[1] = Recorded(w, 1)
    BY <1>3, <2>1
  <2>3. PICK e : e = Chained(Bodies(w, 1))  OBVIOUS
  <2>4. a[0].evidence = e /\ a[1].evidence = e
    <3>1. Recorded(w, 1).evidence = e  BY <2>3, RecordedFields
    <3>2. PICK y : y = [Recorded(w, 0) EXCEPT !.evidence = e]  OBVIOUS
    <3>3. y.evidence = e  BY <3>2, RecordedFields
    <3> QED BY <2>2, <3>1, <3>2, <3>3
  <2>5. {r.hash : r \in {e[i] : i \in DOMAIN e}} \cap {r.hash : r \in {e[i] : i \in DOMAIN e}} = {}
    <3>1. {r.hash : r \in {a[0].evidence[i] : i \in DOMAIN a[0].evidence}}
            \cap {r.hash : r \in {a[1].evidence[i] : i \in DOMAIN a[1].evidence}} = {}
      BY <2>a DEF EvidenceChains
    <3> QED BY <3>1, <2>4
  <2>6. 1 \in DOMAIN e  BY <2>b, <2>3
  <2>7. e[1].hash \in {r.hash : r \in {e[i] : i \in DOMAIN e}}  BY <2>6
  <2> QED BY <2>5, <2>7
<1>16. ASSUME slip = "transaction of another session"  PROVE FALSE
  <2> DEFINE y == [c[1].transactions[1] EXCEPT !.session = 0]
  <2>1. a = [c EXCEPT ![0].transactions[1] = y]  BY <1>16 DEF Assembled
  <2>2. y.observer = <<w, 1, "observer">>
    <3>a. PICK t : t = c[1].transactions  OBVIOUS
    <3>b. t = [i \in 1..3 |-> Transaction(w, 1, i)]  BY <1>3, <3>a, RecordedFields
    <3>c. t[1] = Transaction(w, 1, 1)  BY <3>b
    <3>1. c[1].transactions[1] = Transaction(w, 1, 1)  BY <3>a, <3>c
    <3> QED BY <3>1, NominalTransaction
  <2> HIDE DEF a, c, y
  <2>3. x = [Recorded(w, 0) EXCEPT !.transactions[1] = y]  BY <1>3, <2>1
  <2> QED BY <1>2, <2>2, <2>3, NoOtherTransaction
<1>17. ASSUME slip = "health phase twice"  PROVE FALSE
  <2> DEFINE y == c[0].health["pre_replay"]
  <2>1. a = [c EXCEPT ![0].health["post_replay"] = y]  BY <1>17 DEF Assembled
  <2>2. y.phase = "pre_replay"
    <3>a. c[0].health = Health(w, 0)  BY <1>3, RecordedFields
    <3>1. y = Health(w, 0)["pre_replay"]  BY <3>a
    <3>2. "pre_replay" \in Phases  BY DEF Phases
    <3> QED BY <3>1, <3>2, HealthOf
  <2> HIDE DEF a, c, y
  <2>3. x = [Recorded(w, 0) EXCEPT !.health["post_replay"] = y]  BY <1>3, <2>1
  <2> QED BY <1>2, <2>2, <2>3, NoPhaseTwice
<1>18. ASSUME slip = "replay of another session"  PROVE FALSE
  <2> DEFINE y == [c[1].replay EXCEPT !.session = 0]
  <2>1. a = [c EXCEPT ![0].replay = y]  BY <1>18 DEF Assembled
  <2>2. y = [Replay(w, 1) EXCEPT !.session = 0]
    <3>1. c[1].replay = Replay(w, 1)  BY <1>3, RecordedFields
    <3> QED BY <3>1
  <2> HIDE DEF a, c, y
  <2>3. x = [Recorded(w, 0) EXCEPT !.replay = y]  BY <1>3, <2>1
  <2> QED BY <1>2, <2>2, <2>3, NoOtherReplay
<1>19. ASSUME slip = "reports exchanged"  PROVE FALSE
  <2>1. a = [c EXCEPT ![0].report = c[1].report, ![1].report = c[0].report]  BY <1>19 DEF Assembled
  <2>2. c[1].report = EvaluationReport(w, 1)  BY <1>3, RecordedFields
  <2> HIDE DEF a, c
  <2>3. PICK b : b = [c EXCEPT ![0].report = EvaluationReport(w, 1)]  OBVIOUS
  <2>4. b[0] = [Recorded(w, 0) EXCEPT !.report = EvaluationReport(w, 1)] /\ DOMAIN b = {0, 1}  BY <1>3, <2>3
  <2>5. a = [b EXCEPT ![1].report = c[0].report]  BY <2>1, <2>2, <2>3
  <2>6. x = [Recorded(w, 0) EXCEPT !.report = EvaluationReport(w, 1)]  BY <2>4, <2>5
  <2> QED BY <1>2, <2>6, NoOtherReport
<1> QED BY <1>1, <1>4, <1>5, <1>6, <1>7, <1>8, <1>9, <1>10, <1>11, <1>12, <1>13, <1>14,
       <1>15, <1>16, <1>17, <1>18, <1>19
    DEF KnownSlips

----------------------------------------------------------------------------
(***************************************************************************)
(* The inductive invariant of the packages: a package at the output name,  *)
(* and one a verifier has begun to read, carry the signature of a writer   *)
(* that returned, and a writer that has returned takes no further step.    *)
(***************************************************************************)
WriterFields == {"pc", "dirty", "head", "next", "ran", "kept", "slip"}

\* What a writer this far has established about the system its sessions ran.
SessionsBorneOut(pc) ==
    /\ pc = "evaluate" => shortcoming \notin SeenInSession
    /\ pc \in {"ran", "retain", "assembled", "staged", "anchor free", "anchored", "returned"} =>
         shortcoming \notin SeenInSession \cup {"another consequence"}

\* A directory at the output name is the one a writer that returned put there, the
\* signature included; only its files and its manifest may have been changed.
PublishedBy(p) ==
    /\ DOMAIN p = {"files", "manifest", "key", "signed"}
    /\ p.key \in Writers /\ writer[p.key].pc = "returned"
    /\ p.files[1] = p.key /\ p.signed[1] = p.key

WritersInv ==
    /\ DOMAIN writer = Writers
    /\ \A w \in Writers : DOMAIN writer[w] = WriterFields /\ SessionsBorneOut(writer[w].pc)
    /\ shortcoming \in KnownShortcomings

ReaderInv ==
    /\ DOMAIN reader = {"pc", "seen", "anchor", "verdict"}
    /\ reader.pc \in {"manifest", "anchor"} => PublishedBy(reader.seen) /\ package # Unpublished
    /\ reader.pc # "done" => reader.verdict = "none"

\* An accepted package's writer returned, so nothing of what it holds changes any more.
AcceptanceInv ==
    reader.verdict = "accepted" =>
        /\ reader.seen.files[1] \in Writers /\ writer[reader.seen.files[1]].pc = "returned"
        /\ AcceptedMeansRecorded

PackageInv ==
    /\ WritersInv
    /\ package = Unpublished \/ PublishedBy(package)
    /\ ReaderInv
    /\ AcceptanceInv

\* The invariant holds at first.
LEMMA PackageInvInit == PackageInit => PackageInv
<1> SUFFICES ASSUME PackageInit PROVE PackageInv  OBVIOUS
<1>1. DOMAIN Waiting = WriterFields /\ Waiting.pc = "idle"  BY DEF Waiting, WriterFields
<1>2. DOMAIN Resting = {"pc", "seen", "anchor", "verdict"} /\ Resting.pc = "idle" /\ Resting.verdict = "none"
  BY DEF Resting
<1>3. WritersInv
  <2>1. \A w \in Writers : writer[w] = Waiting  BY DEF PackageInit
  <2> QED BY <1>1, <2>1, PackageAssumption DEF PackageInit, WritersInv, SessionsBorneOut
<1>4. ReaderInv  BY <1>2 DEF PackageInit, ReaderInv
<1>5. AcceptanceInv  BY <1>2 DEF PackageInit, AcceptanceInv
<1> QED BY <1>3, <1>4, <1>5 DEF PackageInv, PackageInit

\* A step of one writer that has not returned.
LEMMA WriterStep ==
    ASSUME PackageInv, NEW w \in Writers, writer[w].pc # "returned",
           NEW r, DOMAIN r = WriterFields, SessionsBorneOut(r.pc),
           writer' = [writer EXCEPT ![w] = r], shortcoming' = shortcoming
    PROVE  /\ WritersInv'
           /\ \A v \in Writers : writer[v].pc = "returned" => writer'[v] = writer[v]
           /\ \A p : PublishedBy(p) => PublishedBy(p)'
           /\ (reader' = reader => AcceptanceInv')
<1>1. DOMAIN writer = Writers  BY DEF PackageInv, WritersInv
<1>2. \A v \in Writers : writer'[v] = IF v = w THEN r ELSE writer[v]  BY <1>1
<1>3. DOMAIN writer' = Writers  BY <1>1
<1>4. \A v \in Writers : DOMAIN writer'[v] = WriterFields /\ SessionsBorneOut(writer'[v].pc)
  BY <1>2 DEF PackageInv, WritersInv
<1>5. WritersInv'
  <2>1. \A v \in Writers : (DOMAIN writer[v] = WriterFields /\ SessionsBorneOut(writer[v].pc))'
    BY <1>4 DEF SessionsBorneOut
  <2> QED BY <1>3, <2>1 DEF PackageInv, WritersInv
<1>6. \A v \in Writers : writer[v].pc = "returned" => writer'[v] = writer[v]  BY <1>2
<1>7. \A p : PublishedBy(p) => PublishedBy(p)'  BY <1>6 DEF PublishedBy
<1>8. ASSUME reader' = reader  PROVE AcceptanceInv'
  BY <1>6, <1>8 DEF PackageInv, AcceptanceInv, AcceptedMeansRecorded
<1> QED BY <1>5, <1>6, <1>7, <1>8

\* The same, when package and reader stay as they are.
LEMMA WriterAlone ==
    ASSUME PackageInv, NEW w \in Writers, writer[w].pc # "returned",
           NEW r, DOMAIN r = WriterFields, SessionsBorneOut(r.pc),
           writer' = [writer EXCEPT ![w] = r], UNCHANGED <<shortcoming, package, reader>>
    PROVE  PackageInv'
<1>0. UNCHANGED <<shortcoming, package, reader>>  OBVIOUS
<1>1. WritersInv' /\ (\A p : PublishedBy(p) => PublishedBy(p)') /\ AcceptanceInv'  BY <1>0, WriterStep
<1>2. (package = Unpublished \/ PublishedBy(package))'
  <2>1. package = Unpublished \/ PublishedBy(package)  BY DEF PackageInv
  <2>2. PublishedBy(package) => PublishedBy(package)'  BY <1>0, <1>1 DEF PublishedBy
  <2> QED BY <1>0, <2>1, <2>2 DEF Unpublished
<1>3. ReaderInv'
  <2>1. PublishedBy(reader.seen) => PublishedBy(reader.seen)'  BY <1>0, <1>1 DEF PublishedBy
  <2> QED BY <1>0, <2>1 DEF PackageInv, ReaderInv, Unpublished
<1> QED BY <1>1, <1>2, <1>3 DEF PackageInv

\* Every step keeps it.
LEMMA PackageInvStep == PackageInv /\ [PackageNext]_packageVars => PackageInv'
<1> SUFFICES ASSUME PackageInv, [PackageNext]_packageVars  PROVE PackageInv'  OBVIOUS
<1>0. /\ DOMAIN Waiting = WriterFields
      /\ DOMAIN Gone = WriterFields /\ Gone.pc = "gone"
  BY DEF Waiting, WriterFields, Gone
<1>a. ASSUME NEW w \in Writers  PROVE DOMAIN writer[w] = WriterFields /\ SessionsBorneOut(writer[w].pc)
  BY <1>a DEF PackageInv, WritersInv
<1>b. SessionsBorneOut("gone") /\ SessionsBorneOut("session")  BY DEF SessionsBorneOut
<1>g. ASSUME NEW w \in Writers, writer[w].pc # "returned", GiveUp(w),
             UNCHANGED <<shortcoming, package, reader>>
      PROVE  PackageInv'
  <2>1. writer' = [writer EXCEPT ![w] = Gone] /\ SessionsBorneOut(Gone.pc)  BY <1>g, <1>0, <1>b DEF GiveUp, Step
  <2> QED BY <1>g, <1>0, <2>1, WriterAlone
<1>1. ASSUME NEW w \in Writers, BeginRun(w)  PROVE PackageInv'
  <2>0. writer[w].pc = "idle" /\ UNCHANGED <<shortcoming, package, reader>>  BY <1>1 DEF BeginRun, WriterOnly
  <2>1. PICK d : \/ GiveUp(w)
                 \/ Step(w, [writer[w] EXCEPT !.pc = "session", !.dirty = <<d, FALSE>>, !.head = commit.id])
    BY <1>1 DEF BeginRun
  <2>2. CASE GiveUp(w)  BY <2>0, <2>2, <1>g
  <2>3. CASE Step(w, [writer[w] EXCEPT !.pc = "session", !.dirty = <<d, FALSE>>, !.head = commit.id])
    <3>1. PICK r : r = [writer[w] EXCEPT !.pc = "session", !.dirty = <<d, FALSE>>, !.head = commit.id]  OBVIOUS
    <3>2. DOMAIN r = WriterFields /\ r.pc = "session"  BY <3>1, <1>a DEF WriterFields
    <3>3. writer' = [writer EXCEPT ![w] = r]  BY <2>3, <3>1 DEF Step
    <3> QED BY <2>0, <3>2, <3>3, <1>b, WriterAlone
  <2> QED BY <2>1, <2>2, <2>3
<1>o. ASSUME NEW w \in Writers, writer[w].pc # "returned", NEW pc, Onward(w, pc), SessionsBorneOut(pc),
             UNCHANGED <<shortcoming, package, reader>>
      PROVE  PackageInv'
  <2>1. PICK r : r = [writer[w] EXCEPT !.pc = pc]  OBVIOUS
  <2>2. DOMAIN r = WriterFields /\ r.pc = pc  BY <2>1, <1>a DEF WriterFields
  <2>3. writer' = [writer EXCEPT ![w] = r]  BY <1>o, <2>1 DEF Onward, Step
  <2> QED BY <1>o, <2>2, <2>3, WriterAlone
<1>2. ASSUME NEW w \in Writers, RunSession(w)  PROVE PackageInv'
  <2>0. writer[w].pc = "session" /\ UNCHANGED <<shortcoming, package, reader>>  BY <1>2 DEF RunSession, WriterOnly
  <2>1. CASE GiveUp(w)  BY <2>0, <2>1, <1>g
  <2>2. CASE shortcoming \notin SeenInSession /\ Onward(w, "evaluate")
    <3>1. SessionsBorneOut("evaluate")  BY <2>2 DEF SessionsBorneOut
    <3> QED BY <2>0, <2>2, <3>1, <1>o
  <2> QED BY <1>2, <2>1, <2>2 DEF RunSession
<1>3. ASSUME NEW w \in Writers, Evaluate(w)  PROVE PackageInv'
  <2>0. writer[w].pc = "evaluate" /\ UNCHANGED <<shortcoming, package, reader>>  BY <1>3 DEF Evaluate, WriterOnly
  <2> DEFINE s == writer[w].next
             r == [writer[w] EXCEPT !.ran[s] = tree["evaluator"], !.next = s + 1,
                                    !.pc = IF s + 1 \in Sessions THEN "session" ELSE "ran"]
  <2>1. CASE GiveUp(w)  BY <2>0, <2>1, <1>g
  <2>2. CASE shortcoming # "another consequence" /\ Step(w, r)
    <3>1. DOMAIN r = WriterFields /\ r.pc \in {"session", "ran"}  BY <1>a DEF WriterFields
    <3>2. SessionsBorneOut("ran")
      <4>1. shortcoming \notin SeenInSession  BY <1>a, <2>0 DEF SessionsBorneOut
      <4> QED BY <4>1, <2>2 DEF SessionsBorneOut
    <3>3. writer' = [writer EXCEPT ![w] = r]  BY <2>2 DEF Step
    <3> HIDE DEF r
    <3> QED BY <2>0, <3>1, <3>2, <3>3, <1>b, WriterAlone
  <2> QED BY <1>3, <2>1, <2>2 DEF Evaluate
<1>c. ASSUME NEW w \in Writers,
             writer[w].pc \in {"ran", "retain", "assembled", "staged", "anchor free", "anchored"}
      PROVE  shortcoming \notin SeenInSession \cup {"another consequence"}
  BY <1>a, <1>c DEF SessionsBorneOut
<1>4. ASSUME NEW w \in Writers, EndProvenance(w)  PROVE PackageInv'
  <2>0. writer[w].pc = "ran" /\ UNCHANGED <<shortcoming, package, reader>>  BY <1>4 DEF EndProvenance, WriterOnly
  <2>1. PICK d : \/ GiveUp(w)
                 \/ Step(w, [writer[w] EXCEPT !.pc = "retain", !.dirty = <<@[1], d>>])
    BY <1>4 DEF EndProvenance
  <2>2. CASE GiveUp(w)  BY <2>0, <2>2, <1>g
  <2>3. CASE Step(w, [writer[w] EXCEPT !.pc = "retain", !.dirty = <<@[1], d>>])
    <3>1. PICK r : r = [writer[w] EXCEPT !.pc = "retain", !.dirty = <<@[1], d>>]  OBVIOUS
    <3>2. DOMAIN r = WriterFields  BY <3>1, <1>a
    <3>3. writer' = [writer EXCEPT ![w] = r]  BY <2>3, <3>1 DEF Step
    <3>4. writer[w].pc # "returned" /\ SessionsBorneOut(r.pc)  BY <2>0, <1>c DEF SessionsBorneOut
    <3> QED BY <2>0, <3>2, <3>3, <3>4, WriterAlone
  <2> QED BY <2>1, <2>2, <2>3
<1>5. ASSUME NEW w \in Writers, Retain(w)  PROVE PackageInv'
  <2>0. writer[w].pc = "retain" /\ UNCHANGED <<shortcoming, package, reader>>  BY <1>5 DEF Retain
  <2>1. PICK slip : Step(w, [writer[w] EXCEPT !.pc = "assembled", !.kept = tree, !.slip = slip])
    BY <1>5 DEF Retain
  <2>2. PICK r : r = [writer[w] EXCEPT !.pc = "assembled", !.kept = tree, !.slip = slip]  OBVIOUS
  <2>3. DOMAIN r = WriterFields  BY <2>2, <1>a
  <2>4. writer' = [writer EXCEPT ![w] = r]  BY <2>1, <2>2 DEF Step
  <2>5. writer[w].pc # "returned" /\ SessionsBorneOut(r.pc)  BY <2>0, <1>c DEF SessionsBorneOut
  <2> QED BY <2>0, <2>3, <2>4, <2>5, WriterAlone
<1>6. ASSUME NEW w \in Writers, Stage(w) \/ CheckAnchorName(w)  PROVE PackageInv'
  <2>0. writer[w].pc \in {"assembled", "staged"} /\ UNCHANGED <<shortcoming, package, reader>>
    BY <1>6 DEF Stage, CheckAnchorName, WriterOnly
  <2>1. GiveUp(w) \/ Onward(w, "staged") \/ Onward(w, "anchor free")  BY <1>6 DEF Stage, CheckAnchorName
  <2>2. SessionsBorneOut("staged") /\ SessionsBorneOut("anchor free")  BY <2>0, <1>c DEF SessionsBorneOut
  <2>3. writer[w].pc # "returned"  BY <2>0
  <2>4. CASE GiveUp(w)  BY <2>0, <2>3, <2>4, <1>g
  <2>5. CASE Onward(w, "staged")  BY <2>0, <2>2, <2>3, <2>5, <1>o
  <2>6. CASE Onward(w, "anchor free")  BY <2>0, <2>2, <2>3, <2>6, <1>o
  <2> QED BY <2>1, <2>4, <2>5, <2>6
<1>7. ASSUME NEW w \in Writers, PublishAnchor(w)  PROVE PackageInv'
  <2>0. writer[w].pc = "anchor free" /\ UNCHANGED <<shortcoming, package, reader>> /\ Onward(w, "anchored")
    BY <1>7 DEF PublishAnchor
  <2>1. SessionsBorneOut("anchored")  BY <2>0, <1>c DEF SessionsBorneOut
  <2> QED BY <2>0, <2>1, <1>o
<1>8. ASSUME NEW w \in Writers, PublishPackage(w)  PROVE PackageInv'
  <2>0. writer[w].pc = "anchored" /\ UNCHANGED <<shortcoming, reader>>  BY <1>8 DEF PublishPackage
  <2>1. CASE GiveUp(w) /\ UNCHANGED package  BY <2>0, <2>1, <1>g
  <2>2. CASE package = Unpublished /\ package' = Signed(w) /\ Onward(w, "returned")
    <3>1. PICK r : r = [writer[w] EXCEPT !.pc = "returned"]  OBVIOUS
    <3>2. DOMAIN r = WriterFields /\ r.pc = "returned"  BY <3>1, <1>a DEF WriterFields
    <3>3. writer' = [writer EXCEPT ![w] = r]  BY <2>2, <3>1 DEF Onward, Step
    <3>4. SessionsBorneOut(r.pc)
      <4>1. writer[w].pc \in {"ran", "retain", "assembled", "staged", "anchor free", "anchored"}  BY <2>0
      <4> QED BY <4>1, <1>c DEF SessionsBorneOut
    <3>5. WritersInv' /\ (\A p : PublishedBy(p) => PublishedBy(p)') /\ AcceptanceInv'
      <4>1. writer[w].pc # "returned"  BY <2>0
      <4> QED BY <4>1, <2>0, <3>2, <3>3, <3>4, WriterStep
    <3>6. writer'[w].pc = "returned"  BY <3>2, <3>3 DEF PackageInv, WritersInv
    <3>7. PublishedBy(package)'  BY <2>2, <3>6 DEF PublishedBy, Signed
    <3>8. ReaderInv'
      <4>1. reader.pc \notin {"manifest", "anchor"}  BY <2>2 DEF PackageInv, ReaderInv
      <4> QED BY <4>1, <2>0 DEF PackageInv, ReaderInv
    <3> QED BY <3>5, <3>7, <3>8 DEF PackageInv
  <2> QED BY <1>8, <2>1, <2>2 DEF PublishPackage
<1>9. ASSUME NEW w \in Writers, KillWriter(w)  PROVE PackageInv'
  BY <1>9, <1>g DEF KillWriter
<1>10. ASSUME (\E p \in Parts : Edit(p)) \/ Commit \/ UNCHANGED packageVars  PROVE PackageInv'
  <2>1. UNCHANGED <<shortcoming, writer, package, reader>>  BY <1>10 DEF Edit, Commit, packageVars
  <2> QED BY <2>1 DEF PackageInv, WritersInv, SessionsBorneOut, PublishedBy, ReaderInv, AcceptanceInv,
                      AcceptedMeansRecorded, Unpublished
<1>11. ASSUME ChangeOnDisk  PROVE PackageInv'
  <2>0. UNCHANGED <<shortcoming, writer, reader>> /\ package # Unpublished  BY <1>11 DEF ChangeOnDisk
  <2>1. PICK slip, m : package' = [package EXCEPT !.files = <<package.files[1], slip>>, !.manifest = m]
    BY <1>11 DEF ChangeOnDisk
  <2>2. PublishedBy(package)  BY <2>0 DEF PackageInv
  <2>3. PublishedBy(package)'
    <3>1. /\ DOMAIN package' = {"files", "manifest", "key", "signed"}
          /\ package'.key = package.key /\ package'.signed = package.signed
          /\ package'.files = <<package.files[1], slip>>
      BY <2>1, <2>2 DEF PublishedBy
    <3> QED BY <3>1, <2>0, <2>2 DEF PublishedBy
  <2>4. package' # Unpublished
    <3>1. package'.key = package.key /\ package'.key \in Writers  BY <2>1, <2>2 DEF PublishedBy
    <3> QED BY <3>1, PackageAssumption DEF Unpublished
  <2> QED BY <2>0, <2>3, <2>4 DEF PackageInv, WritersInv, SessionsBorneOut, PublishedBy, ReaderInv,
                      AcceptanceInv, AcceptedMeansRecorded, Unpublished
<1>12. ASSUME ReadManifest  PROVE PackageInv'
  <2>0. UNCHANGED <<shortcoming, writer, package>> /\ package # Unpublished
        /\ reader' = [Resting EXCEPT !.pc = "manifest", !.seen = package]
    BY <1>12 DEF ReadManifest
  <2>1. /\ DOMAIN reader' = {"pc", "seen", "anchor", "verdict"}
        /\ reader'.pc = "manifest" /\ reader'.seen = package /\ reader'.verdict = "none"
    BY <2>0 DEF Resting
  <2>2. PublishedBy(package)  BY <2>0 DEF PackageInv
  <2>3. ReaderInv'  BY <2>0, <2>1, <2>2 DEF ReaderInv, PublishedBy, Unpublished
  <2>4. AcceptanceInv'  BY <2>1 DEF AcceptanceInv
  <2> QED BY <2>0, <2>3, <2>4 DEF PackageInv, WritersInv, SessionsBorneOut, PublishedBy, Unpublished
<1>13. ASSUME ReadAnchor  PROVE PackageInv'
  <2>0. UNCHANGED <<shortcoming, writer, package>> /\ reader.pc = "manifest"
        /\ reader' = [reader EXCEPT !.pc = "anchor", !.anchor = trustAnchor]
    BY <1>13 DEF ReadAnchor
  <2>1. /\ DOMAIN reader' = {"pc", "seen", "anchor", "verdict"}
        /\ reader'.pc = "anchor" /\ reader'.seen = reader.seen /\ reader'.verdict = "none"
    BY <2>0 DEF PackageInv, ReaderInv
  <2>2. PublishedBy(reader.seen) /\ package # Unpublished  BY <2>0 DEF PackageInv, ReaderInv
  <2>3. ReaderInv'  BY <2>0, <2>1, <2>2 DEF ReaderInv, PublishedBy, Unpublished
  <2>4. AcceptanceInv'  BY <2>1 DEF AcceptanceInv
  <2> QED BY <2>0, <2>3, <2>4 DEF PackageInv, WritersInv, SessionsBorneOut, PublishedBy, Unpublished
<1>14. ASSUME Conclude  PROVE PackageInv'
  <2>0. UNCHANGED <<shortcoming, writer, package>> /\ reader.pc = "anchor"  BY <1>14 DEF Conclude
  <2> DEFINE files == package.files
             seen == reader.seen
  <2>1. /\ DOMAIN reader' = {"pc", "seen", "anchor", "verdict"}
        /\ reader'.pc = "done" /\ reader'.anchor = reader.anchor
        /\ reader'.seen = [seen EXCEPT !.files = files]
        /\ reader'.verdict = "accepted" => ExperimentAccepted(seen, reader.anchor, files)
    BY <1>14 DEF Conclude, PackageInv, ReaderInv
  <2>2. PublishedBy(seen)  BY <2>0 DEF PackageInv, ReaderInv
  <2>3. reader'.seen.files = files  BY <2>1, <2>2 DEF PublishedBy
  <2>4. ASSUME reader'.verdict = "accepted"
        PROVE  /\ files[1] \in Writers /\ writer[files[1]].pc = "returned"
               /\ reader.anchor = files[1]
               /\ files[2] \in {"none", "replay names other registrations"}
               /\ shortcoming = "none"
               /\ \A s \in Sessions : writer[files[1]].ran[s] = writer[files[1]].kept["evaluator"]
    <3>1. PackageValid(seen, reader.anchor, files)  BY <2>1, <2>4 DEF ExperimentAccepted
    <3>2. seen.key = reader.anchor /\ seen.signed = seen.manifest /\ files = seen.manifest /\ SemanticsHold(files)
      BY <3>1 DEF PackageValid, RootTrusted, ArtifactsIntact
    <3>3. files[1] = seen.key /\ seen.key \in Writers /\ writer[seen.key].pc = "returned"
      BY <2>2, <3>2 DEF PublishedBy
    <3>4. files[2] \in Coherent[files[1]] /\ SourceDigestsMatch(files[1]) /\ CriteriaMet
      BY <3>2 DEF SemanticsHold
    <3>5. files[2] \in {"none", "replay names other registrations"}
      <4> HIDE DEF files
      <4> QED BY <3>3, <3>4, CoherentSlips
    <3>6. shortcoming = "none"
      <4>1. SessionsBorneOut("returned")  BY <1>a, <3>3
      <4>2. shortcoming \in KnownShortcomings  BY DEF PackageInv, WritersInv
      <4> QED BY <4>1, <4>2, <3>4 DEF SessionsBorneOut, CriteriaMet, KnownShortcomings
    <3> QED BY <3>2, <3>3, <3>4, <3>5, <3>6 DEF SourceDigestsMatch
  <2>5. AcceptanceInv'  BY <2>0, <2>1, <2>3, <2>4 DEF AcceptanceInv, AcceptedMeansRecorded
  <2>6. ReaderInv'  BY <2>1 DEF ReaderInv
  <2> QED BY <2>0, <2>5, <2>6 DEF PackageInv, WritersInv, SessionsBorneOut, PublishedBy, Unpublished
<1>15. ASSUME PackageNext  PROVE PackageInv'
  <2>1. CASE \E w \in Writers :
                \/ BeginRun(w) \/ RunSession(w) \/ Evaluate(w) \/ EndProvenance(w) \/ Retain(w) \/ Stage(w)
                \/ CheckAnchorName(w) \/ PublishAnchor(w) \/ PublishPackage(w) \/ KillWriter(w)
    BY <2>1, <1>1, <1>2, <1>3, <1>4, <1>5, <1>6, <1>7, <1>8, <1>9
  <2> QED BY <1>15, <2>1, <1>10, <1>11, <1>12, <1>13, <1>14 DEF PackageNext
<1> QED BY <1>10, <1>15

\* A package is accepted only under the anchor of the writer whose sessions it
\* records, with what they recorded, for a system without a shortcoming and with the
\* evaluator source its reports name.
THEOREM AcceptedPackages == PackageSpec => []AcceptedMeansRecorded
<1>1. PackageInv => AcceptedMeansRecorded  BY DEF PackageInv, AcceptanceInv, AcceptedMeansRecorded
<1> QED BY <1>1, PackageInvInit, PackageInvStep, PTL DEF PackageSpec

----
(***************************************************************************)
(* The inductive invariant of the live campaigns.  Every observation a     *)
(* campaign has noted excludes what it was made to exclude; by each phase  *)
(* the observations of the phases before it are there; and the deployed    *)
(* project is in a state in which the next observation cannot miss its     *)
(* defect.                                                                 *)
(***************************************************************************)
SiteFields == {"made", "relay", "keys", "stray", "image", "sys"}
RunFields == {"pc", "relaying", "saw", "masked", "left", "restored"}
ProjectFields ==
    {"gateway", "ot", "plant", "file", "up", "born", "mode", "bundle", "floor", "leaf", "revoked", "spent",
     "svid", "registered"}
NoFloors == [v \in Verifiers |-> 0]
Intact == [x \in Services |-> "intact"]

\* What must have been noted by the time a campaign is in a phase.
Coordination0 == {"health", "private"}
Coordination1 == Coordination0 \cup {"lost"}
Coordination2 == Coordination1 \cup {"fresh"}
Coordination3 == Coordination2 \cup {"resolved"}
Coordination4 == Coordination3 \cup {"plant"}
Coordination5 == Coordination4 \cup {"corrupt_gateway"}
Coordination6 == Coordination5 \cup {"corrupt_ot"}
Coordination7 == Coordination6 \cup {"corrupt_plant"}
CoordinationDue ==
    [bind |-> {}, build |-> {}, up |-> {}, nominal |-> Coordination0, start_relay |-> Coordination0,
     lose |-> Coordination0, fresh |-> Coordination1, stop_relay |-> Coordination2, reconcile |-> Coordination2,
     restart |-> Coordination3, plant |-> Coordination3, corrupt_gateway |-> Coordination4,
     corrupt_ot |-> Coordination5, corrupt_plant |-> Coordination6, checkout |-> Coordination7]

Identity0 == {"bound", "private"}
Identity1 == Identity0 \cup {"primary", "first"}
Identity2 == Identity1 \cup {"revoked"}
Identity3 == Identity2 \cup {"resent"}
Identity4 == Identity3 \cup {"rollback"}
Identity5 == Identity4 \cup {"missing"}
Identity6 == Identity5 \cup {"corrupt"}
IdentityDue ==
    [bind |-> {}, build |-> {"bound"}, up |-> {"bound"}, probe |-> Identity0, direct |-> Identity1,
     rotate |-> Identity1, probe_again |-> Identity2, direct_again |-> Identity2, rollback |-> Identity3,
     missing |-> Identity4, corrupt |-> Identity5, evaluate |-> Identity6]

MtlsDue ==
    [bind |-> {}, build |-> {"bound"}, up |-> {"bound"}, identities |-> {"bound"},
     await_svid |-> {"bound", "distinct", "primary"}, unregister |-> {"bound", "distinct", "primary", "rotated"},
     evaluate |-> {"bound", "distinct", "primary", "rotated", "deleted"}]

Due(k) == CASE k = "m4i" -> CoordinationDue [] k = "m4g" -> IdentityDue [] k = "spire" -> MtlsDue

\* What a noted observation v under the name f says about the defect d, given
\* the defects that were masked.
CoordinationFact(d, m, f, v) ==
    /\ f = "health" => d # "shared_volume" /\ (v.required => d # "not_required")
    /\ f = "private" => (v => d # "readable_state")
    /\ f = "lost" => (v.status = "unknown_effect" /\ v.relay.violations = 0 => d \notin {"assumes_applied", "resends"})
    /\ f = "fresh" => (v.refused => d # "admits_second")
    /\ f = "resolved" => d # "gateway_forgets" /\ (v.gateway.commit = 1 => d # "commits_again")
    /\ f = "plant" => (v.before = v.after => d # "plant_resets")
    /\ f = "corrupt_gateway" => (~v.ready => d # "opens_corrupt_gateway" \/ d \in m)
    /\ f = "corrupt_ot" => (~v.ready => d # "opens_corrupt_ot" \/ d \in m)
    /\ f = "corrupt_plant" => (~v.ready => d # "opens_corrupt_plant" \/ d \in m)

IdentityFact(d, m, f, v) ==
    /\ f = "bound" => (v => d # "shared_floor")
    /\ f = "private" => (v => d # "readable_state")
    /\ f = "primary" => (v => d # "agent_reaches_ot")
    /\ f = "first" => d # "floor_not_kept"
    /\ f = "revoked" => (v = {"first"} => d # "old_leaf_trusted")
    /\ f = "resent" => (v.status = 409 => d # "nonce_per_leaf")
    /\ f = "rollback" => (v.refused => d \notin {"floor_ignored", "agent_ignores_floor"})
    /\ f = "missing" => (v.failed => d # "opens_without_bundle" \/ d \in m)
    /\ f = "corrupt" => (v.failed => d # "opens_corrupt_bundle" \/ d \in m)

MtlsFact(d, f, v) ==
    /\ f = "bound" => (v => d \notin {"shared_floor", "plaintext_link"})
    /\ f = "distinct" => (v => d # "shared_identity")
    /\ f = "primary" => (v => d # "agent_reaches_ot")
    /\ f = "rotated" => d # "never_rotates"
    /\ f = "deleted" => d # "fetch_survives" /\ (v.status = "not_dispatched" => d # "acts_without_identity")

Fact(k, d, m, f, v) ==
    /\ k = "m4i" => CoordinationFact(d, m, f, v)
    /\ k = "m4g" => IdentityFact(d, m, f, v)
    /\ k = "spire" => MtlsFact(d, f, v)

Facts(k, d, m, o) == \A f \in DOMAIN o : Fact(k, d, m, f, o[f])

\* The project while a campaign is in a phase.
CoordinationProject(d, pc, s) ==
    /\ s.bundle = 1 /\ s.floor = NoFloors /\ s.plant \in Nat
    /\ pc \in {"build", "up"} => d # "shared_volume"
    /\ pc \in {"start_relay", "lose", "fresh", "stop_relay", "reconcile", "restart", "plant"} => s.plant # 0
    /\ pc = "reconcile" /\ d = "gateway_forgets" => s.gateway["lost"].state = "none"

IdentityProject(d, pc, s) ==
    /\ s.mode = "off" /\ s.file = Intact
    /\ pc \notin {"bind", "build", "up"} => {"gateway", "ot"} \subseteq s.up
    /\ pc \in {"bind", "build", "up", "probe"} => s.floor = NoFloors
    /\ pc \in {"bind", "build", "up", "probe", "direct"} => s.spent = {}
    /\ pc \in {"bind", "build", "up", "probe", "direct", "rotate"} => s.leaf = "first" /\ s.revoked = {}
    /\ pc \in {"rotate", "probe_again", "direct_again"} /\ d = "nonce_per_leaf" => s.spent \subseteq {"first"}
    /\ pc \in {"probe_again", "direct_again"} => s.leaf = "second"

Project(k, d, pc, s) ==
    /\ DOMAIN s = ProjectFields /\ DOMAIN s.file = Services
    /\ k = "m4i" => CoordinationProject(d, pc, s)
    /\ k = "m4g" => IdentityProject(d, pc, s)

\* While a campaign works; when it is over; when it has nothing to hide.
Working(k, d, h, r) ==
    r.pc \in DOMAIN Due(k) =>
        /\ Due(k)[r.pc] \subseteq DOMAIN r.saw
        /\ Project(k, d, r.pc, h.sys)
        /\ r.pc \notin {"bind", "build"} => h.image # "none"

NotDefective(k, d, r) == d \in Excluded(k) => d \in r.masked

Over(k, d, h, r) ==
    r.pc \in {"cleanup", "judge"} =>
        /\ \/ r.saw = <<>>
           \/ /\ h.image # "none"
              /\ IF k = "m4i" THEN Coordination7 \subseteq DOMAIN r.saw ELSE NotDefective(k, d, r)
        /\ r.pc = "judge" /\ r.left = {} => ~h.made /\ ~h.keys

Done(k, d, h, r) ==
    r.pc \in {"write", "staged", "done"} =>
        /\ h.image # "none" /\ (h.image = "edited" => r.restored) /\ NotDefective(k, d, r)
        /\ ~h.made /\ ~h.relay /\ ~h.keys

Sound(k, d, c, h, r) ==
    /\ DOMAIN h = SiteFields /\ DOMAIN r = RunFields
    /\ h.image \in {"none", "clean", "edited"} /\ (h.image = "edited" => c = "edited" \/ r.restored)
    /\ r.pc = "idle" => h.image = "none"
    /\ k # "m4i" => ~h.relay
    /\ Facts(k, d, r.masked, r.saw)
    /\ Working(k, d, h, r) /\ Over(k, d, h, r) /\ Done(k, d, h, r)

CampaignInv ==
    /\ kind \in [Campaigns -> {"m4i", "m4g", "spire"}] /\ checkout \in {"clean", "edited"}
    /\ DOMAIN site = Campaigns /\ DOMAIN run = Campaigns
    /\ \A p \in reported : p \in Campaigns /\ run[p].pc = "done"
    /\ \A p \in Campaigns : Sound(kind[p], defect, checkout, site[p], run[p])

----
(* Noting an observation keeps what the others say. *)

\* A noted observation is the new one or one that was there.
LEMMA NotingFacts ==
  ASSUME NEW k, NEW d, NEW m, NEW seen, NEW saw, Facts(k, d, m, seen), Facts(k, d, m, saw)
  PROVE  Facts(k, d, m, Noting(seen, saw))
<1>1. DOMAIN Noting(seen, saw) = DOMAIN seen \cup DOMAIN saw
  BY DEF Noting
<1>2. ASSUME NEW f \in DOMAIN Noting(seen, saw) PROVE Fact(k, d, m, f, Noting(seen, saw)[f])
  <2>1. CASE f \in DOMAIN seen
    <3>1. Noting(seen, saw)[f] = seen[f]
      BY <2>1 DEF Noting
    <3> QED BY <3>1, <2>1 DEF Facts
  <2>2. CASE f \notin DOMAIN seen
    <3>1. f \in DOMAIN saw /\ Noting(seen, saw)[f] = saw[f]
      BY <2>2, <1>1 DEF Noting
    <3> QED BY <3>1 DEF Facts
  <2> QED BY <2>1, <2>2
<1> QED BY <1>1, <1>2 DEF Facts

\* What was noted stays true when another defect is masked.
LEMMA MaskingFacts ==
  ASSUME NEW k, NEW d, NEW m, NEW x, NEW o, Facts(k, d, m, o) PROVE Facts(k, d, m \cup {x}, o)
BY DEF Facts, Fact, CoordinationFact, IdentityFact, MtlsFact

\* Nothing noted says nothing.
LEMMA NothingNoted ==
  ASSUME NEW k, NEW d, NEW m PROVE Facts(k, d, m, <<>>) /\ DOMAIN <<>> = {}
BY DEF Facts

\* A step of one campaign leaves the others as they are.
LEMMA OneCampaign ==
  ASSUME CampaignInv, NEW p \in Campaigns, NEW h, NEW r,
         site' = [site EXCEPT ![p] = h], run' = [run EXCEPT ![p] = r],
         kind' = kind, defect' = defect, checkout' = checkout,
         Sound(kind[p], defect, checkout, h, r),
         reported' \subseteq reported \cup {p}, p \in reported' => r.pc = "done"
  PROVE  CampaignInv'
<1>1. /\ DOMAIN site' = Campaigns /\ DOMAIN run' = Campaigns
      /\ site'[p] = h /\ run'[p] = r
      /\ \A q \in Campaigns \ {p} : site'[q] = site[q] /\ run'[q] = run[q]
  BY DEF CampaignInv
<1>2. \A q \in Campaigns : Sound(kind[q], defect, checkout, site'[q], run'[q])
  BY <1>1 DEF CampaignInv
<1>3. \A q \in reported' : q \in Campaigns /\ run'[q].pc = "done"
  BY <1>1 DEF CampaignInv
<1> QED BY <1>1, <1>2, <1>3 DEF CampaignInv

\* ExperimentError at any time leaves nothing noted.
LEMMA RaiseKeeps ==
  ASSUME CampaignInv, NEW p \in Campaigns, NEW s, Raise(p, s), run[p].pc # "done"
  PROVE  CampaignInv'
<1>a. PICK h : h = [site[p] EXCEPT !.sys = s]
  OBVIOUS
<1>b. PICK r : r = [run[p] EXCEPT !.pc = "cleanup", !.saw = <<>>]
  OBVIOUS
<1>1. /\ DOMAIN site = Campaigns /\ DOMAIN run = Campaigns /\ p \notin reported
      /\ Sound(kind[p], defect, checkout, site[p], run[p])
  BY DEF CampaignInv
<1>2. site' = [site EXCEPT ![p] = h] /\ run' = [run EXCEPT ![p] = r]
  BY <1>a, <1>b, <1>1 DEF Raise
<1>3. /\ DOMAIN h = SiteFields /\ DOMAIN r = RunFields
      /\ h.image = site[p].image /\ h.relay = site[p].relay
      /\ r.pc = "cleanup" /\ r.saw = <<>> /\ r.masked = run[p].masked /\ r.restored = run[p].restored
  BY <1>a, <1>b, <1>1 DEF Sound, SiteFields, RunFields
<1>4. Facts(kind[p], defect, r.masked, r.saw)
  BY <1>3, NothingNoted
<1>5. r.pc \notin DOMAIN Due(kind[p])
  BY <1>3 DEF Due, CoordinationDue, IdentityDue, MtlsDue, CampaignInv
<1>6. Sound(kind[p], defect, checkout, h, r)
  BY <1>1, <1>3, <1>4, <1>5 DEF Sound, Working, Over, Done
<1>7. /\ kind' = kind /\ defect' = defect /\ checkout' = checkout
      /\ reported' \subseteq reported \cup {p} /\ (p \in reported' => r.pc = "done")
  BY <1>1 DEF Raise
<1> QED BY <1>2, <1>6, <1>7, OneCampaign

\* A step into another phase, whatever else it changes at the site.
LEMMA MovesOn ==
  ASSUME CampaignInv, NEW p \in Campaigns, NEW h, NEW r,
         site' = [site EXCEPT ![p] = h], run' = [run EXCEPT ![p] = r],
         kind' = kind, defect' = defect, checkout' = checkout, reported' = reported,
         run[p].pc # "done",
         DOMAIN h = SiteFields, DOMAIN r = RunFields,
         h.image \in {"none", "clean", "edited"}, h.image = "edited" => checkout = "edited" \/ r.restored,
         kind[p] # "m4i" => ~h.relay,
         Facts(kind[p], defect, r.masked, r.saw),
         r.pc \in DOMAIN Due(kind[p]), Due(kind[p])[r.pc] \subseteq DOMAIN r.saw,
         Project(kind[p], defect, r.pc, h.sys),
         r.pc \notin {"bind", "build"} => h.image # "none"
  PROVE  CampaignInv'
<1>1. kind[p] \in {"m4i", "m4g", "spire"} /\ p \notin reported
  BY DEF CampaignInv
<1>2. r.pc \notin {"idle", "cleanup", "judge", "write", "staged", "done"}
  BY <1>1 DEF Due, CoordinationDue, IdentityDue, MtlsDue
<1>3. Sound(kind[p], defect, checkout, h, r)
  BY <1>2 DEF Sound, Working, Over, Done
<1>4. reported' \subseteq reported \cup {p} /\ (p \in reported' => r.pc = "done")
  BY <1>1
<1> QED BY <1>3, <1>4, OneCampaign

\* A step that goes on to another phase notes what it has seen.
LEMMA ProceedKeeps ==
  ASSUME CampaignInv, NEW p \in Campaigns, NEW next, NEW s, NEW seen,
         Proceed(p, next, s, seen),
         run[p].pc \in DOMAIN Due(kind[p]), next \in DOMAIN Due(kind[p]),
         next \notin {"bind", "build"} => run[p].pc \notin {"bind", "build"},
         Facts(kind[p], defect, run[p].masked, seen),
         Project(kind[p], defect, next, s),
         Due(kind[p])[next] \subseteq DOMAIN seen \cup Due(kind[p])[run[p].pc]
  PROVE  CampaignInv'
<1>a. PICK h : h = [site[p] EXCEPT !.sys = s]
  OBVIOUS
<1>b. PICK r : r = [run[p] EXCEPT !.pc = next, !.saw = Noting(seen, run[p].saw)]
  OBVIOUS
<1>1. /\ DOMAIN site = Campaigns /\ DOMAIN run = Campaigns
      /\ kind[p] \in {"m4i", "m4g", "spire"}
      /\ Sound(kind[p], defect, checkout, site[p], run[p])
  BY DEF CampaignInv
<1>2. site' = [site EXCEPT ![p] = h] /\ run' = [run EXCEPT ![p] = r]
  BY <1>a, <1>b, <1>1 DEF Proceed
<1>3. /\ DOMAIN h = SiteFields /\ DOMAIN r = RunFields
      /\ h.image = site[p].image /\ h.relay = site[p].relay /\ h.sys = s
      /\ r.pc = next /\ r.saw = Noting(seen, run[p].saw) /\ r.masked = run[p].masked /\ r.restored = run[p].restored
  BY <1>a, <1>b, <1>1 DEF Sound, SiteFields, RunFields
<1>4. /\ Facts(kind[p], defect, r.masked, r.saw)
      /\ DOMAIN r.saw = DOMAIN seen \cup DOMAIN run[p].saw
  <2>1. Facts(kind[p], defect, run[p].masked, run[p].saw)
    BY <1>1 DEF Sound
  <2>2. Facts(kind[p], defect, run[p].masked, Noting(seen, run[p].saw))
    BY <2>1, NotingFacts
  <2>3. DOMAIN Noting(seen, run[p].saw) = DOMAIN seen \cup DOMAIN run[p].saw
    BY DEF Noting
  <2> QED BY <1>3, <2>2, <2>3
<1>5. /\ Due(kind[p])[r.pc] \subseteq DOMAIN r.saw
      /\ r.pc \notin {"bind", "build"} => h.image # "none"
  <2>1. /\ Due(kind[p])[run[p].pc] \subseteq DOMAIN run[p].saw
        /\ run[p].pc \notin {"bind", "build"} => site[p].image # "none"
    BY <1>1 DEF Sound, Working
  <2> QED BY <2>1, <1>3, <1>4
<1>6. run[p].pc # "done"
  BY <1>1 DEF Due, CoordinationDue, IdentityDue, MtlsDue
<1>7. /\ h.image \in {"none", "clean", "edited"} /\ (h.image = "edited" => checkout = "edited" \/ r.restored)
      /\ kind[p] # "m4i" => ~h.relay
  BY <1>1, <1>3 DEF Sound
<1>8. Project(kind[p], defect, r.pc, h.sys) /\ r.pc \in DOMAIN Due(kind[p])
  BY <1>3
<1>9. kind' = kind /\ defect' = defect /\ checkout' = checkout /\ reported' = reported
  BY DEF Proceed
<1> QED BY <1>2, <1>3, <1>4, <1>5, <1>6, <1>7, <1>8, <1>9, MovesOn

----
(* What the operations on a project leave as it was. *)

Kept(s, t) ==
  /\ DOMAIN t = ProjectFields
  /\ t.file = s.file /\ t.mode = s.mode /\ t.bundle = s.bundle /\ t.floor = s.floor
  /\ t.leaf = s.leaf /\ t.revoked = s.revoked /\ t.spent = s.spent

\* New containers: of what the campaigns read, only a faulty plant's and a
\* faulty gateway's state change.
LEMMA RecreateFacts ==
  ASSUME NEW s, NEW xs, DOMAIN s = ProjectFields
  PROVE  /\ Kept(s, Recreate(s, xs))
         /\ \A x : x \in Recreate(s, xs).up <=> x \in s.up \/ x \in xs
         /\ Recreate(s, xs).plant = IF "plant" \in xs /\ defect = "plant_resets" THEN 0 ELSE s.plant
         /\ Recreate(s, xs).gateway =
              IF "gateway" \in xs /\ defect = "gateway_forgets" THEN FreshProject.gateway ELSE s.gateway
BY DEF Recreate, Kept, ProjectFields

\* Stopped containers.
LEMMA StopFacts ==
  ASSUME NEW s, NEW xs, DOMAIN s = ProjectFields
  PROVE  Kept(s, Stop(s, xs)) /\ Stop(s, xs).plant = s.plant /\ Stop(s, xs).gateway = s.gateway
BY DEF Stop, Kept, ProjectFields

\* A replaced file.
LEMMA MutatedFacts ==
  ASSUME NEW s, NEW x \in Services, NEW content, DOMAIN s = ProjectFields, DOMAIN s.file = Services
  PROVE  /\ DOMAIN Mutated(s, x, content) = ProjectFields /\ DOMAIN Mutated(s, x, content).file = Services
         /\ Mutated(s, x, content).file[x] = content
         /\ Mutated(s, x, content).bundle = s.bundle /\ Mutated(s, x, content).floor = s.floor
         /\ Mutated(s, x, content).plant = s.plant /\ Mutated(s, x, content).up = s.up
BY DEF Mutated, ProjectFields

\* A replaced trust bundle.
LEMMA BundleSetFacts ==
  ASSUME NEW s, NEW content, DOMAIN s = ProjectFields
  PROVE  /\ DOMAIN BundleSet(s, content) = ProjectFields /\ BundleSet(s, content).bundle = content
         /\ BundleSet(s, content).file = s.file /\ BundleSet(s, content).mode = s.mode
         /\ BundleSet(s, content).up = s.up /\ BundleSet(s, content).floor = s.floor
         /\ BundleSet(s, content).leaf = s.leaf /\ BundleSet(s, content).revoked = s.revoked
         /\ BundleSet(s, content).spent = s.spent
BY DEF BundleSet, ProjectFields

\* A probe moves the floors, if they are kept, and the plant.
LEMMA ProbedFacts ==
  ASSUME NEW s, DOMAIN s = ProjectFields
  PROVE  /\ DOMAIN Probed(s) = ProjectFields
         /\ Probed(s).file = s.file /\ Probed(s).mode = s.mode /\ Probed(s).up = s.up
         /\ Probed(s).leaf = s.leaf /\ Probed(s).revoked = s.revoked /\ Probed(s).spent = s.spent
         /\ Probed(s).bundle = s.bundle
         /\ defect = "floor_not_kept" => Probed(s).floor = s.floor
BY DEF Probed, Admit, ProjectFields

\* A step of the coordination campaign into another phase.
LEMMA CoordinationProceeds ==
  ASSUME CampaignInv, NEW p \in Campaigns, kind[p] = "m4i", NEW cur, NEW next, NEW s, NEW seen,
         Proceed(p, next, s, seen), run[p].pc = cur,
         cur \in DOMAIN CoordinationDue \ {"bind", "build"}, next \in DOMAIN CoordinationDue,
         \A f \in DOMAIN seen : CoordinationFact(defect, run[p].masked, f, seen[f]),
         DOMAIN s = ProjectFields, DOMAIN s.file = Services,
         CoordinationProject(defect, next, s),
         CoordinationDue[next] \subseteq DOMAIN seen \cup CoordinationDue[cur]
  PROVE  CampaignInv'
<1>1. Due(kind[p]) = CoordinationDue
  BY DEF Due
<1>2. Facts(kind[p], defect, run[p].masked, seen)
  BY DEF Facts, Fact
<1>3. Project(kind[p], defect, next, s)
  BY DEF Project
<1>4. /\ run[p].pc \in DOMAIN Due(kind[p]) /\ next \in DOMAIN Due(kind[p])
      /\ next \notin {"bind", "build"} => run[p].pc \notin {"bind", "build"}
  BY <1>1
<1>5. Due(kind[p])[next] \subseteq DOMAIN seen \cup Due(kind[p])[run[p].pc]
  BY <1>1
<1> QED BY <1>2, <1>3, <1>4, <1>5, ProceedKeeps

\* A step of the identity campaign into another phase.
LEMMA IdentityProceeds ==
  ASSUME CampaignInv, NEW p \in Campaigns, kind[p] = "m4g", NEW cur, NEW next, NEW s, NEW seen,
         Proceed(p, next, s, seen), run[p].pc = cur,
         cur \in DOMAIN IdentityDue \ {"bind", "build"}, next \in DOMAIN IdentityDue,
         \A f \in DOMAIN seen : IdentityFact(defect, run[p].masked, f, seen[f]),
         DOMAIN s = ProjectFields, DOMAIN s.file = Services,
         IdentityProject(defect, next, s),
         IdentityDue[next] \subseteq DOMAIN seen \cup IdentityDue[cur]
  PROVE  CampaignInv'
<1>1. Due(kind[p]) = IdentityDue
  BY DEF Due
<1>2. Facts(kind[p], defect, run[p].masked, seen)
  BY DEF Facts, Fact
<1>3. Project(kind[p], defect, next, s)
  BY DEF Project
<1>4. /\ run[p].pc \in DOMAIN Due(kind[p]) /\ next \in DOMAIN Due(kind[p])
      /\ next \notin {"bind", "build"} => run[p].pc \notin {"bind", "build"}
  BY <1>1
<1>5. Due(kind[p])[next] \subseteq DOMAIN seen \cup Due(kind[p])[run[p].pc]
  BY <1>1
<1> QED BY <1>2, <1>3, <1>4, <1>5, ProceedKeeps

\* A step of the mutual TLS campaign into another phase.
LEMMA MtlsProceeds ==
  ASSUME CampaignInv, NEW p \in Campaigns, kind[p] = "spire", NEW cur, NEW next, NEW s, NEW seen,
         Proceed(p, next, s, seen), run[p].pc = cur,
         cur \in DOMAIN MtlsDue \ {"bind", "build"}, next \in DOMAIN MtlsDue,
         \A f \in DOMAIN seen : MtlsFact(defect, f, seen[f]),
         DOMAIN s = ProjectFields, DOMAIN s.file = Services,
         MtlsDue[next] \subseteq DOMAIN seen \cup MtlsDue[cur]
  PROVE  CampaignInv'
<1>1. Due(kind[p]) = MtlsDue
  BY DEF Due
<1>2. Facts(kind[p], defect, run[p].masked, seen)
  BY DEF Facts, Fact
<1>3. Project(kind[p], defect, next, s)
  BY DEF Project
<1>4. /\ run[p].pc \in DOMAIN Due(kind[p]) /\ next \in DOMAIN Due(kind[p])
      /\ next \notin {"bind", "build"} => run[p].pc \notin {"bind", "build"}
  BY <1>1
<1>5. Due(kind[p])[next] \subseteq DOMAIN seen \cup Due(kind[p])[run[p].pc]
  BY <1>1
<1> QED BY <1>2, <1>3, <1>4, <1>5, ProceedKeeps

\* The project of a campaign that is in one of its phases.
LEMMA CurrentProject ==
  ASSUME CampaignInv, NEW p \in Campaigns, run[p].pc \in DOMAIN Due(kind[p])
  PROVE  /\ Project(kind[p], defect, run[p].pc, Sys(p))
         /\ DOMAIN Sys(p) = ProjectFields /\ DOMAIN Sys(p).file = Services
BY DEF CampaignInv, Sound, Working, Project, Sys

\* Every phase is under its name.
LEMMA PhaseNames ==
  /\ DOMAIN CoordinationDue = {"bind", "build", "up", "nominal", "start_relay", "lose", "fresh", "stop_relay",
                               "reconcile", "restart", "plant", "corrupt_gateway", "corrupt_ot", "corrupt_plant",
                               "checkout"}
  /\ DOMAIN IdentityDue = {"bind", "build", "up", "probe", "direct", "rotate", "probe_again", "direct_again",
                           "rollback", "missing", "corrupt", "evaluate"}
  /\ DOMAIN MtlsDue = {"bind", "build", "up", "identities", "await_svid", "unregister", "evaluate"}
BY DEF CoordinationDue, IdentityDue, MtlsDue

----
(* The phases of M4i. *)

\* The project of a coordination campaign.
LEMMA CoordinationCurrent ==
  ASSUME CampaignInv, NEW p \in Campaigns, kind[p] = "m4i", run[p].pc \in DOMAIN CoordinationDue
  PROVE  /\ DOMAIN Sys(p) = ProjectFields /\ DOMAIN Sys(p).file = Services
         /\ CoordinationProject(defect, run[p].pc, Sys(p))
<1>1. Due(kind[p]) = CoordinationDue
  BY DEF Due
<1> QED BY <1>1, CurrentProject DEF Project

\* _run_nominal_action.
LEMMA NominalKeeps ==
  ASSUME CampaignInv, NEW p \in Campaigns, Nominal(p) PROVE CampaignInv'
<1>1. PICK s : s = Applied(Sys(p), "nominal")
  OBVIOUS
<1>2. PICK seen : seen = [nominal |-> [gateway |-> s.gateway["nominal"], ot |-> s.ot["nominal"]]]
  OBVIOUS
<1>3. kind[p] = "m4i" /\ run[p].pc = "nominal" /\ Proceed(p, "start_relay", s, seen)
  BY <1>1, <1>2 DEF Nominal, At
<1>4. /\ DOMAIN Sys(p) = ProjectFields /\ DOMAIN Sys(p).file = Services
      /\ CoordinationProject(defect, "nominal", Sys(p))
  BY <1>3, CoordinationCurrent, PhaseNames
<1>5. /\ DOMAIN s = ProjectFields /\ s.file = Sys(p).file /\ s.bundle = Sys(p).bundle
      /\ s.floor = Sys(p).floor /\ s.plant = Sys(p).plant + 1
  BY <1>1, <1>4 DEF Applied, ProjectFields
<1>6. CoordinationProject(defect, "start_relay", s)
  BY <1>4, <1>5 DEF CoordinationProject
<1>7. \A f \in DOMAIN seen : CoordinationFact(defect, run[p].masked, f, seen[f])
  BY <1>2 DEF CoordinationFact
<1>8. CoordinationDue["start_relay"] \subseteq DOMAIN seen \cup CoordinationDue["nominal"]
  BY DEF CoordinationDue
<1>9. DOMAIN s.file = Services
  BY <1>4, <1>5
<1> QED BY <1>3, <1>5, <1>6, <1>7, <1>8, <1>9, PhaseNames, CoordinationProceeds

\* The relay is put into the gateway's route or taken out of it: the gateway
\* is recreated and nothing is noted.
LEMMA RelayMoves ==
  ASSUME CampaignInv, NEW p \in Campaigns, kind[p] = "m4i", NEW cur, NEW next, NEW b, NEW s,
         run[p].pc = cur, cur \in DOMAIN CoordinationDue \ {"bind", "build"}, next \in DOMAIN CoordinationDue,
         site' = [site EXCEPT ![p].sys = s, ![p].relay = b],
         run' = [run EXCEPT ![p].pc = next, ![p].relaying = b],
         UNCHANGED <<kind, defect, checkout, output, reported, faults>>,
         DOMAIN s = ProjectFields, DOMAIN s.file = Services, CoordinationProject(defect, next, s),
         CoordinationDue[next] \subseteq CoordinationDue[cur]
  PROVE  CampaignInv'
<1>a. PICK h : h = [site[p] EXCEPT !.sys = s, !.relay = b]
  OBVIOUS
<1>b. PICK r : r = [run[p] EXCEPT !.pc = next, !.relaying = b]
  OBVIOUS
<1>1. /\ DOMAIN site = Campaigns /\ DOMAIN run = Campaigns
      /\ Sound(kind[p], defect, checkout, site[p], run[p])
  BY DEF CampaignInv
<1>2. site' = [site EXCEPT ![p] = h] /\ run' = [run EXCEPT ![p] = r]
  BY <1>a, <1>b, <1>1
<1>3. /\ DOMAIN h = SiteFields /\ DOMAIN r = RunFields
      /\ h.image = site[p].image /\ h.sys = s
      /\ r.pc = next /\ r.saw = run[p].saw /\ r.masked = run[p].masked /\ r.restored = run[p].restored
  BY <1>a, <1>b, <1>1 DEF Sound, SiteFields, RunFields
<1>4. Due(kind[p]) = CoordinationDue
  BY DEF Due
<1>5. /\ Facts(kind[p], defect, r.masked, r.saw)
      /\ h.image \in {"none", "clean", "edited"} /\ (h.image = "edited" => checkout = "edited" \/ r.restored)
  BY <1>1, <1>3 DEF Sound
<1>6. /\ Due(kind[p])[run[p].pc] \subseteq DOMAIN run[p].saw
      /\ run[p].pc \notin {"bind", "build"} => site[p].image # "none"
  BY <1>1, <1>4 DEF Sound, Working
<1>7. Due(kind[p])[r.pc] \subseteq DOMAIN r.saw
  BY <1>3, <1>4, <1>6
<1>8. Project(kind[p], defect, r.pc, h.sys)
  BY <1>3 DEF Project
<1>9. /\ kind' = kind /\ defect' = defect /\ checkout' = checkout /\ reported' = reported
      /\ run[p].pc # "done" /\ (kind[p] # "m4i" => ~h.relay)
      /\ r.pc \in DOMAIN Due(kind[p]) /\ (r.pc \notin {"bind", "build"} => h.image # "none")
  BY <1>3, <1>4, <1>6, PhaseNames
<1> QED BY <1>2, <1>3, <1>5, <1>7, <1>8, <1>9, MovesOn

\* _start_relay.
LEMMA StartRelayKeeps ==
  ASSUME CampaignInv, NEW p \in Campaigns, StartRelay(p) PROVE CampaignInv'
<1>1. PICK s : s = Recreate(Sys(p), {"gateway"})
  OBVIOUS
<1>2. /\ kind[p] = "m4i" /\ run[p].pc = "start_relay"
      /\ site' = [site EXCEPT ![p].sys = s, ![p].relay = TRUE]
      /\ run' = [run EXCEPT ![p].pc = "lose", ![p].relaying = TRUE]
      /\ UNCHANGED <<kind, defect, checkout, output, reported, faults>>
  BY <1>1 DEF StartRelay, At
<1>3. /\ DOMAIN Sys(p) = ProjectFields /\ DOMAIN Sys(p).file = Services
      /\ CoordinationProject(defect, "start_relay", Sys(p))
  BY <1>2, CoordinationCurrent, PhaseNames
<1>4. Kept(Sys(p), s) /\ s.plant = Sys(p).plant
  BY <1>1, <1>3, RecreateFacts
<1>5. DOMAIN s = ProjectFields /\ DOMAIN s.file = Services
  BY <1>3, <1>4 DEF Kept
<1>6. CoordinationProject(defect, "lose", s)
  BY <1>3, <1>4 DEF CoordinationProject, Kept
<1>7. CoordinationDue["lose"] \subseteq CoordinationDue["start_relay"]
  BY DEF CoordinationDue
<1> QED BY <1>2, <1>5, <1>6, <1>7, PhaseNames, RelayMoves

\* _stop_relay: a gateway that forgets has no record of the lost action now.
LEMMA StopRelayKeeps ==
  ASSUME CampaignInv, NEW p \in Campaigns, StopRelay(p) PROVE CampaignInv'
<1>1. PICK s : s = Recreate(Sys(p), {"gateway"})
  OBVIOUS
<1>2. /\ kind[p] = "m4i" /\ run[p].pc = "stop_relay"
      /\ site' = [site EXCEPT ![p].sys = s, ![p].relay = FALSE]
      /\ run' = [run EXCEPT ![p].pc = "reconcile", ![p].relaying = FALSE]
      /\ UNCHANGED <<kind, defect, checkout, output, reported, faults>>
  BY <1>1 DEF StopRelay, At
<1>3. /\ DOMAIN Sys(p) = ProjectFields /\ DOMAIN Sys(p).file = Services
      /\ CoordinationProject(defect, "stop_relay", Sys(p))
  BY <1>2, CoordinationCurrent, PhaseNames
<1>4. /\ Kept(Sys(p), s) /\ s.plant = Sys(p).plant
      /\ defect = "gateway_forgets" => s.gateway = FreshProject.gateway
  BY <1>1, <1>3, RecreateFacts
<1>5. DOMAIN s = ProjectFields /\ DOMAIN s.file = Services
  BY <1>3, <1>4 DEF Kept
<1>6. FreshProject.gateway["lost"].state = "none"
  BY DEF FreshProject, Actions, Unheard
<1>7. CoordinationProject(defect, "reconcile", s)
  BY <1>3, <1>4, <1>6 DEF CoordinationProject, Kept
<1>8. CoordinationDue["reconcile"] \subseteq CoordinationDue["stop_relay"]
  BY DEF CoordinationDue
<1> QED BY <1>2, <1>5, <1>7, <1>8, PhaseNames, RelayMoves

\* The relay counts a second commit of the armed action as a violation.
LEMMA RelayedTwice == Relayed(2).violations = 1 /\ Relayed(1).violations = 0
BY DEF Relayed, RelayTakesPrepare, RelayTakesCommit

\* The commit whose answer is lost.
LEMMA LoseResponseKeeps ==
  ASSUME CampaignInv, NEW p \in Campaigns, LoseResponse(p) PROVE CampaignInv'
<1>1. PICK guess : guess = (defect = "assumes_applied")
  OBVIOUS
<1>2. PICK entry : entry = [Settled EXCEPT !.state = IF guess THEN "applied" ELSE "dispatch_armed"]
  OBVIOUS
<1>3. PICK s : s = [Applied(Sys(p), "lost") EXCEPT !.gateway["lost"] = entry]
  OBVIOUS
<1>4. PICK seen : seen = [lost |-> [status |-> IF guess THEN "completed" ELSE "unknown_effect",
                                    gateway |-> entry, ot |-> s.ot["lost"],
                                    relay |-> Relayed(IF defect = "resends" THEN 2 ELSE 1)]]
  OBVIOUS
<1>5. kind[p] = "m4i" /\ run[p].pc = "lose" /\ Proceed(p, "fresh", s, seen)
  BY <1>1, <1>2, <1>3, <1>4 DEF LoseResponse, At
<1>6. /\ DOMAIN Sys(p) = ProjectFields /\ DOMAIN Sys(p).file = Services
      /\ CoordinationProject(defect, "lose", Sys(p))
  BY <1>5, CoordinationCurrent, PhaseNames
<1>7. /\ DOMAIN s = ProjectFields /\ s.file = Sys(p).file /\ s.bundle = Sys(p).bundle
      /\ s.floor = Sys(p).floor /\ s.plant = Sys(p).plant + 1
  BY <1>3, <1>6 DEF Applied, ProjectFields
<1>8. CoordinationProject(defect, "fresh", s)
  BY <1>6, <1>7 DEF CoordinationProject
<1>9. \A f \in DOMAIN seen : CoordinationFact(defect, run[p].masked, f, seen[f])
  <2>1. DOMAIN seen = {"lost"}
    BY <1>4
  <2>2. defect = "assumes_applied" => seen["lost"].status = "completed"
    BY <1>1, <1>4
  <2>3. seen["lost"].relay = Relayed(IF defect = "resends" THEN 2 ELSE 1)
    BY <1>4
  <2>4. defect = "resends" => seen["lost"].relay.violations = 1
    BY <2>3, RelayedTwice
  <2> QED BY <2>1, <2>2, <2>4 DEF CoordinationFact
<1>10. CoordinationDue["fresh"] \subseteq DOMAIN seen \cup CoordinationDue["lose"]
  BY <1>4 DEF CoordinationDue, Coordination1
<1>11. DOMAIN s.file = Services
  BY <1>6, <1>7
<1> QED BY <1>5, <1>7, <1>8, <1>9, <1>10, <1>11, PhaseNames, CoordinationProceeds

\* A fresh action while the first is unresolved.
LEMMA FreshKeeps ==
  ASSUME CampaignInv, NEW p \in Campaigns, Fresh(p) PROVE CampaignInv'
<1>1. PICK s : s = IF defect = "admits_second"
                   THEN [Sys(p) EXCEPT !.gateway["fresh"] = [Unheard EXCEPT !.state = "prepare_armed", !.prepare = 1]]
                   ELSE Sys(p)
  OBVIOUS
<1>2. PICK seen : seen = [fresh |-> [refused |-> Sys(p).gateway["lost"].state = "dispatch_armed"
                                                   /\ defect # "admits_second",
                                     before |-> Records(Sys(p).gateway), after |-> Records(s.gateway)]]
  OBVIOUS
<1>3. kind[p] = "m4i" /\ run[p].pc = "fresh" /\ Proceed(p, "stop_relay", s, seen)
  BY <1>1, <1>2 DEF Fresh, At
<1>4. /\ DOMAIN Sys(p) = ProjectFields /\ DOMAIN Sys(p).file = Services
      /\ CoordinationProject(defect, "fresh", Sys(p))
  BY <1>3, CoordinationCurrent, PhaseNames
<1>5. /\ DOMAIN s = ProjectFields /\ s.file = Sys(p).file /\ s.bundle = Sys(p).bundle
      /\ s.floor = Sys(p).floor /\ s.plant = Sys(p).plant
  BY <1>1, <1>4 DEF ProjectFields
<1>6. CoordinationProject(defect, "stop_relay", s)
  BY <1>4, <1>5 DEF CoordinationProject
<1>7. \A f \in DOMAIN seen : CoordinationFact(defect, run[p].masked, f, seen[f])
  <2>1. DOMAIN seen = {"fresh"}
    BY <1>2
  <2>2. defect = "admits_second" => ~seen["fresh"].refused
    BY <1>2
  <2> QED BY <2>1, <2>2 DEF CoordinationFact
<1>8. CoordinationDue["stop_relay"] \subseteq DOMAIN seen \cup CoordinationDue["fresh"]
  BY <1>2 DEF CoordinationDue, Coordination2
<1>9. DOMAIN s.file = Services
  BY <1>4, <1>5
<1> QED BY <1>3, <1>5, <1>6, <1>7, <1>8, <1>9, PhaseNames, CoordinationProceeds

\* One signed query of the agent.
LEMMA ReconcileKeeps ==
  ASSUME CampaignInv, NEW p \in Campaigns, Reconcile(p) PROVE CampaignInv'
<1>1. PICK entry : entry = [Settled EXCEPT !.query = 1, !.commit = IF defect = "commits_again" THEN 2 ELSE 1]
  OBVIOUS
<1>2. PICK s : s = [Sys(p) EXCEPT !.gateway["lost"] = entry, !.ot["lost"] = entry]
  OBVIOUS
<1>3. PICK seen : seen = [resolved |-> [gateway |-> entry, ot |-> entry]]
  OBVIOUS
<1>4. /\ kind[p] = "m4i" /\ run[p].pc = "reconcile"
      /\ \/ Raise(p, Sys(p))
         \/ Sys(p).gateway["lost"].state # "none" /\ Proceed(p, "restart", s, seen)
  BY <1>1, <1>2, <1>3 DEF Reconcile, At
<1>5. /\ DOMAIN Sys(p) = ProjectFields /\ DOMAIN Sys(p).file = Services
      /\ CoordinationProject(defect, "reconcile", Sys(p))
  BY <1>4, CoordinationCurrent, PhaseNames
<1>6. CASE Raise(p, Sys(p))
  BY <1>4, <1>6, RaiseKeeps
<1>7. CASE Sys(p).gateway["lost"].state # "none" /\ Proceed(p, "restart", s, seen)
  <2>1. /\ DOMAIN s = ProjectFields /\ s.file = Sys(p).file /\ s.bundle = Sys(p).bundle
        /\ s.floor = Sys(p).floor /\ s.plant = Sys(p).plant
    BY <1>2, <1>5 DEF ProjectFields
  <2>2. CoordinationProject(defect, "restart", s)
    BY <1>5, <2>1 DEF CoordinationProject
  <2>3. defect # "gateway_forgets"
    BY <1>5, <1>7 DEF CoordinationProject
  <2>4. entry.commit = IF defect = "commits_again" THEN 2 ELSE 1
    BY <1>1 DEF Settled
  <2>5. \A f \in DOMAIN seen : CoordinationFact(defect, run[p].masked, f, seen[f])
    BY <1>3, <2>3, <2>4 DEF CoordinationFact
  <2>6. CoordinationDue["restart"] \subseteq DOMAIN seen \cup CoordinationDue["reconcile"]
    BY <1>3 DEF CoordinationDue, Coordination3
  <2>7. DOMAIN s.file = Services
    BY <1>5, <2>1
  <2> QED BY <1>4, <1>7, <2>1, <2>2, <2>5, <2>6, <2>7, PhaseNames, CoordinationProceeds
<1> QED BY <1>4, <1>6, <1>7

\* _restart_gateway_and_ot.
LEMMA RestartBothKeeps ==
  ASSUME CampaignInv, NEW p \in Campaigns, RestartBoth(p) PROVE CampaignInv'
<1>1. PICK s0, s1, s : s0 = Stop(Sys(p), {"gateway", "ot"}) /\ s1 = Recreate(s0, {"ot"}) /\ s = Recreate(s1, {"gateway"})
  OBVIOUS
<1>2. PICK seen : seen = [restarted |-> [renewed |-> \A x \in {"gateway", "ot"} : s.born[x] # Sys(p).born[x],
                                         gateway |-> s.gateway["lost"], ot |-> s.ot["lost"],
                                         records |-> Records(s.ot), applied |-> AppliedIn(s.ot)]]
  OBVIOUS
<1>3. /\ kind[p] = "m4i" /\ run[p].pc = "restart"
      /\ Raise(p, s) \/ Proceed(p, "plant", s, seen)
  BY <1>1, <1>2 DEF RestartBoth, At
<1>4. /\ DOMAIN Sys(p) = ProjectFields /\ DOMAIN Sys(p).file = Services
      /\ CoordinationProject(defect, "restart", Sys(p))
  BY <1>3, CoordinationCurrent, PhaseNames
<1>5. CASE Raise(p, s)
  BY <1>3, <1>5, RaiseKeeps
<1>6. CASE Proceed(p, "plant", s, seen)
  <2>1. Kept(Sys(p), s0) /\ s0.plant = Sys(p).plant
    BY <1>1, <1>4, StopFacts
  <2>2. Kept(s0, s1) /\ s1.plant = s0.plant
    <3>1. DOMAIN s0 = ProjectFields
      BY <2>1 DEF Kept
    <3> QED BY <1>1, <3>1, RecreateFacts
  <2>3. Kept(s1, s) /\ s.plant = s1.plant
    <3>1. DOMAIN s1 = ProjectFields
      BY <2>2 DEF Kept
    <3> QED BY <1>1, <3>1, RecreateFacts
  <2>4. Kept(Sys(p), s) /\ s.plant = Sys(p).plant
    BY <2>1, <2>2, <2>3 DEF Kept
  <2>5. DOMAIN s = ProjectFields /\ DOMAIN s.file = Services
    BY <1>4, <2>4 DEF Kept
  <2>6. CoordinationProject(defect, "plant", s)
    BY <1>4, <2>4 DEF CoordinationProject, Kept
  <2>7. \A f \in DOMAIN seen : CoordinationFact(defect, run[p].masked, f, seen[f])
    BY <1>2 DEF CoordinationFact
  <2>8. CoordinationDue["plant"] \subseteq DOMAIN seen \cup CoordinationDue["restart"]
    BY DEF CoordinationDue
  <2> QED BY <1>3, <1>6, <2>5, <2>6, <2>7, <2>8, PhaseNames, CoordinationProceeds
<1> QED BY <1>3, <1>5, <1>6

\* _restart_plant_stack: two effects were applied before, so a plant that
\* resets comes back with another version.
LEMMA RestartPlantKeeps ==
  ASSUME CampaignInv, NEW p \in Campaigns, RestartPlant(p) PROVE CampaignInv'
<1>1. PICK s0, s : s0 = Stop(Sys(p), Services) /\ s = Recreate(s0, Services)
  OBVIOUS
<1>2. PICK seen : seen = [plant |-> [renewed |-> s.born["plant"] # Sys(p).born["plant"],
                                     before |-> Sys(p).plant, after |-> s.plant]]
  OBVIOUS
<1>3. /\ kind[p] = "m4i" /\ run[p].pc = "plant"
      /\ Raise(p, s) \/ Proceed(p, "corrupt_gateway", s, seen)
  BY <1>1, <1>2 DEF RestartPlant, At
<1>4. /\ DOMAIN Sys(p) = ProjectFields /\ DOMAIN Sys(p).file = Services
      /\ CoordinationProject(defect, "plant", Sys(p))
  BY <1>3, CoordinationCurrent, PhaseNames
<1>5. CASE Raise(p, s)
  BY <1>3, <1>5, RaiseKeeps
<1>6. CASE Proceed(p, "corrupt_gateway", s, seen)
  <2>1. Kept(Sys(p), s0) /\ s0.plant = Sys(p).plant
    BY <1>1, <1>4, StopFacts
  <2>2. Kept(s0, s) /\ s.plant = IF defect = "plant_resets" THEN 0 ELSE s0.plant
    <3>1. DOMAIN s0 = ProjectFields /\ "plant" \in Services
      BY <2>1 DEF Kept, Services
    <3> QED BY <1>1, <3>1, RecreateFacts
  <2>4. Kept(Sys(p), s) /\ s.plant = IF defect = "plant_resets" THEN 0 ELSE Sys(p).plant
    BY <2>1, <2>2 DEF Kept
  <2>5. DOMAIN s = ProjectFields /\ DOMAIN s.file = Services
    BY <1>4, <2>4 DEF Kept
  <2>6. CoordinationProject(defect, "corrupt_gateway", s)
    BY <1>4, <2>4 DEF CoordinationProject, Kept
  <2>7. \A f \in DOMAIN seen : CoordinationFact(defect, run[p].masked, f, seen[f])
    <3>1. Sys(p).plant # 0
      BY <1>4 DEF CoordinationProject
    <3> QED BY <1>2, <2>4, <3>1 DEF CoordinationFact
  <2>8. CoordinationDue["corrupt_gateway"] \subseteq DOMAIN seen \cup CoordinationDue["plant"]
    BY <1>2 DEF CoordinationDue, Coordination4
  <2> QED BY <1>3, <1>6, <2>5, <2>6, <2>7, <2>8, PhaseNames, CoordinationProceeds
<1> QED BY <1>3, <1>5, <1>6

\* A fault case notes its outcome, and masks a defect when the outcome says
\* nothing about it.
LEMMA CaseKeeps ==
  ASSUME CampaignInv, NEW p \in Campaigns, NEW next, NEW s, NEW seen, NEW lame, NEW x, NEW m,
         m = IF lame THEN run[p].masked \cup {x} ELSE run[p].masked,
         site' = [site EXCEPT ![p].sys = s],
         run' = [run EXCEPT ![p].pc = next, ![p].masked = m, ![p].saw = Noting(seen, run[p].saw)],
         UNCHANGED <<kind, defect, checkout, output, reported, faults>>,
         run[p].pc \in DOMAIN Due(kind[p]), next \in DOMAIN Due(kind[p]),
         run[p].pc \notin {"bind", "build"},
         Facts(kind[p], defect, m, seen),
         Project(kind[p], defect, next, s),
         Due(kind[p])[next] \subseteq DOMAIN seen \cup Due(kind[p])[run[p].pc]
  PROVE  CampaignInv'
<1>a. PICK h : h = [site[p] EXCEPT !.sys = s]
  OBVIOUS
<1>b. PICK r : r = [run[p] EXCEPT !.pc = next, !.masked = m, !.saw = Noting(seen, run[p].saw)]
  OBVIOUS
<1>1. /\ DOMAIN site = Campaigns /\ DOMAIN run = Campaigns
      /\ kind[p] \in {"m4i", "m4g", "spire"}
      /\ Sound(kind[p], defect, checkout, site[p], run[p])
  BY DEF CampaignInv
<1>2. site' = [site EXCEPT ![p] = h] /\ run' = [run EXCEPT ![p] = r]
  BY <1>a, <1>b, <1>1
<1>3. /\ DOMAIN h = SiteFields /\ DOMAIN r = RunFields
      /\ h.image = site[p].image /\ h.relay = site[p].relay /\ h.sys = s
      /\ r.pc = next /\ r.saw = Noting(seen, run[p].saw) /\ r.masked = m /\ r.restored = run[p].restored
  BY <1>a, <1>b, <1>1 DEF Sound, SiteFields, RunFields
<1>4. /\ Facts(kind[p], defect, r.masked, r.saw)
      /\ DOMAIN r.saw = DOMAIN seen \cup DOMAIN run[p].saw
  <2>1. Facts(kind[p], defect, run[p].masked, run[p].saw)
    BY <1>1 DEF Sound
  <2>2. Facts(kind[p], defect, m, run[p].saw)
    <3>1. Facts(kind[p], defect, run[p].masked \cup {x}, run[p].saw)
      BY <2>1, MaskingFacts
    <3> QED BY <2>1, <3>1
  <2>3. Facts(kind[p], defect, m, Noting(seen, run[p].saw))
    BY <2>2, NotingFacts
  <2>4. DOMAIN Noting(seen, run[p].saw) = DOMAIN seen \cup DOMAIN run[p].saw
    BY DEF Noting
  <2> QED BY <1>3, <2>3, <2>4
<1>5. /\ Due(kind[p])[r.pc] \subseteq DOMAIN r.saw
      /\ r.pc \notin {"bind", "build"} => h.image # "none"
  <2>1. /\ Due(kind[p])[run[p].pc] \subseteq DOMAIN run[p].saw
        /\ run[p].pc \notin {"bind", "build"} => site[p].image # "none"
    BY <1>1 DEF Sound, Working
  <2> QED BY <2>1, <1>3, <1>4
<1>6. run[p].pc # "done"
  BY <1>1 DEF Due, CoordinationDue, IdentityDue, MtlsDue
<1>7. /\ h.image \in {"none", "clean", "edited"} /\ (h.image = "edited" => checkout = "edited" \/ r.restored)
      /\ kind[p] # "m4i" => ~h.relay
  BY <1>1, <1>3 DEF Sound
<1>8. Project(kind[p], defect, r.pc, h.sys) /\ r.pc \in DOMAIN Due(kind[p])
  BY <1>3
<1>9. kind' = kind /\ defect' = defect /\ checkout' = checkout /\ reported' = reported
  OBVIOUS
<1> QED BY <1>2, <1>3, <1>4, <1>5, <1>6, <1>7, <1>8, <1>9, MovesOn

\* A service that opens corrupt state comes up over it.
LEMMA OpensOverCorruption ==
  ASSUME NEW s, NEW x \in Services, x \in s.up, s.file[x] = "corrupt", s.bundle = 1, s.floor = NoFloors,
         defect = OpensCorrupt[x]
  PROVE  Ready(s, x)
<1>1. x \in Verifiers => TrustHolds(s, x)
  BY DEF TrustHolds, NoFloors
<1> QED BY <1>1 DEF Ready

\* _artifact_fault_case.
LEMMA FaultCaseKeeps ==
  ASSUME CampaignInv, NEW p \in Campaigns, NEW x \in Services, NEW slow \in BOOLEAN, FaultCase(p, x, slow)
  PROVE  CampaignInv'
<1>1. PICK with : with = {x} \cup Behind[x]
  OBVIOUS
<1>2. PICK s0, s1, broken :
        s0 = Stop(Sys(p), with) /\ s1 = Mutated(s0, x, "corrupt") /\ broken = Recreate(s1, {x})
  OBVIOUS
<1>3. PICK s2, s3, back :
        s2 = Stop(broken, {x}) /\ s3 = Mutated(s2, x, "intact") /\ back = Recreate(s3, with)
  OBVIOUS
<1>4. PICK seen : seen = [ready |-> ReportsReady(broken, x, slow), restored |-> back.file[x] = "intact"]
  OBVIOUS
<1>5. PICK notes : notes = [f \in {CaseOf[x]} |-> seen]
  OBVIOUS
<1>6. PICK m : m = IF slow THEN run[p].masked \cup {OpensCorrupt[x]} ELSE run[p].masked
  OBVIOUS
<1>7. DOMAIN site = Campaigns /\ DOMAIN run = Campaigns /\ DOMAIN run[p] = RunFields
  BY DEF CampaignInv, Sound
<1>8. /\ kind[p] = "m4i" /\ run[p].pc = CaseOf[x]
      /\ \/ Raise(p, back)
         \/ /\ site' = [site EXCEPT ![p].sys = back]
            /\ run' = [run EXCEPT ![p].pc = NextCase[x], ![p].masked = m, ![p].saw = Noting(notes, run[p].saw)]
            /\ UNCHANGED <<kind, defect, checkout, output, reported, faults>>
  BY <1>1, <1>2, <1>3, <1>4, <1>5, <1>6, <1>7 DEF FaultCase, At, RunFields
<1>9. /\ CaseOf[x] \in {"corrupt_gateway", "corrupt_ot", "corrupt_plant"}
      /\ NextCase[x] \in {"corrupt_ot", "corrupt_plant", "checkout"}
  BY DEF CaseOf, NextCase, Services
<1>10. /\ DOMAIN Sys(p) = ProjectFields /\ DOMAIN Sys(p).file = Services
       /\ CoordinationProject(defect, CaseOf[x], Sys(p))
  BY <1>8, <1>9, CoordinationCurrent, PhaseNames
<1>11. /\ DOMAIN broken = ProjectFields /\ DOMAIN broken.file = Services
       /\ broken.file[x] = "corrupt" /\ x \in broken.up
       /\ broken.bundle = 1 /\ broken.floor = NoFloors /\ broken.plant \in Nat
  <2>1. /\ DOMAIN s0 = ProjectFields /\ DOMAIN s0.file = Services
        /\ s0.bundle = 1 /\ s0.floor = NoFloors /\ s0.plant \in Nat
    <3>1. Kept(Sys(p), s0) /\ s0.plant = Sys(p).plant
      BY <1>2, <1>10, StopFacts
    <3> QED BY <1>10, <3>1 DEF Kept, CoordinationProject
  <2>2. /\ DOMAIN s1 = ProjectFields /\ DOMAIN s1.file = Services /\ s1.file[x] = "corrupt"
        /\ s1.bundle = 1 /\ s1.floor = NoFloors /\ s1.plant \in Nat
    BY <1>2, <2>1, MutatedFacts
  <2>3. Kept(s1, broken) /\ broken.plant \in {0, s1.plant} /\ x \in broken.up
    BY <1>2, <2>2, RecreateFacts
  <2> QED BY <2>2, <2>3 DEF Kept
<1>12. /\ DOMAIN back = ProjectFields /\ DOMAIN back.file = Services
       /\ back.bundle = 1 /\ back.floor = NoFloors /\ back.plant \in Nat
  <2>1. /\ DOMAIN s2 = ProjectFields /\ DOMAIN s2.file = Services
        /\ s2.bundle = 1 /\ s2.floor = NoFloors /\ s2.plant \in Nat
    <3>1. Kept(broken, s2) /\ s2.plant = broken.plant
      BY <1>3, <1>11, StopFacts
    <3> QED BY <1>11, <3>1 DEF Kept
  <2>2. /\ DOMAIN s3 = ProjectFields /\ DOMAIN s3.file = Services
        /\ s3.bundle = 1 /\ s3.floor = NoFloors /\ s3.plant \in Nat
    BY <1>3, <2>1 DEF Mutated, ProjectFields
  <2>3. Kept(s3, back) /\ back.plant \in {0, s3.plant}
    BY <1>3, <2>2, RecreateFacts
  <2> QED BY <2>2, <2>3 DEF Kept
<1>13. CASE Raise(p, back)
  BY <1>8, <1>9, <1>13, RaiseKeeps
<1>14. CASE ~Raise(p, back)
  <2>1. ~seen.ready => defect # OpensCorrupt[x] \/ defect \in m
    <3>1. defect = OpensCorrupt[x] => Ready(broken, x)
      BY <1>11, OpensOverCorruption
    <3>2. seen.ready = (Ready(broken, x) /\ ~slow)
      BY <1>4 DEF ReportsReady
    <3> QED BY <3>1, <3>2, <1>6
  <2>2. CoordinationFact(defect, m, CaseOf[x], seen)
    BY <2>1 DEF CoordinationFact, CaseOf, OpensCorrupt, Services
  <2>3. Facts(kind[p], defect, m, notes)
    BY <1>5, <1>8, <2>2 DEF Facts, Fact
  <2>4. Due(kind[p]) = CoordinationDue
    BY <1>8 DEF Due
  <2>5. CoordinationDue[NextCase[x]] \subseteq DOMAIN notes \cup CoordinationDue[CaseOf[x]]
    BY <1>5 DEF CoordinationDue, NextCase, CaseOf, Services, Coordination5, Coordination6, Coordination7
  <2>6. Due(kind[p])[NextCase[x]] \subseteq DOMAIN notes \cup Due(kind[p])[run[p].pc]
    BY <1>8, <2>4, <2>5
  <2>7. CoordinationProject(defect, NextCase[x], back)
    BY <1>9, <1>12 DEF CoordinationProject
  <2>8. Project(kind[p], defect, NextCase[x], back)
    BY <1>8, <1>12, <2>7 DEF Project
  <2>9. /\ run[p].pc \in DOMAIN Due(kind[p]) /\ NextCase[x] \in DOMAIN Due(kind[p])
        /\ run[p].pc \notin {"bind", "build"}
    BY <1>8, <1>9, <2>4, PhaseNames
  <2>10. PICK y : y = OpensCorrupt[x]
    OBVIOUS
  <2>11. m = IF slow THEN run[p].masked \cup {y} ELSE run[p].masked
    BY <1>6, <2>10
  <2> QED BY <1>8, <1>14, <2>3, <2>6, <2>8, <2>9, <2>11, CaseKeeps
<1> QED BY <1>13, <1>14

----
(* The phases of M4g. *)

\* The project of an identity campaign.
LEMMA IdentityCurrent ==
  ASSUME CampaignInv, NEW p \in Campaigns, kind[p] = "m4g", run[p].pc \in DOMAIN IdentityDue
  PROVE  /\ DOMAIN Sys(p) = ProjectFields /\ DOMAIN Sys(p).file = Services
         /\ IdentityProject(defect, run[p].pc, Sys(p))
<1>1. Due(kind[p]) = IdentityDue
  BY DEF Due
<1> QED BY <1>1, CurrentProject DEF Project

\* The first probe: floors that are not kept cannot be read afterwards.
LEMMA ProbeKeeps ==
  ASSUME CampaignInv, NEW p \in Campaigns, Probe(p) PROVE CampaignInv'
<1>1. PICK s : s = Probed(Sys(p))
  OBVIOUS
<1>2. PICK seen : seen = [primary |-> ProbeAccepted(Sys(p)), first |-> s.floor]
  OBVIOUS
<1>3. /\ kind[p] = "m4g" /\ run[p].pc = "probe"
      /\ Raise(p, s) \/ (FloorsReadable(s) /\ Proceed(p, "direct", s, seen))
  BY <1>1, <1>2 DEF Probe, At
<1>4. /\ DOMAIN Sys(p) = ProjectFields /\ DOMAIN Sys(p).file = Services
      /\ IdentityProject(defect, "probe", Sys(p))
  BY <1>3, IdentityCurrent, PhaseNames
<1>5. CASE Raise(p, s)
  BY <1>3, <1>5, RaiseKeeps
<1>6. CASE FloorsReadable(s) /\ Proceed(p, "direct", s, seen)
  <2>1. /\ DOMAIN s = ProjectFields
        /\ s.file = Sys(p).file /\ s.mode = Sys(p).mode /\ s.up = Sys(p).up
        /\ s.leaf = Sys(p).leaf /\ s.revoked = Sys(p).revoked /\ s.spent = Sys(p).spent
        /\ defect = "floor_not_kept" => s.floor = Sys(p).floor
    BY <1>1, <1>4, ProbedFacts
  <2>2. IdentityProject(defect, "direct", s)
    BY <1>4, <2>1 DEF IdentityProject
  <2>3. defect # "floor_not_kept"
    BY <1>4, <1>6, <2>1 DEF IdentityProject, FloorsReadable, NoFloors, Verifiers
  <2>4. seen["primary"] => defect # "agent_reaches_ot"
    BY <1>2 DEF ProbeAccepted
  <2>5. \A f \in DOMAIN seen : IdentityFact(defect, run[p].masked, f, seen[f])
    <3>1. DOMAIN seen = {"primary", "first"}
      BY <1>2
    <3> QED BY <3>1, <2>3, <2>4 DEF IdentityFact
  <2>6. IdentityDue["direct"] \subseteq DOMAIN seen \cup IdentityDue["probe"]
    BY <1>2 DEF IdentityDue, Identity1
  <2>7. DOMAIN s.file = Services
    BY <1>4, <2>1
  <2> QED BY <1>3, <1>6, <2>1, <2>2, <2>5, <2>6, <2>7, PhaseNames, IdentityProceeds
<1> QED BY <1>3, <1>5, <1>6

\* The fixed nonce is spent for the gateway's subject, or in a faulty adapter
\* for its first leaf.
LEMMA DirectKeeps ==
  ASSUME CampaignInv, NEW p \in Campaigns, Direct(p) PROVE CampaignInv'
<1>1. PICK s : s = Dispatched(Sys(p))
  OBVIOUS
<1>2. PICK seen : seen = [sent |-> [status |-> DispatchStatus(Sys(p)), leaf |-> Sys(p).leaf]]
  OBVIOUS
<1>3. kind[p] = "m4g" /\ run[p].pc = "direct" /\ Proceed(p, "rotate", s, seen)
  BY <1>1, <1>2 DEF Direct, At
<1>4. /\ DOMAIN Sys(p) = ProjectFields /\ DOMAIN Sys(p).file = Services
      /\ IdentityProject(defect, "direct", Sys(p))
  BY <1>3, IdentityCurrent, PhaseNames
<1>5. /\ DOMAIN s = ProjectFields
      /\ s.file = Sys(p).file /\ s.mode = Sys(p).mode /\ s.up = Sys(p).up
      /\ s.leaf = Sys(p).leaf /\ s.revoked = Sys(p).revoked
  BY <1>1, <1>4 DEF Dispatched, ProjectFields
<1>6. defect = "nonce_per_leaf" => s.spent \subseteq {"first"}
  <2>1. Sys(p).spent = {} /\ Sys(p).leaf = "first"
    BY <1>4 DEF IdentityProject
  <2>2. s.spent = {NonceKey(Sys(p))}
    BY <1>1, <1>4, <2>1 DEF Dispatched, ProjectFields
  <2> QED BY <2>1, <2>2 DEF NonceKey
<1>7. IdentityProject(defect, "rotate", s)
  BY <1>4, <1>5, <1>6 DEF IdentityProject
<1>8. \A f \in DOMAIN seen : IdentityFact(defect, run[p].masked, f, seen[f])
  BY <1>2 DEF IdentityFact
<1>9. IdentityDue["rotate"] \subseteq DOMAIN seen \cup IdentityDue["direct"]
  BY DEF IdentityDue
<1>10. DOMAIN s.file = Services
  BY <1>4, <1>5
<1> QED BY <1>3, <1>5, <1>7, <1>8, <1>9, <1>10, PhaseNames, IdentityProceeds

\* _rotate_gateway.
LEMMA RotateKeeps ==
  ASSUME CampaignInv, NEW p \in Campaigns, Rotate(p) PROVE CampaignInv'
<1>1. PICK s0 : s0 = [Sys(p) EXCEPT !.bundle = 2, !.leaf = "second",
                                    !.revoked = IF defect = "old_leaf_trusted" THEN @ ELSE {"first"}]
  OBVIOUS
<1>2. PICK s : s = Recreate(s0, {"gateway"})
  OBVIOUS
<1>3. PICK seen : seen = [revoked |-> s.revoked, after |-> s.born]
  OBVIOUS
<1>4. /\ kind[p] = "m4g" /\ run[p].pc = "rotate"
      /\ Raise(p, s) \/ Proceed(p, "probe_again", s, seen)
  BY <1>1, <1>2, <1>3 DEF Rotate, At
<1>5. /\ DOMAIN Sys(p) = ProjectFields /\ DOMAIN Sys(p).file = Services
      /\ IdentityProject(defect, "rotate", Sys(p))
  BY <1>4, IdentityCurrent, PhaseNames
<1>6. CASE Raise(p, s)
  BY <1>4, <1>6, RaiseKeeps
<1>7. CASE Proceed(p, "probe_again", s, seen)
  <2>1. /\ DOMAIN s0 = ProjectFields
        /\ s0.file = Sys(p).file /\ s0.mode = Sys(p).mode /\ s0.up = Sys(p).up
        /\ s0.leaf = "second" /\ s0.spent = Sys(p).spent
        /\ s0.revoked = IF defect = "old_leaf_trusted" THEN Sys(p).revoked ELSE {"first"}
    BY <1>1, <1>5 DEF ProjectFields
  <2>2. Kept(s0, s) /\ \A x : x \in s0.up => x \in s.up
    BY <1>2, <2>1, RecreateFacts
  <2>3. IdentityProject(defect, "probe_again", s)
    BY <1>5, <2>1, <2>2 DEF IdentityProject, Kept
  <2>4. s.revoked = {"first"} => defect # "old_leaf_trusted"
    <3>1. s.revoked = s0.revoked /\ Sys(p).revoked = {}
      BY <1>5, <2>2 DEF Kept, IdentityProject
    <3> QED BY <2>1, <3>1
  <2>5. \A f \in DOMAIN seen : IdentityFact(defect, run[p].masked, f, seen[f])
    <3>1. DOMAIN seen = {"revoked", "after"} /\ seen["revoked"] = s.revoked
      BY <1>3
    <3> QED BY <3>1, <2>4 DEF IdentityFact
  <2>6. IdentityDue["probe_again"] \subseteq DOMAIN seen \cup IdentityDue["rotate"]
    BY <1>3 DEF IdentityDue, Identity2
  <2>7. DOMAIN s = ProjectFields /\ DOMAIN s.file = Services
    BY <1>5, <2>1, <2>2 DEF Kept
  <2> QED BY <1>4, <1>7, <2>3, <2>5, <2>6, <2>7, PhaseNames, IdentityProceeds
<1> QED BY <1>4, <1>6, <1>7

\* The probe after the rotation.
LEMMA ProbeAgainKeeps ==
  ASSUME CampaignInv, NEW p \in Campaigns, ProbeAgain(p) PROVE CampaignInv'
<1>1. PICK s : s = Probed(Sys(p))
  OBVIOUS
<1>2. PICK seen : seen = [again |-> ProbeAccepted(Sys(p))]
  OBVIOUS
<1>3. /\ kind[p] = "m4g" /\ run[p].pc = "probe_again"
      /\ Raise(p, s) \/ Proceed(p, "direct_again", s, seen)
  BY <1>1, <1>2 DEF ProbeAgain, At
<1>4. /\ DOMAIN Sys(p) = ProjectFields /\ DOMAIN Sys(p).file = Services
      /\ IdentityProject(defect, "probe_again", Sys(p))
  BY <1>3, IdentityCurrent, PhaseNames
<1>5. CASE Raise(p, s)
  BY <1>3, <1>5, RaiseKeeps
<1>6. CASE Proceed(p, "direct_again", s, seen)
  <2>1. /\ DOMAIN s = ProjectFields
        /\ s.file = Sys(p).file /\ s.mode = Sys(p).mode /\ s.up = Sys(p).up
        /\ s.leaf = Sys(p).leaf /\ s.revoked = Sys(p).revoked /\ s.spent = Sys(p).spent
    BY <1>1, <1>4, ProbedFacts
  <2>2. IdentityProject(defect, "direct_again", s)
    BY <1>4, <2>1 DEF IdentityProject
  <2>3. \A f \in DOMAIN seen : IdentityFact(defect, run[p].masked, f, seen[f])
    <3>1. DOMAIN seen = {"again"}
      BY <1>2
    <3> QED BY <3>1 DEF IdentityFact
  <2>4. IdentityDue["direct_again"] \subseteq DOMAIN seen \cup IdentityDue["probe_again"]
    BY DEF IdentityDue
  <2>5. DOMAIN s.file = Services
    BY <1>4, <2>1
  <2> QED BY <1>3, <1>6, <2>1, <2>2, <2>3, <2>4, <2>5, PhaseNames, IdentityProceeds
<1> QED BY <1>3, <1>5, <1>6

\* The nonce again under the second leaf: refused unless it was spent for the
\* first leaf only.
LEMMA DirectAgainKeeps ==
  ASSUME CampaignInv, NEW p \in Campaigns, DirectAgain(p) PROVE CampaignInv'
<1>1. PICK s : s = Dispatched(Sys(p))
  OBVIOUS
<1>2. PICK seen : seen = [resent |-> [status |-> DispatchStatus(Sys(p)), leaf |-> s.leaf], second |-> s.floor]
  OBVIOUS
<1>3. /\ kind[p] = "m4g" /\ run[p].pc = "direct_again"
      /\ Raise(p, s) \/ Proceed(p, "rollback", s, seen)
  BY <1>1, <1>2 DEF DirectAgain, At
<1>4. /\ DOMAIN Sys(p) = ProjectFields /\ DOMAIN Sys(p).file = Services
      /\ IdentityProject(defect, "direct_again", Sys(p))
  BY <1>3, IdentityCurrent, PhaseNames
<1>5. CASE Raise(p, s)
  BY <1>3, <1>5, RaiseKeeps
<1>6. CASE Proceed(p, "rollback", s, seen)
  <2>1. /\ DOMAIN s = ProjectFields
        /\ s.file = Sys(p).file /\ s.mode = Sys(p).mode /\ s.up = Sys(p).up
    BY <1>1, <1>4 DEF Dispatched, ProjectFields
  <2>2. IdentityProject(defect, "rollback", s)
    BY <1>4, <2>1 DEF IdentityProject
  <2>3. DispatchStatus(Sys(p)) = 409 => defect # "nonce_per_leaf"
    <3>1. /\ Sys(p).leaf = "second"
          /\ defect = "nonce_per_leaf" => Sys(p).spent \subseteq {"first"}
      BY <1>4 DEF IdentityProject
    <3> QED BY <3>1 DEF DispatchStatus, NonceKey
  <2>4. \A f \in DOMAIN seen : IdentityFact(defect, run[p].masked, f, seen[f])
    <3>1. DOMAIN seen = {"resent", "second"} /\ seen["resent"].status = DispatchStatus(Sys(p))
      BY <1>2
    <3> QED BY <3>1, <2>3 DEF IdentityFact
  <2>5. IdentityDue["rollback"] \subseteq DOMAIN seen \cup IdentityDue["direct_again"]
    BY <1>2 DEF IdentityDue, Identity3
  <2>6. DOMAIN s.file = Services
    BY <1>4, <2>1
  <2> QED BY <1>3, <1>6, <2>1, <2>2, <2>4, <2>5, <2>6, PhaseNames, IdentityProceeds
<1> QED BY <1>3, <1>5, <1>6

\* What a campaign about identities reads of a project that stays up.
Steady(s, t) ==
  /\ DOMAIN t = ProjectFields /\ t.file = s.file /\ t.mode = s.mode
  /\ \A x : x \in s.up => x \in t.up

\* _restart_durable_bundle_rollback_case: a verifier that ignores its floor
\* takes the first bundle.
LEMMA RollbackCaseKeeps ==
  ASSUME CampaignInv, NEW p \in Campaigns, RollbackCase(p) PROVE CampaignInv'
<1>1. PICK s0, intact : s0 = Recreate(Sys(p), {"gateway", "ot"}) /\ intact = Probed(s0)
  OBVIOUS
<1>2. PICK s1, rolled : s1 = BundleSet(intact, 1) /\ rolled = Recreate(s1, {"gateway", "ot"})
  OBVIOUS
<1>3. PICK s2, back : s2 = BundleSet(rolled, 2) /\ back = Recreate(s2, {"gateway", "ot"})
  OBVIOUS
<1>4. PICK s : s = Probed(back)
  OBVIOUS
<1>5. PICK v : v = [floors |-> FloorsAt(intact.floor, 2) /\ FloorsAt(rolled.floor, 2) /\ FloorsAt(back.floor, 2),
                    refused |-> \A w \in Verifiers : ~TrustHolds(rolled, w),
                    probes |-> ProbeAccepted(back),
                    quiet |-> rolled.plant = intact.plant]
  OBVIOUS
<1>6. PICK seen : seen = [rollback |-> v]
  OBVIOUS
<1>7. /\ kind[p] = "m4g" /\ run[p].pc = "rollback"
      /\ Raise(p, back) \/ Proceed(p, "missing", s, seen)
  BY <1>1, <1>2, <1>3, <1>4, <1>5, <1>6 DEF RollbackCase, At
<1>8. /\ DOMAIN Sys(p) = ProjectFields /\ DOMAIN Sys(p).file = Services
      /\ IdentityProject(defect, "rollback", Sys(p))
  BY <1>7, IdentityCurrent, PhaseNames
<1>9. CASE Raise(p, back)
  BY <1>7, <1>9, RaiseKeeps
<1>10. CASE Proceed(p, "missing", s, seen)
  <2>1. Steady(Sys(p), s0) /\ DOMAIN s0 = ProjectFields
    BY <1>1, <1>8, RecreateFacts DEF Kept, Steady
  <2>2. Steady(s0, intact) /\ DOMAIN intact = ProjectFields
    BY <1>1, <2>1, ProbedFacts DEF Steady
  <2>3. Steady(intact, s1) /\ DOMAIN s1 = ProjectFields /\ s1.bundle = 1
    BY <1>2, <2>2, BundleSetFacts DEF Steady
  <2>4. Steady(s1, rolled) /\ DOMAIN rolled = ProjectFields /\ rolled.bundle = 1
    BY <1>2, <2>3, RecreateFacts DEF Kept, Steady
  <2>5. Steady(rolled, s2) /\ DOMAIN s2 = ProjectFields
    BY <1>3, <2>4, BundleSetFacts DEF Steady
  <2>6. Steady(s2, back) /\ DOMAIN back = ProjectFields
    BY <1>3, <2>5, RecreateFacts DEF Kept, Steady
  <2>7. Steady(back, s) /\ DOMAIN s = ProjectFields
    BY <1>4, <2>6, ProbedFacts DEF Steady
  <2>8. Steady(Sys(p), s)
    BY <2>1, <2>2, <2>3, <2>4, <2>5, <2>6, <2>7 DEF Steady
  <2>9. IdentityProject(defect, "missing", s)
    BY <1>8, <2>8 DEF IdentityProject, Steady
  <2>10. v.refused => defect \notin {"floor_ignored", "agent_ignores_floor"}
    <3>1. defect = "floor_ignored" => TrustHolds(rolled, "gateway")
      BY <2>4 DEF TrustHolds
    <3>2. defect = "agent_ignores_floor" => TrustHolds(rolled, "agent")
      BY <2>4 DEF TrustHolds
    <3>3. v.refused = \A w \in Verifiers : ~TrustHolds(rolled, w)
      BY <1>5
    <3> QED BY <3>1, <3>2, <3>3 DEF Verifiers
  <2>11. \A f \in DOMAIN seen : IdentityFact(defect, run[p].masked, f, seen[f])
    <3>1. DOMAIN seen = {"rollback"} /\ seen["rollback"] = v
      BY <1>6
    <3> QED BY <3>1, <2>10 DEF IdentityFact
  <2>12. IdentityDue["missing"] \subseteq DOMAIN seen \cup IdentityDue["rollback"]
    BY <1>6 DEF IdentityDue, Identity4
  <2>13. DOMAIN s.file = Services
    BY <1>8, <2>8 DEF Steady
  <2> QED BY <1>7, <1>10, <2>7, <2>9, <2>11, <2>12, <2>13, PhaseNames, IdentityProceeds
<1> QED BY <1>7, <1>9, <1>10

\* Verifiers that do without a bundle let the probe through.
LEMMA OpensWithoutBundle ==
  ASSUME NEW s, {"gateway", "ot"} \subseteq s.up, s.file = Intact, s.mode = "off",
         \/ s.bundle = Missing /\ defect = "opens_without_bundle"
         \/ s.bundle = Unparsed /\ defect = "opens_corrupt_bundle"
  PROVE  ProbeSucceeds(s)
<1>1. \A v \in Verifiers : TrustHolds(s, v)
  BY DEF TrustHolds
<1>2. Ready(s, "gateway")
  BY <1>1 DEF Ready, Intact, Services
<1>3. Ready(s, "ot")
  BY <1>1 DEF Ready, Intact, Services
<1> QED BY <1>1, <1>2, <1>3 DEF ProbeSucceeds, Verifiers

\* _bundle_fault_case.
LEMMA BundleFaultKeeps ==
  ASSUME CampaignInv, NEW p \in Campaigns, NEW c \in {"missing", "corrupt"}, NEW lame \in BOOLEAN,
         BundleFault(p, c, lame)
  PROVE  CampaignInv'
<1>1. PICK content : content = IF c = "missing" THEN Missing ELSE Unparsed
  OBVIOUS
<1>2. PICK faulty : faulty = BundleSet(Sys(p), content)
  OBVIOUS
<1>3. PICK s, t : s = (IF lame THEN faulty ELSE Probed(faulty)) /\ t = BundleSet(s, 2)
  OBVIOUS
<1>4. PICK seen : seen = [failed |-> lame \/ ~ProbeSucceeds(faulty), quiet |-> s.plant = faulty.plant]
  OBVIOUS
<1>5. PICK notes : notes = [f \in {c} |-> seen]
  OBVIOUS
<1>6. PICK m, y : y = OpensBundle[c] /\ m = IF lame THEN run[p].masked \cup {y} ELSE run[p].masked
  OBVIOUS
<1>7. DOMAIN site = Campaigns /\ DOMAIN run = Campaigns /\ DOMAIN run[p] = RunFields
  BY DEF CampaignInv, Sound
<1>8. /\ kind[p] = "m4g" /\ run[p].pc = c
      /\ site' = [site EXCEPT ![p].sys = t]
      /\ run' = [run EXCEPT ![p].pc = NextBundleCase[c], ![p].masked = m, ![p].saw = Noting(notes, run[p].saw)]
      /\ UNCHANGED <<kind, defect, checkout, output, reported, faults>>
  BY <1>1, <1>2, <1>3, <1>4, <1>5, <1>6, <1>7 DEF BundleFault, At, RunFields
<1>9. /\ DOMAIN Sys(p) = ProjectFields /\ DOMAIN Sys(p).file = Services
      /\ IdentityProject(defect, c, Sys(p))
  BY <1>8, IdentityCurrent, PhaseNames
<1>10. Steady(Sys(p), faulty) /\ DOMAIN faulty = ProjectFields /\ faulty.bundle = content
  BY <1>2, <1>9, BundleSetFacts DEF Steady
<1>11. Steady(faulty, s) /\ DOMAIN s = ProjectFields
  BY <1>3, <1>10, ProbedFacts DEF Steady
<1>12. Steady(s, t) /\ DOMAIN t = ProjectFields
  BY <1>3, <1>11, BundleSetFacts DEF Steady
<1>13. Steady(Sys(p), t)
  BY <1>10, <1>11, <1>12 DEF Steady
<1>14. NextBundleCase[c] = IF c = "missing" THEN "corrupt" ELSE "evaluate"
  BY DEF NextBundleCase
<1>15. IdentityProject(defect, NextBundleCase[c], t)
  BY <1>9, <1>13, <1>14 DEF IdentityProject, Steady
<1>16. seen.failed => defect # OpensBundle[c] \/ defect \in m
  <2>1. defect = OpensBundle[c] => ProbeSucceeds(faulty)
    <3>1. {"gateway", "ot"} \subseteq faulty.up /\ faulty.file = Intact /\ faulty.mode = "off"
      BY <1>9, <1>10 DEF IdentityProject, Steady
    <3>2. defect = OpensBundle[c] =>
             \/ faulty.bundle = Missing /\ defect = "opens_without_bundle"
             \/ faulty.bundle = Unparsed /\ defect = "opens_corrupt_bundle"
      BY <1>1, <1>10 DEF OpensBundle
    <3> QED BY <3>1, <3>2, OpensWithoutBundle
  <2>2. seen.failed = (lame \/ ~ProbeSucceeds(faulty))
    BY <1>4
  <2> QED BY <2>1, <2>2, <1>6
<1>17. IdentityFact(defect, m, c, seen)
  BY <1>16 DEF IdentityFact, OpensBundle
<1>18. Facts(kind[p], defect, m, notes)
  BY <1>5, <1>8, <1>17 DEF Facts, Fact
<1>19. Due(kind[p]) = IdentityDue
  BY <1>8 DEF Due
<1>20. IdentityDue[NextBundleCase[c]] \subseteq DOMAIN notes \cup IdentityDue[c]
  BY <1>5, <1>14 DEF IdentityDue, Identity5, Identity6
<1>21. Due(kind[p])[NextBundleCase[c]] \subseteq DOMAIN notes \cup Due(kind[p])[run[p].pc]
  BY <1>8, <1>19, <1>20
<1>22. Project(kind[p], defect, NextBundleCase[c], t)
  <2>1. DOMAIN t.file = Services
    BY <1>9, <1>13 DEF Steady
  <2> QED BY <1>8, <1>12, <1>15, <2>1 DEF Project
<1>23. /\ run[p].pc \in DOMAIN Due(kind[p]) /\ NextBundleCase[c] \in DOMAIN Due(kind[p])
       /\ run[p].pc \notin {"bind", "build"}
  BY <1>8, <1>14, <1>19, PhaseNames
<1>24. m = IF lame THEN run[p].masked \cup {y} ELSE run[p].masked
  BY <1>6
<1> QED BY <1>8, <1>18, <1>21, <1>22, <1>23, <1>24, CaseKeeps

----
(* The phases of the SPIRE campaign. *)

\* The project of a mutual TLS campaign.
LEMMA MtlsCurrent ==
  ASSUME CampaignInv, NEW p \in Campaigns, kind[p] = "spire", run[p].pc \in DOMAIN MtlsDue
  PROVE  DOMAIN Sys(p) = ProjectFields /\ DOMAIN Sys(p).file = Services
<1>1. Due(kind[p]) = MtlsDue
  BY DEF Due
<1> QED BY <1>1, CurrentProject

\* _collect_identities and the primary probe.
LEMMA IdentitiesKeeps ==
  ASSUME CampaignInv, NEW p \in Campaigns, Identities(p) PROVE CampaignInv'
<1>1. PICK s : s = Probed(Sys(p))
  OBVIOUS
<1>2. PICK seen : seen = [distinct |-> defect # "shared_identity", primary |-> ProbeAccepted(Sys(p))]
  OBVIOUS
<1>3. kind[p] = "spire" /\ run[p].pc = "identities" /\ Proceed(p, "await_svid", s, seen)
  BY <1>1, <1>2 DEF Identities, At
<1>4. DOMAIN Sys(p) = ProjectFields /\ DOMAIN Sys(p).file = Services
  BY <1>3, MtlsCurrent, PhaseNames
<1>5. DOMAIN s = ProjectFields /\ s.file = Sys(p).file
  BY <1>1, <1>4, ProbedFacts
<1>6. \A f \in DOMAIN seen : MtlsFact(defect, f, seen[f])
  <2>1. DOMAIN seen = {"distinct", "primary"}
    BY <1>2
  <2>2. seen["distinct"] => defect # "shared_identity"
    BY <1>2
  <2>3. seen["primary"] => defect # "agent_reaches_ot"
    BY <1>2 DEF ProbeAccepted
  <2> QED BY <2>1, <2>2, <2>3 DEF MtlsFact
<1>7. MtlsDue["await_svid"] \subseteq DOMAIN seen \cup MtlsDue["identities"]
  BY <1>2 DEF MtlsDue
<1>8. DOMAIN s.file = Services
  BY <1>4, <1>5
<1> QED BY <1>3, <1>5, <1>6, <1>7, <1>8, PhaseNames, MtlsProceeds

\* _await_issued_rotation.
LEMMA AwaitSvidKeeps ==
  ASSUME CampaignInv, NEW p \in Campaigns, AwaitSvid(p) PROVE CampaignInv'
<1>1. PICK s0, s : s0 = Probed(Sys(p)) /\ s = [s0 EXCEPT !.svid = @ + 1]
  OBVIOUS
<1>2. PICK seen : seen = [again |-> ProbeAccepted(Sys(p)), rotated |-> TRUE]
  OBVIOUS
<1>3. /\ kind[p] = "spire" /\ run[p].pc = "await_svid"
      /\ Raise(p, Sys(p)) \/ (defect # "never_rotates" /\ Proceed(p, "unregister", s, seen))
  BY <1>1, <1>2 DEF AwaitSvid, At
<1>4. CASE Raise(p, Sys(p))
  BY <1>3, <1>4, RaiseKeeps
<1>5. CASE defect # "never_rotates" /\ Proceed(p, "unregister", s, seen)
  <2>1. DOMAIN Sys(p) = ProjectFields /\ DOMAIN Sys(p).file = Services
    BY <1>3, MtlsCurrent, PhaseNames
  <2>2. DOMAIN s0 = ProjectFields /\ s0.file = Sys(p).file
    BY <1>1, <2>1, ProbedFacts
  <2>3. DOMAIN s = ProjectFields /\ s.file = Sys(p).file
    BY <1>1, <2>2 DEF ProjectFields
  <2>4. \A f \in DOMAIN seen : MtlsFact(defect, f, seen[f])
    <3>1. DOMAIN seen = {"again", "rotated"}
      BY <1>2
    <3> QED BY <1>5, <3>1 DEF MtlsFact
  <2>5. MtlsDue["unregister"] \subseteq DOMAIN seen \cup MtlsDue["await_svid"]
    BY <1>2 DEF MtlsDue
  <2>6. DOMAIN s.file = Services
    BY <2>1, <2>3
  <2> QED BY <1>3, <1>5, <2>3, <2>4, <2>5, <2>6, PhaseNames, MtlsProceeds
<1> QED BY <1>3, <1>4, <1>5

\* _delete_gateway_registration and the action prepared before it.
LEMMA UnregisterKeeps ==
  ASSUME CampaignInv, NEW p \in Campaigns, Unregister(p) PROVE CampaignInv'
<1>1. PICK gone : gone = [Sys(p) EXCEPT !.registered = defect = "fetch_survives"]
  OBVIOUS
<1>2. PICK s : s = IF Speaks(gone) THEN [gone EXCEPT !.plant = @ + 1] ELSE gone
  OBVIOUS
<1>3. PICK v : v = [status |-> IF Speaks(gone) THEN "completed" ELSE "not_dispatched",
                    quiet |-> s.plant = gone.plant]
  OBVIOUS
<1>4. PICK seen : seen = [deleted |-> v]
  OBVIOUS
<1>5. /\ kind[p] = "spire" /\ run[p].pc = "unregister"
      /\ Raise(p, gone) \/ (~gone.registered /\ Proceed(p, "evaluate", s, seen))
  BY <1>1, <1>2, <1>3, <1>4 DEF Unregister, At
<1>6. CASE Raise(p, gone)
  BY <1>5, <1>6, RaiseKeeps
<1>7. CASE ~gone.registered /\ Proceed(p, "evaluate", s, seen)
  <2>1. DOMAIN Sys(p) = ProjectFields /\ DOMAIN Sys(p).file = Services
    BY <1>5, MtlsCurrent, PhaseNames
  <2>2. /\ DOMAIN gone = ProjectFields /\ gone.file = Sys(p).file
        /\ gone.registered = (defect = "fetch_survives")
    BY <1>1, <2>1 DEF ProjectFields
  <2>3. DOMAIN s = ProjectFields /\ s.file = Sys(p).file
    BY <1>2, <2>2 DEF ProjectFields
  <2>4. defect # "fetch_survives"
    BY <1>7, <2>2
  <2>5. v.status = "not_dispatched" => defect # "acts_without_identity"
    BY <1>3 DEF Speaks
  <2>6. \A f \in DOMAIN seen : MtlsFact(defect, f, seen[f])
    <3>1. DOMAIN seen = {"deleted"} /\ seen["deleted"] = v
      BY <1>4
    <3> QED BY <3>1, <2>4, <2>5 DEF MtlsFact
  <2>7. MtlsDue["evaluate"] \subseteq DOMAIN seen \cup MtlsDue["unregister"]
    BY <1>4 DEF MtlsDue
  <2>8. DOMAIN s.file = Services
    BY <2>1, <2>3
  <2> QED BY <1>5, <1>7, <2>3, <2>6, <2>7, <2>8, PhaseNames, MtlsProceeds
<1> QED BY <1>5, <1>6, <1>7

----
(* How a campaign begins. *)

\* A step of one process that touches nothing at the sites.
LEMMA OneProcess ==
  ASSUME CampaignInv, NEW p \in Campaigns, NEW r,
         site' = site, run' = [run EXCEPT ![p] = r],
         kind' = kind, defect' = defect, checkout' = checkout,
         Sound(kind[p], defect, checkout, site[p], r),
         reported' \subseteq reported \cup {p}, p \in reported' => r.pc = "done"
  PROVE  CampaignInv'
<1>1. /\ DOMAIN run' = Campaigns /\ run'[p] = r
      /\ \A q \in Campaigns \ {p} : run'[q] = run[q]
  BY DEF CampaignInv
<1>2. \A q \in Campaigns : Sound(kind[q], defect, checkout, site[q], run'[q])
  BY <1>1 DEF CampaignInv
<1>3. \A q \in reported' : q \in Campaigns /\ run'[q].pc = "done"
  BY <1>1 DEF CampaignInv
<1> QED BY <1>1, <1>2, <1>3 DEF CampaignInv

\* A campaign that stops, or has only begun, claims nothing.
LEMMA LeavesOff ==
  ASSUME CampaignInv, NEW p \in Campaigns, NEW q \in {"absent", "failed"},
         run' = [run EXCEPT ![p].pc = q], site' = site,
         kind' = kind, defect' = defect, checkout' = checkout, reported' = reported, run[p].pc # "done"
  PROVE  CampaignInv'
<1>b. PICK r : r = [run[p] EXCEPT !.pc = q]
  OBVIOUS
<1>1. /\ DOMAIN site = Campaigns /\ DOMAIN run = Campaigns /\ p \notin reported
      /\ kind[p] \in {"m4i", "m4g", "spire"}
      /\ Sound(kind[p], defect, checkout, site[p], run[p])
  BY DEF CampaignInv
<1>2. run' = [run EXCEPT ![p] = r]
  BY <1>b, <1>1
<1>3. DOMAIN r = RunFields /\ r.pc = q /\ r.saw = run[p].saw /\ r.masked = run[p].masked /\ r.restored = run[p].restored
  BY <1>b, <1>1 DEF Sound, RunFields
<1>4. q \notin DOMAIN Due(kind[p])
  BY <1>1, PhaseNames DEF Due
<1>5. Sound(kind[p], defect, checkout, site[p], r)
  BY <1>1, <1>3, <1>4 DEF Sound, Working, Over, Done
<1>6. reported' \subseteq reported \cup {p} /\ (p \in reported' => r.pc = "done")
  BY <1>1
<1> QED BY <1>2, <1>5, <1>6, OneProcess

\* A failed command: control passes to the cleanup with nothing noted.
LEMMA CommandStops ==
  ASSUME CampaignInv, NEW p \in Campaigns, NEW h, NEW r,
         site' = [site EXCEPT ![p] = h], run' = [run EXCEPT ![p] = r],
         kind' = kind, defect' = defect, checkout' = checkout, reported' = reported, run[p].pc # "done",
         DOMAIN h = SiteFields, DOMAIN r = RunFields,
         h.image = site[p].image, h.relay = site[p].relay, r.pc = "cleanup", r.saw = <<>>,
         r.restored = run[p].restored
  PROVE  CampaignInv'
<1>1. /\ p \notin reported /\ kind[p] \in {"m4i", "m4g", "spire"}
      /\ Sound(kind[p], defect, checkout, site[p], run[p])
  BY DEF CampaignInv
<1>2. Facts(kind[p], defect, r.masked, r.saw)
  BY NothingNoted
<1>3. r.pc \notin DOMAIN Due(kind[p])
  BY <1>1, PhaseNames DEF Due
<1>4. Sound(kind[p], defect, checkout, h, r)
  BY <1>1, <1>2, <1>3 DEF Sound, Working, Over, Done
<1>5. reported' \subseteq reported \cup {p} /\ (p \in reported' => r.pc = "done")
  BY <1>1
<1> QED BY <1>4, <1>5, OneCampaign

\* run_experiment.
LEMMA BeginCampaignKeeps ==
  ASSUME CampaignInv, NEW p \in Campaigns, BeginCampaign(p) PROVE CampaignInv'
<1>1. PICK q : q = IF output = Nobody /\ checkout = "clean" THEN "absent" ELSE "failed"
  OBVIOUS
<1>2. /\ q \in {"absent", "failed"} /\ run' = [run EXCEPT ![p].pc = q] /\ site' = site
      /\ kind' = kind /\ defect' = defect /\ checkout' = checkout /\ reported' = reported /\ run[p].pc # "done"
  BY <1>1 DEF BeginCampaign
<1> QED BY <1>2, LeavesOff

\* A campaign claims a fresh project.
LEMMA ClaimKeeps ==
  ASSUME CampaignInv, NEW p \in Campaigns, Claim(p) PROVE CampaignInv'
<1>1. PICK s : s = [FreshProject EXCEPT !.mode = IF kind[p] = "m4i" THEN "required" ELSE "off"]
  OBVIOUS
<1>2. /\ run[p].pc = "absent"
      /\ kind' = kind /\ defect' = defect /\ checkout' = checkout /\ reported' = reported
      /\ \/ run' = [run EXCEPT ![p].pc = "bind"] /\ site' = [site EXCEPT ![p].keys = TRUE, ![p].sys = s]
         \/ run' = [run EXCEPT ![p].pc = "failed"] /\ site' = site
  BY <1>1 DEF Claim
<1>3. CASE run' = [run EXCEPT ![p].pc = "failed"] /\ site' = site
  BY <1>2, <1>3, LeavesOff
<1>4. CASE run' = [run EXCEPT ![p].pc = "bind"] /\ site' = [site EXCEPT ![p].keys = TRUE, ![p].sys = s]
  <2>a. PICK h : h = [site[p] EXCEPT !.keys = TRUE, !.sys = s]
    OBVIOUS
  <2>b. PICK r : r = [run[p] EXCEPT !.pc = "bind"]
    OBVIOUS
  <2>1. /\ DOMAIN site = Campaigns /\ DOMAIN run = Campaigns
        /\ kind[p] \in {"m4i", "m4g", "spire"}
        /\ Sound(kind[p], defect, checkout, site[p], run[p])
    BY DEF CampaignInv
  <2>2. site' = [site EXCEPT ![p] = h] /\ run' = [run EXCEPT ![p] = r]
    BY <1>4, <2>a, <2>b, <2>1
  <2>3. /\ DOMAIN h = SiteFields /\ DOMAIN r = RunFields
        /\ h.image = site[p].image /\ h.relay = site[p].relay /\ h.sys = s
        /\ r.pc = "bind" /\ r.saw = run[p].saw /\ r.masked = run[p].masked /\ r.restored = run[p].restored
    BY <2>a, <2>b, <2>1 DEF Sound, SiteFields, RunFields
  <2>4. /\ DOMAIN s = ProjectFields /\ s.file = Intact /\ s.floor = NoFloors /\ s.bundle = 1 /\ s.plant = 0
        /\ s.spent = {} /\ s.leaf = "first" /\ s.revoked = {}
        /\ s.mode = IF kind[p] = "m4i" THEN "required" ELSE "off"
    BY <1>1 DEF FreshProject, ProjectFields, Intact, NoFloors
  <2>5. CoordinationProject(defect, "bind", s)
    BY <2>4 DEF CoordinationProject
  <2>6. kind[p] = "m4g" => IdentityProject(defect, "bind", s)
    BY <2>4 DEF IdentityProject
  <2>7. Project(kind[p], defect, r.pc, h.sys)
    BY <2>3, <2>4, <2>5, <2>6 DEF Project, Intact
  <2>8. /\ Facts(kind[p], defect, r.masked, r.saw)
        /\ h.image \in {"none", "clean", "edited"} /\ (h.image = "edited" => checkout = "edited" \/ r.restored)
        /\ kind[p] # "m4i" => ~h.relay
    BY <2>1, <2>3 DEF Sound
  <2>9. /\ r.pc \in DOMAIN Due(kind[p]) /\ Due(kind[p])[r.pc] \subseteq DOMAIN r.saw
        /\ r.pc \notin {"bind", "build"} => h.image # "none"
    BY <2>1, <2>3 DEF Due, CoordinationDue, IdentityDue, MtlsDue
  <2> QED BY <1>2, <2>2, <2>3, <2>7, <2>8, <2>9, MovesOn
<1> QED BY <1>2, <1>3, <1>4

\* What a campaign notes of its configuration.
LEMMA BindKeeps ==
  ASSUME CampaignInv, NEW p \in Campaigns, BindCoordination(p) \/ BindIdentity(p) \/ BindMtls(p)
  PROVE  CampaignInv'
<1>1. run[p].pc = "bind" /\ kind[p] \in {"m4i", "m4g", "spire"}
  BY DEF CampaignInv, BindCoordination, BindIdentity, BindMtls, At
<1>2. "bind" \in DOMAIN Due(kind[p]) /\ "build" \in DOMAIN Due(kind[p])
  BY <1>1, PhaseNames DEF Due
<1>3. /\ Project(kind[p], defect, "bind", Sys(p))
      /\ DOMAIN Sys(p) = ProjectFields /\ DOMAIN Sys(p).file = Services
  BY <1>1, <1>2, CurrentProject
<1>4. ASSUME NEW seen, Proceed(p, "build", Sys(p), seen), Facts(kind[p], defect, run[p].masked, seen),
             kind[p] = "m4i" => defect # "shared_volume",
             kind[p] # "m4i" => "bound" \in DOMAIN seen
      PROVE  CampaignInv'
  <2>1. Project(kind[p], defect, "build", Sys(p))
    BY <1>3, <1>4 DEF Project, CoordinationProject, IdentityProject
  <2>2. Due(kind[p])["build"] \subseteq DOMAIN seen \cup Due(kind[p])[run[p].pc]
    BY <1>1, <1>4 DEF Due, CoordinationDue, IdentityDue, MtlsDue
  <2>3. "build" \notin {"bind", "build"} => run[p].pc \notin {"bind", "build"}
    OBVIOUS
  <2>4. run[p].pc \in DOMAIN Due(kind[p])
    BY <1>1, <1>2
  <2> QED BY <1>2, <1>4, <2>1, <2>2, <2>3, <2>4, ProceedKeeps
<1>5. CASE BindCoordination(p)
  <2>1. kind[p] = "m4i" /\ (Raise(p, Sys(p)) \/ (ConfigurationBound /\ Proceed(p, "build", Sys(p), <<>>)))
    BY <1>5 DEF BindCoordination, At
  <2>2. CASE Raise(p, Sys(p))
    BY <1>1, <2>2, RaiseKeeps
  <2>3. CASE ConfigurationBound /\ Proceed(p, "build", Sys(p), <<>>)
    <3>1. Facts(kind[p], defect, run[p].masked, <<>>)
      BY NothingNoted
    <3>2. defect # "shared_volume"
      BY <2>3 DEF ConfigurationBound
    <3> QED BY <1>4, <2>1, <2>3, <3>1, <3>2
  <2> QED BY <2>1, <2>2, <2>3
<1>6. CASE BindIdentity(p)
  <2>1. PICK seen : seen = [bound |-> TrustSequenceBound]
    OBVIOUS
  <2>2. kind[p] = "m4g" /\ Proceed(p, "build", Sys(p), seen)
    BY <1>6, <2>1 DEF BindIdentity, At
  <2>3. DOMAIN seen = {"bound"} /\ (seen["bound"] => defect # "shared_floor")
    BY <2>1 DEF TrustSequenceBound
  <2>4. Facts(kind[p], defect, run[p].masked, seen)
    BY <2>2, <2>3 DEF Facts, Fact, IdentityFact
  <2> QED BY <1>4, <2>2, <2>3, <2>4
<1>7. CASE BindMtls(p)
  <2>1. PICK seen : seen = [bound |-> VolumesBound /\ MtlsBound]
    OBVIOUS
  <2>2. kind[p] = "spire" /\ Proceed(p, "build", Sys(p), seen)
    BY <1>7, <2>1 DEF BindMtls, At
  <2>3. DOMAIN seen = {"bound"} /\ (seen["bound"] => defect \notin {"shared_floor", "plaintext_link"})
    BY <2>1 DEF VolumesBound, MtlsBound
  <2>4. Facts(kind[p], defect, run[p].masked, seen)
    BY <2>2, <2>3 DEF Facts, Fact, MtlsFact
  <2> QED BY <1>4, <2>2, <2>3, <2>4
<1> QED BY <1>5, <1>6, <1>7

\* docker compose build.
LEMMA BuildKeeps ==
  ASSUME CampaignInv, NEW p \in Campaigns, Build(p) PROVE CampaignInv'
<1>a. PICK h : h = [site[p] EXCEPT !.image = checkout]
  OBVIOUS
<1>b. PICK r : r = [run[p] EXCEPT !.pc = "up"]
  OBVIOUS
<1>1. /\ DOMAIN site = Campaigns /\ DOMAIN run = Campaigns
      /\ kind[p] \in {"m4i", "m4g", "spire"} /\ checkout \in {"clean", "edited"}
      /\ Sound(kind[p], defect, checkout, site[p], run[p])
  BY DEF CampaignInv
<1>2. /\ site' = [site EXCEPT ![p] = h] /\ run' = [run EXCEPT ![p] = r] /\ run[p].pc = "build"
      /\ kind' = kind /\ defect' = defect /\ checkout' = checkout /\ reported' = reported
  BY <1>a, <1>b, <1>1 DEF Build
<1>3. /\ DOMAIN h = SiteFields /\ DOMAIN r = RunFields
      /\ h.image = checkout /\ h.relay = site[p].relay /\ h.sys = Sys(p)
      /\ r.pc = "up" /\ r.saw = run[p].saw /\ r.masked = run[p].masked /\ r.restored = run[p].restored
  BY <1>a, <1>b, <1>1 DEF Sound, SiteFields, RunFields, Sys
<1>4. "build" \in DOMAIN Due(kind[p]) /\ "up" \in DOMAIN Due(kind[p])
  BY <1>1, PhaseNames DEF Due
<1>5. Project(kind[p], defect, "build", Sys(p))
  BY <1>2, <1>4, CurrentProject
<1>6. Project(kind[p], defect, r.pc, h.sys)
  BY <1>3, <1>5 DEF Project, CoordinationProject, IdentityProject
<1>7. /\ Facts(kind[p], defect, r.masked, r.saw) /\ (kind[p] # "m4i" => ~h.relay)
      /\ Due(kind[p])["build"] \subseteq DOMAIN run[p].saw
  BY <1>1, <1>2, <1>3, <1>4 DEF Sound, Working
<1>8. Due(kind[p])[r.pc] \subseteq DOMAIN r.saw
  BY <1>1, <1>3, <1>7 DEF Due, CoordinationDue, IdentityDue, MtlsDue
<1>9. /\ h.image \in {"none", "clean", "edited"} /\ (h.image = "edited" => checkout = "edited" \/ r.restored)
      /\ run[p].pc # "done" /\ r.pc \in DOMAIN Due(kind[p]) /\ (r.pc \notin {"bind", "build"} => h.image # "none")
  BY <1>1, <1>2, <1>3, <1>4
<1> QED BY <1>2, <1>3, <1>6, <1>7, <1>8, <1>9, MovesOn

\* docker compose up: a campaign goes on when its gateway answers.
LEMMA UpKeeps ==
  ASSUME CampaignInv, NEW p \in Campaigns, Up(p) PROVE CampaignInv'
<1>1. PICK xs : xs = IF PortFree(p) THEN Services ELSE Services \ {"gateway"}
  OBVIOUS
<1>2. PICK s : s = Recreate(Sys(p), xs)
  OBVIOUS
<1>3. PICK seen : seen = [health |-> [required |-> defect # "not_required",
                                      aligned |-> Records(s.ot) = 0 /\ s.plant = 0],
                          private |-> defect # "readable_state",
                          before |-> s.born]
  OBVIOUS
<1>4. PICK h : h = [site[p] EXCEPT !.sys = s, !.made = TRUE]
  OBVIOUS
<1>5. /\ DOMAIN site = Campaigns /\ DOMAIN run = Campaigns
      /\ kind[p] \in {"m4i", "m4g", "spire"}
      /\ Sound(kind[p], defect, checkout, site[p], run[p])
      /\ DOMAIN site[p] = SiteFields /\ DOMAIN run[p] = RunFields
  BY DEF CampaignInv, Sound
<1>6. /\ site' = [site EXCEPT ![p] = h] /\ run[p].pc = "up"
      /\ kind' = kind /\ defect' = defect /\ checkout' = checkout /\ reported' = reported
      /\ run' = IF Ready(s, "gateway")
                THEN [run EXCEPT ![p] = [run[p] EXCEPT !.pc = FirstStep[kind[p]], !.saw = Noting(seen, run[p].saw)]]
                ELSE [run EXCEPT ![p] = [run[p] EXCEPT !.pc = "cleanup", !.saw = <<>>]]
  BY <1>1, <1>2, <1>3, <1>4, <1>5 DEF Up, RunFields
<1>7. /\ DOMAIN h = SiteFields /\ h.image = site[p].image /\ h.relay = site[p].relay /\ h.sys = s
  BY <1>4, <1>5 DEF SiteFields
<1>8. CASE ~Ready(s, "gateway")
  <2>1. PICK r : r = [run[p] EXCEPT !.pc = "cleanup", !.saw = <<>>]
    OBVIOUS
  <2>2. run' = [run EXCEPT ![p] = r] /\ DOMAIN r = RunFields /\ r.pc = "cleanup" /\ r.saw = <<>>
        /\ r.restored = run[p].restored
    BY <1>5, <1>6, <1>8, <2>1 DEF RunFields
  <2> QED BY <1>6, <1>7, <2>2, CommandStops
<1>9. CASE Ready(s, "gateway")
  <2>1. PICK r : r = [run[p] EXCEPT !.pc = FirstStep[kind[p]], !.saw = Noting(seen, run[p].saw)]
    OBVIOUS
  <2>2. /\ run' = [run EXCEPT ![p] = r] /\ DOMAIN r = RunFields /\ r.pc = FirstStep[kind[p]]
        /\ r.saw = Noting(seen, run[p].saw) /\ r.masked = run[p].masked /\ r.restored = run[p].restored
    BY <1>5, <1>6, <1>9, <2>1 DEF RunFields
  <2>3. "up" \in DOMAIN Due(kind[p])
    BY <1>5, PhaseNames DEF Due
  <2>4. /\ Project(kind[p], defect, "up", Sys(p))
        /\ DOMAIN Sys(p) = ProjectFields /\ DOMAIN Sys(p).file = Services
    BY <1>6, <2>3, CurrentProject
  <2>5. /\ Due(kind[p])["up"] \subseteq DOMAIN run[p].saw /\ site[p].image # "none"
        /\ Facts(kind[p], defect, run[p].masked, run[p].saw)
        /\ site[p].image \in {"none", "clean", "edited"} /\ (site[p].image = "edited" => checkout = "edited" \/ run[p].restored)
        /\ kind[p] # "m4i" => ~site[p].relay
    BY <1>5, <1>6, <2>3 DEF Sound, Working
  <2>6. /\ Kept(Sys(p), s) /\ s.plant \in {0, Sys(p).plant}
        /\ {"gateway", "ot"} \subseteq s.up
    <3>1. "ot" \in xs
      BY <1>1 DEF Services
    <3>2. "gateway" \in s.up
      BY <1>9 DEF Ready
    <3>3. \A x : x \in s.up <=> x \in Sys(p).up \/ x \in xs
      BY <1>2, <2>4, RecreateFacts
    <3>4. Kept(Sys(p), s) /\ s.plant \in {0, Sys(p).plant}
      BY <1>2, <2>4, RecreateFacts
    <3> QED BY <3>1, <3>2, <3>3, <3>4
  <2>7. DOMAIN s = ProjectFields /\ DOMAIN s.file = Services
    BY <2>4, <2>6 DEF Kept
  <2>8. DOMAIN seen = {"health", "private", "before"} /\ (seen["private"] => defect # "readable_state")
    BY <1>3
  <2>9. seen["health"].required => defect # "not_required"
    BY <1>3
  <2>10. DOMAIN r.saw = DOMAIN seen \cup DOMAIN run[p].saw
    BY <2>2 DEF Noting
  <2>11. CASE kind[p] = "m4i"
    <3>1. defect # "shared_volume" /\ CoordinationProject(defect, "nominal", s)
      BY <2>4, <2>6, <2>11 DEF Project, CoordinationProject, Kept
    <3>2. Facts(kind[p], defect, run[p].masked, seen)
      BY <2>8, <2>9, <2>11, <3>1 DEF Facts, Fact, CoordinationFact
    <3>3. Facts(kind[p], defect, r.masked, r.saw)
      BY <2>2, <2>5, <3>2, NotingFacts
    <3>4. r.pc = "nominal"
      BY <2>2, <2>11 DEF FirstStep
    <3>5. r.pc \in DOMAIN Due(kind[p]) /\ Due(kind[p])[r.pc] \subseteq DOMAIN r.saw
      BY <2>8, <2>10, <2>11, <3>4 DEF Due, CoordinationDue, Coordination0
    <3>6. Project(kind[p], defect, r.pc, h.sys)
      BY <1>7, <2>7, <2>11, <3>1, <3>4 DEF Project
    <3>7. /\ h.image \in {"none", "clean", "edited"} /\ (h.image = "edited" => checkout = "edited" \/ r.restored)
          /\ kind[p] # "m4i" => ~h.relay
          /\ run[p].pc # "done" /\ (r.pc \notin {"bind", "build"} => h.image # "none")
      BY <1>6, <1>7, <2>2, <2>5
    <3> QED BY <1>6, <1>7, <2>2, <3>3, <3>5, <3>6, <3>7, MovesOn
  <2>12. CASE kind[p] = "m4g"
    <3>1. IdentityProject(defect, "probe", s)
      BY <2>4, <2>6, <2>12 DEF Project, IdentityProject, Kept
    <3>2. Facts(kind[p], defect, run[p].masked, seen)
      BY <2>8, <2>12 DEF Facts, Fact, IdentityFact
    <3>3. Facts(kind[p], defect, r.masked, r.saw)
      BY <2>2, <2>5, <3>2, NotingFacts
    <3>4. r.pc = "probe"
      BY <2>2, <2>12 DEF FirstStep
    <3>5. r.pc \in DOMAIN Due(kind[p]) /\ Due(kind[p])[r.pc] \subseteq DOMAIN r.saw
      BY <2>5, <2>8, <2>10, <2>12, <3>4 DEF Due, IdentityDue, Identity0
    <3>6. Project(kind[p], defect, r.pc, h.sys)
      BY <1>7, <2>7, <2>12, <3>1, <3>4 DEF Project
    <3>7. /\ h.image \in {"none", "clean", "edited"} /\ (h.image = "edited" => checkout = "edited" \/ r.restored)
          /\ kind[p] # "m4i" => ~h.relay
          /\ run[p].pc # "done" /\ (r.pc \notin {"bind", "build"} => h.image # "none")
      BY <1>6, <1>7, <2>2, <2>5
    <3> QED BY <1>6, <1>7, <2>2, <3>3, <3>5, <3>6, <3>7, MovesOn
  <2>13. CASE kind[p] = "spire"
    <3>2. Facts(kind[p], defect, run[p].masked, seen)
      BY <2>8, <2>13 DEF Facts, Fact, MtlsFact
    <3>3. Facts(kind[p], defect, r.masked, r.saw)
      BY <2>2, <2>5, <3>2, NotingFacts
    <3>4. r.pc = "identities"
      BY <2>2, <2>13 DEF FirstStep
    <3>5. r.pc \in DOMAIN Due(kind[p]) /\ Due(kind[p])[r.pc] \subseteq DOMAIN r.saw
      BY <2>5, <2>10, <2>13, <3>4 DEF Due, MtlsDue
    <3>6. Project(kind[p], defect, r.pc, h.sys)
      BY <1>7, <2>7, <2>13 DEF Project
    <3>7. /\ h.image \in {"none", "clean", "edited"} /\ (h.image = "edited" => checkout = "edited" \/ r.restored)
          /\ kind[p] # "m4i" => ~h.relay
          /\ run[p].pc # "done" /\ (r.pc \notin {"bind", "build"} => h.image # "none")
      BY <1>6, <1>7, <2>2, <2>5
    <3> QED BY <1>6, <1>7, <2>2, <3>3, <3>5, <3>6, <3>7, MovesOn
  <2> QED BY <1>5, <2>11, <2>12, <2>13
<1> QED BY <1>8, <1>9

----
(* How a campaign ends. *)

\* All gates of M4i, on complete observations.
LEMMA CoordinationGates ==
  ASSUME NEW d, NEW m, NEW o, Facts("m4i", d, m, o), Coordination7 \subseteq DOMAIN o, CoordinationAccepted(o)
  PROVE  d \in Excluded("m4i") => d \in m
<1>1. {"health", "private", "lost", "fresh", "resolved", "plant", "corrupt_gateway", "corrupt_ot", "corrupt_plant"}
        \subseteq DOMAIN o
  BY DEF Coordination7, Coordination6, Coordination5, Coordination4, Coordination3, Coordination2,
         Coordination1, Coordination0
<1>2. \A f \in DOMAIN o : CoordinationFact(d, m, f, o[f])
  BY DEF Facts, Fact
<1>3. d \notin {"shared_volume", "not_required", "readable_state"}
  BY <1>1, <1>2 DEF CoordinationFact, CoordinationAccepted, RequiredHealth, IsolatedPrivate
<1>4. d \notin {"assumes_applied", "resends"}
  <2>1. o.lost.status = "unknown_effect" /\ o.lost.relay.violations = 0
    BY DEF CoordinationAccepted, LossUnknown
  <2> QED BY <1>1, <1>2, <2>1 DEF CoordinationFact
<1>5. d \notin {"admits_second", "plant_resets"}
  BY <1>1, <1>2 DEF CoordinationFact, CoordinationAccepted, FreshBlocked, PlantAccepted
<1>6. d \notin {"gateway_forgets", "commits_again"}
  <2>1. o.resolved.gateway.commit = 1
    BY DEF CoordinationAccepted, ReconciliationAccepted, Settled
  <2> QED BY <1>1, <1>2, <2>1 DEF CoordinationFact
<1>7. d \in {"opens_corrupt_gateway", "opens_corrupt_ot", "opens_corrupt_plant"} => d \in m
  <2>1. ~o["corrupt_gateway"].ready /\ ~o["corrupt_ot"].ready /\ ~o["corrupt_plant"].ready
    BY DEF CoordinationAccepted, CorruptionClosed, CaseOf, Services
  <2> QED BY <1>1, <1>2, <2>1 DEF CoordinationFact
<1> QED BY <1>3, <1>4, <1>5, <1>6, <1>7 DEF Excluded

\* All gates of M4g.
LEMMA IdentityGates ==
  ASSUME NEW d, NEW m, NEW o, Facts("m4g", d, m, o), Identity6 \subseteq DOMAIN o, IdentityAccepted(o)
  PROVE  d \in Excluded("m4g") => d \in m
<1>1. {"bound", "private", "primary", "first", "revoked", "resent", "rollback", "missing", "corrupt"} \subseteq DOMAIN o
  BY DEF Identity6, Identity5, Identity4, Identity3, Identity2, Identity1, Identity0
<1>2. \A f \in DOMAIN o : IdentityFact(d, m, f, o[f])
  BY DEF Facts, Fact
<1>3. d \notin {"shared_floor", "readable_state", "agent_reaches_ot", "floor_not_kept"}
  BY <1>1, <1>2 DEF IdentityFact, IdentityAccepted, PrimaryAccepted
<1>4. d \notin {"old_leaf_trusted", "nonce_per_leaf"}
  BY <1>1, <1>2 DEF IdentityFact, IdentityAccepted, LeafRotated, CrossLeafAccepted
<1>5. d \notin {"floor_ignored", "agent_ignores_floor"}
  BY <1>1, <1>2 DEF IdentityFact, IdentityAccepted, RollbackRefused
<1>6. d \in {"opens_without_bundle", "opens_corrupt_bundle"} => d \in m
  <2>1. o["missing"].failed /\ o["corrupt"].failed
    BY DEF IdentityAccepted, FaultsFailedClosed
  <2> QED BY <1>1, <1>2, <2>1 DEF IdentityFact
<1> QED BY <1>3, <1>4, <1>5, <1>6 DEF Excluded

\* All gates of the SPIRE campaign.
LEMMA MtlsGates ==
  ASSUME NEW d, NEW m, NEW o, Facts("spire", d, m, o), MtlsDue["evaluate"] \subseteq DOMAIN o, MtlsAccepted(o)
  PROVE  d \in Excluded("spire") => d \in m
<1>1. {"bound", "distinct", "primary", "rotated", "deleted"} \subseteq DOMAIN o
  BY DEF MtlsDue
<1>2. \A f \in DOMAIN o : MtlsFact(d, f, o[f])
  BY DEF Facts, Fact
<1>3. d \notin {"shared_floor", "plaintext_link", "shared_identity", "agent_reaches_ot"}
  BY <1>1, <1>2 DEF MtlsFact, MtlsAccepted, IdentitiesAccepted, PrimaryAccepted
<1>4. d \notin {"never_rotates", "fetch_survives", "acts_without_identity"}
  BY <1>1, <1>2 DEF MtlsFact, MtlsAccepted, DeletionAccepted
<1> QED BY <1>3, <1>4 DEF Excluded

\* The end of the `try`, on a clean checkout: what was noted is complete, and
\* for M4g and SPIRE accepted.
LEMMA ConcludeKeeps ==
  ASSUME CampaignInv, NEW p \in Campaigns,
         ConcludeCoordination(p) \/ ConcludeIdentity(p) \/ ConcludeMtls(p)
  PROVE  CampaignInv'
<1>a. PICK h : h = [site[p] EXCEPT !.sys = Sys(p)]
  OBVIOUS
<1>b. PICK r : r = [run[p] EXCEPT !.pc = "cleanup", !.saw = Noting(<<>>, run[p].saw)]
  OBVIOUS
<1>1. /\ DOMAIN site = Campaigns /\ DOMAIN run = Campaigns /\ run[p].pc \in {"checkout", "evaluate"}
      /\ kind[p] \in {"m4i", "m4g", "spire"} /\ p \notin reported
      /\ Sound(kind[p], defect, checkout, site[p], run[p])
  BY DEF CampaignInv, ConcludeCoordination, ConcludeIdentity, ConcludeMtls, At
<1>2. CASE Raise(p, Sys(p))
  BY <1>1, <1>2, RaiseKeeps
<1>3. CASE Proceed(p, "cleanup", Sys(p), <<>>) /\ ~Raise(p, Sys(p))
  <2>1. site' = [site EXCEPT ![p] = h] /\ run' = [run EXCEPT ![p] = r]
    BY <1>a, <1>b, <1>1, <1>3 DEF Proceed
  <2>2. /\ DOMAIN h = SiteFields /\ DOMAIN r = RunFields
        /\ h.image = site[p].image /\ h.relay = site[p].relay
        /\ r.pc = "cleanup" /\ r.saw = Noting(<<>>, run[p].saw) /\ r.masked = run[p].masked /\ r.restored = run[p].restored
    BY <1>a, <1>b, <1>1 DEF Sound, SiteFields, RunFields
  <2>3. Facts(kind[p], defect, run[p].masked, run[p].saw)
    BY <1>1 DEF Sound
  <2>4. Facts(kind[p], defect, r.masked, r.saw)
    <3>1. Facts(kind[p], defect, run[p].masked, <<>>)
      BY NothingNoted
    <3> QED BY <2>2, <2>3, <3>1, NotingFacts
  <2>5. DOMAIN r.saw = DOMAIN run[p].saw
    BY <2>2, NothingNoted DEF Noting
  <2>6. run[p].pc \in DOMAIN Due(kind[p])
    BY PhaseNames DEF Due, ConcludeCoordination, ConcludeIdentity, ConcludeMtls, At
  <2>7. Due(kind[p])[run[p].pc] \subseteq DOMAIN run[p].saw /\ site[p].image # "none"
    BY <1>1, <2>6 DEF Sound, Working
  <2>8. IF kind[p] = "m4i" THEN Coordination7 \subseteq DOMAIN r.saw ELSE NotDefective(kind[p], defect, r)
    <3>1. CASE ConcludeCoordination(p)
      <4>1. kind[p] = "m4i" /\ run[p].pc = "checkout"
        BY <3>1 DEF ConcludeCoordination, At
      <4>2. Due(kind[p])[run[p].pc] = Coordination7
        BY <4>1 DEF Due, CoordinationDue
      <4> QED BY <2>5, <2>7, <4>1, <4>2
    <3>2. CASE ConcludeIdentity(p)
      <4>1. kind[p] = "m4g" /\ run[p].pc = "evaluate" /\ IdentityAccepted(run[p].saw)
        BY <1>3, <3>2 DEF ConcludeIdentity, At
      <4>2. Due(kind[p])[run[p].pc] = Identity6
        BY <4>1 DEF Due, IdentityDue
      <4>3. Facts("m4g", defect, run[p].masked, run[p].saw) /\ Identity6 \subseteq DOMAIN run[p].saw
        BY <2>3, <2>7, <4>1, <4>2
      <4>4. defect \in Excluded("m4g") => defect \in run[p].masked
        BY <4>1, <4>3, IdentityGates
      <4> QED BY <2>2, <4>1, <4>4 DEF NotDefective
    <3>3. CASE ConcludeMtls(p)
      <4>1. kind[p] = "spire" /\ run[p].pc = "evaluate" /\ MtlsAccepted(run[p].saw)
        BY <1>3, <3>3 DEF ConcludeMtls, At
      <4>2. Due(kind[p]) = MtlsDue
        BY <4>1 DEF Due
      <4>3. Facts("spire", defect, run[p].masked, run[p].saw) /\ MtlsDue["evaluate"] \subseteq DOMAIN run[p].saw
        BY <2>3, <2>7, <4>1, <4>2
      <4>4. defect \in Excluded("spire") => defect \in run[p].masked
        BY <4>1, <4>3, MtlsGates
      <4> QED BY <2>2, <4>1, <4>4 DEF NotDefective
    <3> QED BY <3>1, <3>2, <3>3
  <2>9. r.pc \notin DOMAIN Due(kind[p])
    BY <1>1, <2>2, PhaseNames DEF Due
  <2>10. Sound(kind[p], defect, checkout, h, r)
    BY <1>1, <2>2, <2>4, <2>7, <2>8, <2>9 DEF Sound, Working, Over, Done
  <2>11. /\ kind' = kind /\ defect' = defect /\ checkout' = checkout
         /\ reported' \subseteq reported \cup {p} /\ (p \in reported' => r.pc = "done")
    BY <1>1, <1>3 DEF Proceed
  <2> QED BY <2>1, <2>10, <2>11, OneCampaign
<1> QED BY <1>2, <1>3 DEF ConcludeCoordination, ConcludeIdentity, ConcludeMtls

\* The `finally` of _campaign: what could not be removed is recorded.
LEMMA CleanupKeeps ==
  ASSUME CampaignInv, NEW p \in Campaigns, Cleanup(p) PROVE CampaignInv'
<1>1. /\ DOMAIN site = Campaigns /\ DOMAIN run = Campaigns /\ run[p].pc = "cleanup"
      /\ kind[p] \in {"m4i", "m4g", "spire"} /\ p \notin reported
      /\ Sound(kind[p], defect, checkout, site[p], run[p])
      /\ DOMAIN site[p] = SiteFields /\ DOMAIN run[p] = RunFields
  BY DEF CampaignInv, Cleanup, Sound
<1>2. PICK stuck, h :
        /\ h = [site[p] EXCEPT !.relay = @ /\ ("relay" \in stuck \/ ~run[p].relaying),
                               !.made = @ /\ "project" \in stuck,
                               !.sys.up = IF "project" \in stuck THEN @ ELSE {},
                               !.keys = "keys" \in stuck]
        /\ site' = [site EXCEPT ![p] = h]
        /\ run' = [run EXCEPT ![p].pc = "judge", ![p].left = stuck]
  BY DEF Cleanup
<1>4. PICK r : r = [run[p] EXCEPT !.pc = "judge", !.left = stuck]
  OBVIOUS
<1>5. site' = [site EXCEPT ![p] = h]
  BY <1>2
<1>6. run' = [run EXCEPT ![p] = r]
  BY <1>1, <1>2, <1>4
<1>7. DOMAIN h = SiteFields /\ h.image = site[p].image
  BY <1>1, <1>2 DEF SiteFields
<1>8. /\ h.relay => site[p].relay
      /\ "project" \notin stuck => ~h.made
      /\ "keys" \notin stuck => ~h.keys
  BY <1>1, <1>2 DEF SiteFields
<1>9. /\ DOMAIN r = RunFields /\ r.pc = "judge" /\ r.left = stuck
      /\ r.saw = run[p].saw /\ r.masked = run[p].masked /\ r.restored = run[p].restored
  BY <1>1, <1>4 DEF RunFields
<1>10. r.pc \notin DOMAIN Due(kind[p])
  BY <1>1, <1>9, PhaseNames DEF Due
<1>11. Over(kind[p], defect, h, r)
  <2>1. \/ run[p].saw = <<>>
        \/ /\ site[p].image # "none"
           /\ IF kind[p] = "m4i" THEN Coordination7 \subseteq DOMAIN run[p].saw
                                 ELSE NotDefective(kind[p], defect, run[p])
    BY <1>1 DEF Sound, Over
  <2>2. NotDefective(kind[p], defect, run[p]) => NotDefective(kind[p], defect, r)
    BY <1>9 DEF NotDefective
  <2>3. r.left = {} => ~h.made /\ ~h.keys
    BY <1>8, <1>9
  <2> QED BY <1>7, <1>9, <2>1, <2>2, <2>3 DEF Over
<1>12. Sound(kind[p], defect, checkout, h, r)
  BY <1>1, <1>7, <1>8, <1>9, <1>10, <1>11 DEF Sound, Working, Done
<1>13. /\ kind' = kind /\ defect' = defect /\ checkout' = checkout
       /\ reported' \subseteq reported \cup {p} /\ (p \in reported' => r.pc = "done")
  BY <1>1 DEF Cleanup
<1> QED BY <1>5, <1>6, <1>12, <1>13, OneCampaign

\* A campaign whose evidence is being written, or is, goes on to `q`.
LEMMA WritesOn ==
  ASSUME CampaignInv, NEW p \in Campaigns, NEW q \in {"write", "staged", "done"},
         run' = [run EXCEPT ![p].pc = q], site' = site,
         kind' = kind, defect' = defect, checkout' = checkout,
         reported' \subseteq reported \cup {p}, p \in reported' => q = "done",
         site[p].image # "none", site[p].image = "edited" => run[p].restored,
         NotDefective(kind[p], defect, run[p]),
         ~site[p].made, ~site[p].relay, ~site[p].keys
  PROVE  CampaignInv'
<1>1. PICK r : r = [run[p] EXCEPT !.pc = q]
  OBVIOUS
<1>2. /\ DOMAIN site = Campaigns /\ DOMAIN run = Campaigns
      /\ kind[p] \in {"m4i", "m4g", "spire"}
      /\ Sound(kind[p], defect, checkout, site[p], run[p])
  BY DEF CampaignInv
<1>3. run' = [run EXCEPT ![p] = r]
  BY <1>1, <1>2
<1>4. DOMAIN r = RunFields /\ r.pc = q /\ r.saw = run[p].saw /\ r.masked = run[p].masked /\ r.restored = run[p].restored
  BY <1>1, <1>2 DEF Sound, RunFields
<1>5. q \notin DOMAIN Due(kind[p])
  BY <1>2, PhaseNames DEF Due
<1>6. Done(kind[p], defect, site[p], r)
  BY <1>4 DEF Done, NotDefective
<1>7. Sound(kind[p], defect, checkout, site[p], r)
  BY <1>2, <1>4, <1>5, <1>6 DEF Sound, Working, Over
<1>8. p \in reported' => r.pc = "done"
  BY <1>4
<1> QED BY <1>3, <1>7, <1>8, OneProcess

\* What a campaign says after its cleanup.
LEMMA JudgeKeeps ==
  ASSUME CampaignInv, NEW p \in Campaigns, Judge(p) PROVE CampaignInv'
<1>1. PICK verdict : verdict = IF kind[p] = "m4i" THEN JudgedCoordination(p) ELSE JudgedOther(p)
  OBVIOUS
<1>2. PICK q : q = IF verdict /\ checkout = "clean" THEN "write" ELSE "failed"
  OBVIOUS
<1>3. /\ run[p].pc = "judge" /\ run' = [run EXCEPT ![p].pc = q] /\ site' = site
      /\ kind' = kind /\ defect' = defect /\ checkout' = checkout /\ reported' = reported
  BY <1>1, <1>2 DEF Judge
<1>4. /\ kind[p] \in {"m4i", "m4g", "spire"} /\ p \notin reported
      /\ Sound(kind[p], defect, checkout, site[p], run[p])
  BY <1>3 DEF CampaignInv
<1>5. CASE ~(verdict /\ checkout = "clean")
  BY <1>2, <1>3, <1>5, LeavesOff
<1>6. CASE verdict /\ checkout = "clean"
  <2>1. /\ run[p].saw # <<>> /\ run[p].left = {}
        /\ kind[p] = "m4i" => CoordinationAccepted(run[p].saw) /\ ~site[p].relay
    BY <1>1, <1>4, <1>6 DEF JudgedCoordination, JudgedOther
  <2>2. /\ site[p].image # "none" /\ ~site[p].made /\ ~site[p].keys
        /\ IF kind[p] = "m4i" THEN Coordination7 \subseteq DOMAIN run[p].saw
                              ELSE NotDefective(kind[p], defect, run[p])
    BY <1>3, <1>4, <2>1 DEF Sound, Over
  <2>3. (site[p].image = "edited" => run[p].restored) /\ ~site[p].relay
    BY <1>4, <1>6, <2>1, <2>2 DEF Sound
  <2>4. NotDefective(kind[p], defect, run[p])
    <3>1. CASE kind[p] = "m4i"
      <4>1. Facts("m4i", defect, run[p].masked, run[p].saw)
        BY <1>4, <3>1 DEF Sound
      <4>2. Coordination7 \subseteq DOMAIN run[p].saw /\ CoordinationAccepted(run[p].saw)
        BY <2>1, <2>2, <3>1
      <4>3. defect \in Excluded("m4i") => defect \in run[p].masked
        BY <4>1, <4>2, CoordinationGates
      <4> QED BY <3>1, <4>3 DEF NotDefective
    <3> QED BY <2>2, <3>1
  <2>5. q = "write" /\ reported' \subseteq reported \cup {p} /\ p \notin reported'
    BY <1>2, <1>3, <1>4, <1>6
  <2> QED BY <1>3, <2>2, <2>3, <2>4, <2>5, WritesOn
<1> QED BY <1>5, <1>6

\* The evidence is written under its name or its name is found taken.
LEMMA WriteKeeps ==
  ASSUME CampaignInv, NEW p \in Campaigns,
         WriteEvidence(p) \/ ReplaceEvidence(p) \/ WriteFails(p) \/ StageResults(p) \/ RetainResults(p)
  PROVE  CampaignInv'
<1>1. run[p].pc \in {"write", "staged"} /\ site' = site /\ kind' = kind /\ defect' = defect /\ checkout' = checkout
  BY DEF WriteEvidence, ReplaceEvidence, WriteFails, StageResults, RetainResults
<1>2. /\ site[p].image # "none" /\ (site[p].image = "edited" => run[p].restored)
      /\ NotDefective(kind[p], defect, run[p])
      /\ ~site[p].made /\ ~site[p].relay /\ ~site[p].keys /\ p \notin reported
  BY <1>1 DEF CampaignInv, Sound, Done
<1>3. PICK q \in {"staged", "done", "failed"} :
        /\ run' = [run EXCEPT ![p].pc = q]
        /\ reported' = reported \/ (q = "done" /\ reported' = reported \cup {p})
  BY DEF WriteEvidence, ReplaceEvidence, WriteFails, StageResults, RetainResults
<1>4. CASE q = "failed"
  BY <1>1, <1>3, <1>4, LeavesOff
<1>5. CASE q \in {"staged", "done"}
  <2>1. reported' \subseteq reported \cup {p} /\ (p \in reported' => q = "done")
    BY <1>2, <1>3
  <2> QED BY <1>1, <1>2, <1>3, <1>5, <2>1, WritesOn
<1> QED BY <1>3, <1>4, <1>5

\* A command that fails.
LEMMA CommandFailsKeeps ==
  ASSUME CampaignInv, NEW p \in Campaigns, CommandFails(p) PROVE CampaignInv'
<1>1. PICK h : h = [site[p] EXCEPT !.made = @ \/ run[p].pc = "up"]
  OBVIOUS
<1>2. PICK r : r = [run[p] EXCEPT !.pc = "cleanup", !.saw = <<>>]
  OBVIOUS
<1>3. /\ DOMAIN site = Campaigns /\ DOMAIN run = Campaigns
      /\ DOMAIN site[p] = SiteFields /\ DOMAIN run[p] = RunFields
  BY DEF CampaignInv, Sound
<1>4. /\ site' = [site EXCEPT ![p] = h] /\ run' = [run EXCEPT ![p] = r] /\ run[p].pc # "done"
      /\ kind' = kind /\ defect' = defect /\ checkout' = checkout /\ reported' = reported
  BY <1>1, <1>2, <1>3 DEF CommandFails
<1>5. /\ DOMAIN h = SiteFields /\ DOMAIN r = RunFields
      /\ h.image = site[p].image /\ h.relay = site[p].relay /\ r.pc = "cleanup" /\ r.saw = <<>>
      /\ r.restored = run[p].restored
  BY <1>1, <1>2, <1>3 DEF SiteFields, RunFields
<1> QED BY <1>4, <1>5, CommandStops

\* A process that is killed leaves its project as it is.
LEMMA KilledKeeps ==
  ASSUME CampaignInv, NEW p \in Campaigns, Killed(p) PROVE CampaignInv'
<1>1. PICK h : h = [site[p] EXCEPT !.keys = FALSE, !.stray = @ \/ site[p].keys, !.image = "none"]
  OBVIOUS
<1>2. /\ DOMAIN site = Campaigns /\ DOMAIN run = Campaigns /\ p \notin reported
      /\ kind[p] \in {"m4i", "m4g", "spire"}
      /\ Sound(kind[p], defect, checkout, site[p], run[p])
  BY DEF CampaignInv, Killed
<1>3. site' = [site EXCEPT ![p] = h] /\ run' = [run EXCEPT ![p] = Started]
  BY <1>1, <1>2 DEF Killed
<1>4. DOMAIN h = SiteFields /\ h.image = "none" /\ h.relay = site[p].relay
  BY <1>1, <1>2 DEF Sound, SiteFields
<1>5. DOMAIN Started = RunFields /\ Started.pc = "idle" /\ Started.saw = <<>>
  BY DEF Started, RunFields
<1>6. Facts(kind[p], defect, Started.masked, Started.saw)
  BY <1>5, NothingNoted
<1>7. Started.pc \notin DOMAIN Due(kind[p])
  BY <1>2, <1>5, PhaseNames DEF Due
<1>8. Sound(kind[p], defect, checkout, h, Started)
  BY <1>2, <1>4, <1>5, <1>6, <1>7 DEF Sound, Working, Over, Done
<1>9. /\ kind' = kind /\ defect' = defect /\ checkout' = checkout
      /\ reported' \subseteq reported \cup {p} /\ (p \in reported' => Started.pc = "done")
  BY <1>2 DEF Killed
<1> QED BY <1>3, <1>8, <1>9, OneCampaign

\* An edited file is no reason to believe more.
LEMMA EditCheckoutKeeps ==
  ASSUME CampaignInv, EditCheckout PROVE CampaignInv'
<1>1. /\ checkout' = "edited" /\ kind' = kind /\ defect' = defect /\ site' = site /\ run' = run
      /\ reported' = reported
  BY DEF EditCheckout
<1>2. \A p \in Campaigns : Sound(kind[p], defect, "edited", site[p], run[p])
  BY DEF CampaignInv, Sound
<1> QED BY <1>1, <1>2 DEF CampaignInv

\* A tree that was put back is remembered by every campaign it could mislead.
LEMMA RestoreCheckoutKeeps ==
  ASSUME CampaignInv, RestoreCheckout PROVE CampaignInv'
<1>1. /\ checkout' = "clean" /\ kind' = kind /\ defect' = defect /\ site' = site /\ reported' = reported
      /\ run' = [p \in Campaigns |-> [run[p] EXCEPT !.restored = run[p].pc # "idle"]]
  BY DEF RestoreCheckout
<1>2. DOMAIN run' = Campaigns
  BY <1>1
<1>3. ASSUME NEW p \in Campaigns
      PROVE  Sound(kind[p], defect, "clean", site[p], run'[p]) /\ run'[p].pc = run[p].pc
  <2>1. Sound(kind[p], defect, checkout, site[p], run[p]) /\ DOMAIN run[p] = RunFields
    BY DEF CampaignInv, Sound
  <2>2. PICK r : r = [run[p] EXCEPT !.restored = run[p].pc # "idle"]
    OBVIOUS
  <2>3. run'[p] = r
    BY <1>1, <2>2
  <2>4. /\ DOMAIN r = RunFields /\ r.pc = run[p].pc /\ r.saw = run[p].saw
        /\ r.masked = run[p].masked /\ r.left = run[p].left
    BY <2>1, <2>2 DEF RunFields
  <2>5. run[p].pc # "idle" => r.restored
    BY <2>1, <2>2 DEF RunFields
  <2>6. run[p].pc = "idle" => site[p].image = "none"
    BY <2>1 DEF Sound
  <2>7. Working(kind[p], defect, site[p], r) /\ Over(kind[p], defect, site[p], r)
    BY <2>1, <2>4 DEF Sound, Working, Over, NotDefective
  <2>8. Done(kind[p], defect, site[p], r)
    BY <2>1, <2>4, <2>5 DEF Sound, Done, NotDefective
  <2>9. Sound(kind[p], defect, "clean", site[p], r)
    BY <2>1, <2>4, <2>5, <2>6, <2>7, <2>8 DEF Sound
  <2> QED BY <2>3, <2>4, <2>9
<1>4. \A p \in reported' : p \in Campaigns /\ run'[p].pc = "done"
  BY <1>1, <1>3 DEF CampaignInv
<1> QED BY <1>1, <1>2, <1>3, <1>4 DEF CampaignInv

\* No campaign has begun.
LEMMA CampaignInitKeeps == CampaignInit => CampaignInv
<1> SUFFICES ASSUME CampaignInit PROVE CampaignInv
  OBVIOUS
<1>1. kind \in [Campaigns -> {"m4i", "m4g", "spire"}] /\ checkout \in {"clean", "edited"} /\ reported = {}
  BY CampaignAssumption DEF CampaignInit
<1>2. DOMAIN site = Campaigns /\ DOMAIN run = Campaigns
  BY DEF CampaignInit
<1>3. ASSUME NEW p \in Campaigns PROVE Sound(kind[p], defect, checkout, site[p], run[p])
  <2>1. site[p] = NoSite /\ run[p] = Started
    BY DEF CampaignInit
  <2>2. DOMAIN NoSite = SiteFields /\ NoSite.image = "none" /\ ~NoSite.relay
    BY DEF NoSite, SiteFields
  <2>3. DOMAIN Started = RunFields /\ Started.pc = "idle" /\ Started.saw = <<>>
    BY DEF Started, RunFields
  <2>4. Facts(kind[p], defect, Started.masked, Started.saw)
    BY <2>3, NothingNoted
  <2>5. Started.pc \notin DOMAIN Due(kind[p])
    BY <1>1, <2>3, PhaseNames DEF Due
  <2> QED BY <2>1, <2>2, <2>3, <2>4, <2>5 DEF Sound, Working, Over, Done
<1> QED BY <1>1, <1>2, <1>3 DEF CampaignInv

\* The invariant of the live campaigns: what each campaign has noted excludes
\* what it says, whatever the commit's defect, the commands that fail and the
\* processes that are killed (_campaign of the three experiment scripts).
THEOREM CampaignInvariant == CampaignSpec => []CampaignInv
<1>1. CampaignInit => CampaignInv
  BY CampaignInitKeeps
<1>2. CampaignInv /\ [CampaignNext]_campaignVars => CampaignInv'
  <2> SUFFICES ASSUME CampaignInv, [CampaignNext]_campaignVars PROVE CampaignInv'
    OBVIOUS
  <2>1. CASE UNCHANGED campaignVars
    BY <2>1 DEF campaignVars, CampaignInv
  <2>2. CASE EditCheckout \/ RestoreCheckout
    BY <2>2, EditCheckoutKeeps, RestoreCheckoutKeeps
  <2>3. ASSUME NEW p \in Campaigns,
               \/ BeginCampaign(p) \/ Claim(p) \/ BindCoordination(p) \/ BindIdentity(p) \/ BindMtls(p)
               \/ Build(p) \/ Up(p)
        PROVE  CampaignInv'
    BY <2>3, BeginCampaignKeeps, ClaimKeeps, BindKeeps, BuildKeeps, UpKeeps
  <2>4. ASSUME NEW p \in Campaigns,
               \/ Nominal(p) \/ StartRelay(p) \/ LoseResponse(p) \/ Fresh(p) \/ StopRelay(p) \/ Reconcile(p)
               \/ RestartBoth(p) \/ RestartPlant(p)
               \/ \E x \in Services, slow \in BOOLEAN : FaultCase(p, x, slow)
        PROVE  CampaignInv'
    BY <2>4, NominalKeeps, StartRelayKeeps, LoseResponseKeeps, FreshKeeps, StopRelayKeeps, ReconcileKeeps,
       RestartBothKeeps, RestartPlantKeeps, FaultCaseKeeps
  <2>5. ASSUME NEW p \in Campaigns,
               \/ Probe(p) \/ Direct(p) \/ Rotate(p) \/ ProbeAgain(p) \/ DirectAgain(p) \/ RollbackCase(p)
               \/ \E c \in {"missing", "corrupt"}, lame \in BOOLEAN : BundleFault(p, c, lame)
        PROVE  CampaignInv'
    BY <2>5, ProbeKeeps, DirectKeeps, RotateKeeps, ProbeAgainKeeps, DirectAgainKeeps, RollbackCaseKeeps,
       BundleFaultKeeps
  <2>6. ASSUME NEW p \in Campaigns,
               \/ Identities(p) \/ AwaitSvid(p) \/ Unregister(p)
               \/ ConcludeCoordination(p) \/ ConcludeIdentity(p) \/ ConcludeMtls(p)
        PROVE  CampaignInv'
    BY <2>6, IdentitiesKeeps, AwaitSvidKeeps, UnregisterKeeps, ConcludeKeeps
  <2>7. ASSUME NEW p \in Campaigns,
               \/ Cleanup(p) \/ Judge(p) \/ WriteEvidence(p) \/ ReplaceEvidence(p) \/ WriteFails(p)
               \/ StageResults(p) \/ RetainResults(p) \/ CommandFails(p) \/ Killed(p)
        PROVE  CampaignInv'
    BY <2>7, CleanupKeeps, JudgeKeeps, WriteKeeps, CommandFailsKeeps, KilledKeeps
  <2> QED BY <2>1, <2>2, <2>3, <2>4, <2>5, <2>6, <2>7 DEF CampaignNext
<1> QED BY <1>1, <1>2, PTL DEF CampaignSpec

\* Evidence is earned, for any campaigns, defects and faults: a campaign that
\* reports its evidence as retained was built from the commit unless the tree was
\* edited and put back meanwhile, a commit it was built from has none of the
\* defects it is about but one its own fault case masked, and what it brought up
\* is removed (_accepted_gates, the acceptance of _campaign, run_experiment).
THEOREM EvidenceEarned == CampaignSpec => []EvidenceIsEarned
<1>1. CampaignInv => EvidenceIsEarned
  BY DEF CampaignInv, Sound, Done, NotDefective, EvidenceIsEarned
<1> QED BY <1>1, CampaignInvariant, PTL
================================================================================
