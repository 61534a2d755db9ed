------------------------ MODULE DeployedControlProofs ------------------------
(***************************************************************************)
(* Proofs about what runs on the deployed hosts and how it got there.      *)
(* PhysicalControl, for any clients, proposals and faults: a recorded      *)
(* outcome is true of the device.  DeploymentPipeline, for any roles,      *)
(* commits, kills and disturbances: a bootstrap that is over leaves no way *)
(* in, and what the probe and the acceptance campaign conclude is true.    *)
(***************************************************************************)
EXTENDS PhysicalControl, DeploymentPipeline, FiniteSetTheorems, SequenceTheorems, TLAPS

(***************************************************************************)
(* The inductive invariant.  A permit is carried by one header, which one  *)
(* client writes once, so the device takes it up at most once; before, it  *)
(* had no effect, and afterwards (Over) it has no further one.  Hence what *)
(* a response says of it stays true however late it is read.               *)
(***************************************************************************)
ClientFields ==
  {"stage", "step", "tid", "seen", "cmd", "payload", "sent", "outcome", "answer", "pre",
   "permit", "ack"}

MailboxFields == {"active", "terminal", "staged", "response"}

Shapes ==
  /\ DOMAIN client = Clients
  /\ \A c \in Clients : DOMAIN client[c] = ClientFields
  /\ DOMAIN mailbox = MailboxFields /\ mailbox.terminal \in BOOLEAN
  /\ effects \in Seq(Range(effects))

\* The EXECUTE header of a permit.
Carries(h, id) == h.op = "execute" /\ h.payload.permit.id = id

\* The device has yet to take the active request up.
Waiting == mailbox.active # None /\ ~mailbox.terminal

\* The client has yet to write the header of its permit.
Ahead(k) ==
  k.stage \in {"capture", "simulate"} \/ (k.stage = "execute" /\ k.step = "begin")

\* The device has decided about the permit, or never will.
Over(id) ==
  /\ id \in used
  /\ \A c \in Clients : Ahead(client[c]) => client[c].cmd # id
  /\ Waiting => ~Carries(mailbox.active, id)

Settled(id, status) ==
  /\ Over(id)
  /\ IF status = "applied" THEN \E i \in DOMAIN effects : EffectsOf(id) = {i}
                           ELSE EffectsOf(id) = {}

ClientSane(c) ==
  LET k == client[c] IN
  /\ k.stage \in {"idle", "capture", "simulate", "execute", "readback"}
  /\ k.stage = "idle" => k.step = "none"
  /\ k.stage # "idle" => k.cmd \in used
  /\ k.stage \in {"execute", "readback"} => k.permit.id = k.cmd
  /\ k.stage = "execute" => k.payload = PermitPayload(k.permit)
  /\ k.stage \notin {"execute", "readback"} => k.permit = None
  /\ Ahead(k) => EffectsOf(k.cmd) = {} /\ (mailbox.active # None => ~Carries(mailbox.active, k.cmd))
  /\ k.stage = "execute" /\ k.outcome = "ok" => Settled(k.cmd, k.answer.payload.ack.status)
  /\ k.stage = "readback" => Settled(k.cmd, k.ack.status)

MailboxSane ==
  /\ mailbox.active = None => ~mailbox.terminal
  /\ Waiting => mailbox.response = None
  /\ mailbox.active # None /\ mailbox.active.op = "execute" =>
       /\ mailbox.active.payload.permit.id \in used
       /\ Waiting => EffectsOf(mailbox.active.payload.permit.id) = {}
  /\ mailbox.active # None => mailbox.active.op \in {"read", "simulate", "execute"}
  /\ mailbox.response # None /\ mailbox.response.header.op = "execute"
       /\ mailbox.response.payload # None =>
       Settled(mailbox.response.header.payload.permit.id, mailbox.response.payload.ack.status)

EffectsSane ==
  /\ \A i \in DOMAIN effects : effects[i].id \in used
  /\ \A i, j \in DOMAIN effects : effects[i].id = effects[j].id => i = j

ResultSane(r) ==
  CASE r.status = "completed" -> Settled(r.permit.id, "applied") /\ r.post.state = r.permit.post
    [] r.status = "unknown_effect" -> TRUE
    [] OTHER -> r.permit # None => Settled(r.permit.id, "rejected")

PhysicalInv ==
  /\ Shapes
  /\ \A c, d \in Clients :
       c # d /\ client[c].stage # "idle" /\ client[d].stage # "idle" => client[c].cmd # client[d].cmd
  /\ \A c \in Clients : ClientSane(c)
  /\ MailboxSane
  /\ EffectsSane
  /\ \A r \in results : ResultSane(r)

(***************************************************************************)
(* What the parts of a step do, in terms of the fields that matter.        *)
(***************************************************************************)
\* An operation begins: the client keeps its command, permit and acknowledgment.
LEMMA CallingFields ==
  ASSUME NEW k, DOMAIN k = ClientFields, NEW stage, NEW payload
  PROVE  /\ DOMAIN Calling(k, stage, payload) = ClientFields
         /\ Calling(k, stage, payload).stage = stage
         /\ Calling(k, stage, payload).step = "begin"
         /\ Calling(k, stage, payload).payload = payload
         /\ Calling(k, stage, payload).outcome = "none"
         /\ Calling(k, stage, payload).cmd = k.cmd
         /\ Calling(k, stage, payload).permit = k.permit
         /\ Calling(k, stage, payload).ack = k.ack
BY DEF Calling, ClientFields

\* A client at rest has no permit.
LEMMA RestingFields ==
  ASSUME NEW tid, NEW seen
  PROVE  /\ DOMAIN Resting(tid, seen) = ClientFields
         /\ Resting(tid, seen).stage = "idle"
         /\ Resting(tid, seen).step = "none"
         /\ Resting(tid, seen).permit = None
BY DEF Resting, ClientFields

\* One more effect.
LEMMA EffectsGrow ==
  ASSUME NEW permit, effects \in Seq(Range(effects)), effects' = Append(effects, permit)
  PROVE  /\ effects' \in Seq(Range(effects'))
         /\ DOMAIN effects' = DOMAIN effects \cup {Len(effects) + 1}
         /\ Len(effects) + 1 \notin DOMAIN effects
         /\ \A i \in DOMAIN effects : effects'[i] = effects[i]
         /\ effects'[Len(effects) + 1] = permit
<1>1. PICK S : effects \in Seq(S)
  OBVIOUS
<1>2. DOMAIN effects = 1 .. Len(effects) /\ Len(effects) \in Nat
  BY <1>1
<1>3. effects' \in Seq(S \cup {permit}) /\ Len(effects') = Len(effects) + 1
  BY <1>1
<1>4. /\ \A i \in DOMAIN effects : effects'[i] = effects[i]
      /\ effects'[Len(effects) + 1] = permit
  BY <1>1, <1>2
<1>5. DOMAIN effects' = 1 .. Len(effects')
  BY <1>3
<1>6. effects' \in Seq(Range(effects'))
  <2>1. \A i \in 1 .. Len(effects') : effects'[i] \in Range(effects')
    BY <1>5 DEF Range
  <2>2. QED
    BY <1>3, <2>1
<1>7. QED
  BY <1>2, <1>3, <1>4, <1>5, <1>6

\* The device takes up the active request: either nothing happens to the plant,
\* or the permit of an EXECUTE header acts.
Rejecting ==
  /\ effects' = effects
  /\ mailbox'.response.header.op = "execute" /\ mailbox'.response.payload # None =>
       mailbox'.response.payload.ack.status = "rejected"

Applying ==
  /\ mailbox.active.op = "execute"
  /\ effects' = Append(effects, mailbox.active.payload.permit)
  /\ mailbox'.response.payload.ack.status = "applied"

\* A response is to the active header, whose transaction is then terminal.
LEMMA ConcludedFields ==
  ASSUME Shapes, NEW status, NEW payload, Concluded(status, payload)
  PROVE  /\ DOMAIN mailbox' = MailboxFields /\ mailbox'.terminal = TRUE
         /\ mailbox'.active = mailbox.active
         /\ mailbox'.response.header = mailbox.active
         /\ mailbox'.response.payload = payload
BY DEF Shapes, Concluded, Respond, MailboxFields

\* _process_commit and the control device behind it.
LEMMA ProcessFields ==
  ASSUME PhysicalInv, Waiting, Process
  PROVE  /\ DOMAIN mailbox' = MailboxFields /\ mailbox'.terminal = TRUE
         /\ mailbox'.active = mailbox.active
         /\ mailbox'.response.header = mailbox.active
         /\ Rejecting \/ Applying
<1> DEFINE h == mailbox.active
           Fields == /\ DOMAIN mailbox' = MailboxFields /\ mailbox'.terminal = TRUE
                     /\ mailbox'.active = mailbox.active
                     /\ mailbox'.response.header = mailbox.active
<1>1. Shapes /\ h.op \in {"read", "simulate", "execute"}
  BY DEF PhysicalInv, MailboxSane, Waiting
<1>2. ASSUME NEW status, NEW payload, Concluded(status, payload), effects' = effects,
             h.op # "execute" \/ payload = None \/ payload.ack.status = "rejected"
      PROVE  Fields /\ Rejecting
  <2>1. Fields /\ mailbox'.response.payload = payload
    BY <1>1, <1>2, ConcludedFields
  <2>2. QED
    BY <1>2, <2>1 DEF Rejecting
<1>3. CASE mailbox.staged # h.payload
  <2>1. Concluded("rejected", None) /\ effects' = effects
    BY <1>3 DEF Process
  <2>2. QED
    BY <1>2, <2>1
<1>4. CASE mailbox.staged = h.payload /\ h.op = "read"
  <2>1. Concluded("complete", plant') /\ effects' = effects
    BY <1>4 DEF Process
  <2>2. PICK payload : payload = plant'
    OBVIOUS
  <2>3. QED
    BY <1>2, <1>4, <2>1, <2>2
<1>5. CASE mailbox.staged = h.payload /\ h.op = "simulate"
  <2>1. PICK payload : Concluded("complete", payload) /\ effects' = effects
    BY <1>5 DEF Process
  <2>2. QED
    BY <1>2, <1>5, <2>1
<1>6. CASE mailbox.staged = h.payload /\ h.op = "execute"
  <2>1. PICK permit : permit = h.payload.permit
    OBVIOUS
  <2>2. Execute(permit)
    BY <1>6, <2>1 DEF Process
  <2>3. PICK expired \in BOOLEAN, late \in BOOLEAN :
          \/ /\ effects' = Append(effects, permit)
             /\ \E post : Concluded("complete",
                  [ack |-> Acknowledgment(permit, "applied", post, late), state |-> post])
          \/ /\ effects' = effects
             /\ Concluded("rejected",
                  [ack |-> Acknowledgment(permit, "rejected", None, FALSE), state |-> plant.state])
    BY <2>2, Zenon DEF Execute
  <2>4. CASE effects' = effects /\ Concluded("rejected",
                  [ack |-> Acknowledgment(permit, "rejected", None, FALSE), state |-> plant.state])
    <3>1. PICK payload :
            payload = [ack |-> Acknowledgment(permit, "rejected", None, FALSE), state |-> plant.state]
      OBVIOUS
    <3>2. payload.ack.status = "rejected"
      BY <3>1 DEF Acknowledgment
    <3>3. QED
      BY <1>2, <2>4, <3>1, <3>2
  <2>5. CASE /\ effects' = Append(effects, permit)
             /\ \E post : Concluded("complete",
                  [ack |-> Acknowledgment(permit, "applied", post, late), state |-> post])
    <3>1. PICK post : Concluded("complete",
                  [ack |-> Acknowledgment(permit, "applied", post, late), state |-> post])
      BY <2>5
    <3>2. PICK payload :
            payload = [ack |-> Acknowledgment(permit, "applied", post, late), state |-> post]
      OBVIOUS
    <3>3. payload.ack.status = "applied"
      BY <3>2 DEF Acknowledgment
    <3>4. Fields /\ mailbox'.response.payload = payload
      BY <1>1, <3>1, <3>2, ConcludedFields
    <3>5. QED
      BY <1>6, <2>1, <2>5, <3>3, <3>4 DEF Applying
  <2>6. QED
    BY <2>3, <2>4, <2>5
<1>7. QED
  BY <1>1, <1>3, <1>4, <1>5, <1>6

(***************************************************************************)
(* An exchange: one register access of a client, lost or served.           *)
(***************************************************************************)
DeviceStep(c) ==
  \/ UNCHANGED deviceVars
  \/ At(c, "begin") /\ ServeBegin(HeaderOf(c))
  \/ \E payload : ServeStage(payload)
  \/ ServeCommit
  \/ ServeRelease(HeaderOf(c))

\* What the client is about stays; an answer is the response to its request.
Keeps(c, k) ==
  /\ DOMAIN k = ClientFields /\ client[c].stage # "idle"
  /\ k.stage = client[c].stage /\ k.cmd = client[c].cmd /\ k.payload = client[c].payload
  /\ k.permit = client[c].permit /\ k.ack = client[c].ack
  /\ k.step # "begin"
  /\ k.outcome = "ok" =>
       \/ client[c].outcome = "ok" /\ k.answer = client[c].answer
       \/ k.answer = mailbox.response /\ Correlated(c) /\ UNCHANGED deviceVars

ExchangeStep(c) ==
  /\ \E k : client' = [client EXCEPT ![c] = k] /\ Keeps(c, k)
  /\ DeviceStep(c)
  /\ UNCHANGED <<used, results>>

\* A failed operation never has an answer.
LEMMA FailedKeeps ==
  ASSUME PhysicalInv, NEW c \in Clients, client[c].stage # "idle",
         NEW k, k = client[c] \/ k = Committed(client[c])
  PROVE  Keeps(c, Failed(k))
<1>1. DOMAIN client[c] = ClientFields
  BY DEF PhysicalInv, Shapes
<1>2. /\ DOMAIN k = ClientFields
      /\ k.stage = client[c].stage /\ k.cmd = client[c].cmd /\ k.payload = client[c].payload
      /\ k.permit = client[c].permit /\ k.ack = client[c].ack
  BY <1>1 DEF Committed, ClientFields
<1>3. PICK j : j = Failed(k)
  OBVIOUS
<1>4. /\ DOMAIN j = ClientFields
      /\ j.stage = k.stage /\ j.cmd = k.cmd /\ j.payload = k.payload
      /\ j.permit = k.permit /\ j.ack = k.ack
      /\ j.step \in {"deliver", "release"} /\ j.outcome \in {"unknown", "transport"}
  BY <1>2, <1>3 DEF Failed, ClientFields
<1>5. Keeps(c, j)
  BY <1>2, <1>4 DEF Keeps
<1>6. QED
  BY <1>3, <1>5

\* Every register access is such a step.
LEMMA ExchangeShape ==
  ASSUME PhysicalInv, NEW c \in Clients,
         \/ WriteHeader(c) \/ WritePayload(c) \/ WriteCommit(c) \/ ReadResponse(c) \/ Release(c)
  PROVE  ExchangeStep(c)
<1>1. DOMAIN client[c] = ClientFields /\ ClientSane(c)
  BY DEF PhysicalInv, Shapes
<1>2. client[c].stage # "idle"
  BY <1>1 DEF ClientSane, WriteHeader, WritePayload, WriteCommit, ReadResponse, Release, At
<1>3. ASSUME NEW k, Keeps(c, k), client' = [client EXCEPT ![c] = k], DeviceStep(c),
             UNCHANGED <<used, results>>
      PROVE  ExchangeStep(c)
  BY <1>3 DEF ExchangeStep
<1>4. /\ Keeps(c, Failed(client[c])) /\ Keeps(c, Failed(Committed(client[c])))
  BY <1>2, FailedKeeps
<1>5. ASSUME NEW step, step # "begin" PROVE Keeps(c, [client[c] EXCEPT !.step = step])
  BY <1>1, <1>2, <1>5 DEF Keeps, ClientFields
<1>6. Keeps(c, [Committed(client[c]) EXCEPT !.step = "read"])
  BY <1>1, <1>2 DEF Keeps, ClientFields, Committed
<1>7. CASE WriteHeader(c)
  BY <1>3, <1>4, <1>5, <1>7 DEF WriteHeader, Exchange, DeviceStep
<1>8. CASE WritePayload(c)
  BY <1>3, <1>4, <1>5, <1>8 DEF WritePayload, Exchange, DeviceStep
<1>9. CASE WriteCommit(c)
  BY <1>3, <1>4, <1>6, <1>9 DEF WriteCommit, Exchange, DeviceStep
<1>10. CASE ReadResponse(c)
  <2> DEFINE k == [client[c] EXCEPT !.step = "release", !.outcome = "ok",
                                    !.answer = mailbox.response, !.seen = mailbox.response.counter]
  <2>1. ASSUME Correlated(c), UNCHANGED deviceVars PROVE Keeps(c, k)
    BY <1>1, <1>2, <2>1 DEF Keeps, ClientFields
  <2> HIDE DEF k
  <2>2. \/ client' = [client EXCEPT ![c] = Failed(client[c])]
        \/ Correlated(c) /\ client' = [client EXCEPT ![c] = k]
    BY <1>10 DEF ReadResponse, Exchange, k
  <2>3. UNCHANGED deviceVars /\ UNCHANGED <<used, results>>
    BY <1>10 DEF ReadResponse, Exchange
  <2>4. QED
    BY <1>3, <1>4, <2>1, <2>2, <2>3 DEF DeviceStep
<1>11. CASE Release(c)
  <2>1. client' = [client EXCEPT ![c] = [client[c] EXCEPT !.step = "deliver"]]
    BY <1>11 DEF Release
  <2>2. DeviceStep(c) /\ UNCHANGED <<used, results>>
    BY <1>11 DEF Release, DeviceStep
  <2>3. QED
    BY <1>3, <1>5, <2>1, <2>2
<1>12. QED
  BY <1>7, <1>8, <1>9, <1>10, <1>11

(***************************************************************************)
(* What is settled stays settled.                                          *)
(***************************************************************************)
Stable == \A id : Over(id) => Over(id)' /\ EffectsOf(id)' = EffectsOf(id)

\* What a response said of a permit stays true.
LEMMA SettledStays ==
  ASSUME Stable, NEW id, NEW status, Settled(id, status)
  PROVE  Settled(id, status)'
<1>1. Over(id)' /\ EffectsOf(id)' = EffectsOf(id)
  BY DEF Stable, Settled
<1>2. ASSUME NEW i \in DOMAIN effects, EffectsOf(id) = {i} PROVE i \in DOMAIN effects'
  <2>1. i \in EffectsOf(id)'
    BY <1>1, <1>2
  <2>2. QED
    BY <2>1 DEF EffectsOf
<1>3. QED
  BY <1>1, <1>2 DEF Settled

\* Recorded results are settled.
LEMMA ResultStays ==
  ASSUME Stable, NEW r, ResultSane(r)
  PROVE  ResultSane(r)'
<1>1. PICK id : id = r.permit.id
  OBVIOUS
<1>2. Settled(id, "applied") => Settled(id, "applied")'
  BY SettledStays
<1>3. Settled(id, "rejected") => Settled(id, "rejected")'
  BY SettledStays
<1>4. QED
  BY <1>1, <1>2, <1>3 DEF ResultSane

\* An exchange of one client: what the device still has to decide about only shrinks,
\* but for the permit whose header the client writes.
LEMMA ExchangeStable ==
  ASSUME PhysicalInv, NEW c \in Clients, ExchangeStep(c)
  PROVE  Stable
<1> SUFFICES ASSUME NEW id, Over(id) PROVE Over(id)' /\ EffectsOf(id)' = EffectsOf(id)
  BY DEF Stable
<1>1. PICK k : client' = [client EXCEPT ![c] = k] /\ Keeps(c, k)
  BY DEF ExchangeStep
<1>2. /\ Shapes /\ MailboxSane /\ ClientSane(c) /\ DOMAIN client = Clients
      /\ DOMAIN mailbox = MailboxFields
  BY DEF PhysicalInv, Shapes
<1>3. \A d \in Clients : Ahead(client[d])' => client'[d].cmd # id
  <2>1. \A d \in Clients : client'[d] = IF d = c THEN k ELSE client[d]
    BY <1>1, <1>2
  <2>2. Ahead(k) => Ahead(client[c])
    BY <1>1 DEF Keeps, Ahead
  <2>3. \A d \in Clients : Ahead(client[d]) => client[d].cmd # id
    BY DEF Over
  <2>4. k.cmd = client[c].cmd
    BY <1>1 DEF Keeps
  <2>5. QED
    BY <2>1, <2>2, <2>3, <2>4 DEF Ahead
<1>4. id \in used' /\ (Waiting => ~Carries(mailbox.active, id))
  BY DEF ExchangeStep, Over
<1>5. ASSUME EffectsOf(id)' = EffectsOf(id),
             Waiting' => ~(mailbox'.active.op = "execute" /\ mailbox'.active.payload.permit.id = id)
      PROVE  Over(id)' /\ EffectsOf(id)' = EffectsOf(id)
  BY <1>3, <1>4, <1>5 DEF Over, Ahead, Carries
<1>6. effects' = effects => EffectsOf(id)' = EffectsOf(id)
  BY DEF EffectsOf
<1>7. CASE UNCHANGED deviceVars
  BY <1>4, <1>5, <1>6, <1>7 DEF deviceVars, Waiting, Carries
<1>8. CASE At(c, "begin") /\ ServeBegin(HeaderOf(c))
  <2>1. client[c].stage = "execute" => client[c].cmd # id
    BY <1>8 DEF Over, Ahead, At
  <2>2. ~Carries(HeaderOf(c), id)
    BY <1>1, <1>2, <2>1
       DEF ClientSane, Carries, HeaderOf, Header, Operation, PermitPayload, Keeps
  <2>3. effects' = effects /\ (mailbox' = mailbox \/ mailbox'.active = HeaderOf(c))
    BY <1>2, <1>8 DEF ServeBegin, MailboxFields
  <2>4. QED
    BY <1>4, <1>5, <1>6, <2>2, <2>3 DEF Waiting, Carries
<1>9. CASE \E payload : ServeStage(payload)
  <2>1. effects' = effects /\ mailbox'.active = mailbox.active /\ mailbox'.terminal = mailbox.terminal
    BY <1>2, <1>9 DEF ServeStage, MailboxFields
  <2>2. QED
    BY <1>4, <1>5, <1>6, <2>1 DEF Waiting, Carries
<1>10. CASE ServeCommit
  <2>1. CASE Waiting
    <3>1. Process
      BY <1>10, <2>1 DEF ServeCommit, Waiting
    <3>2. mailbox'.terminal = TRUE /\ (Rejecting \/ Applying)
      BY <2>1, <3>1, ProcessFields
    <3>3. ASSUME Applying PROVE EffectsOf(id)' = EffectsOf(id)
      <4>1. PICK permit : permit = mailbox.active.payload.permit
        OBVIOUS
      <4>2. permit.id # id
        BY <1>4, <2>1, <3>3, <4>1 DEF Applying, Carries
      <4>3. effects' = Append(effects, permit) /\ effects \in Seq(Range(effects))
        BY <1>2, <3>3, <4>1 DEF Applying, Shapes
      <4>4. QED
        BY <4>2, <4>3, EffectsGrow DEF EffectsOf
    <3>4. EffectsOf(id)' = EffectsOf(id)
      BY <1>6, <3>2, <3>3 DEF Rejecting
    <3>5. QED
      BY <1>5, <3>2, <3>4 DEF Waiting
  <2>2. CASE ~Waiting
    <3>1. UNCHANGED deviceVars
      BY <1>10, <2>2 DEF ServeCommit, Waiting
    <3>2. QED
      BY <1>7, <3>1
  <2>3. QED
    BY <2>1, <2>2
<1>11. CASE ServeRelease(HeaderOf(c))
  <2>1. effects' = effects /\ (mailbox' = mailbox \/ mailbox'.active = None)
    BY <1>2, <1>11 DEF ServeRelease, MailboxFields
  <2>2. QED
    BY <1>4, <1>5, <1>6, <2>1 DEF Waiting, Carries
<1>12. QED
  BY <1>7, <1>8, <1>9, <1>10, <1>11 DEF ExchangeStep, DeviceStep

\* A client that is ahead of its permit's header stays so, whoever's exchange it is.
LEMMA AheadStays ==
  ASSUME PhysicalInv, NEW c \in Clients, ExchangeStep(c),
         NEW d \in Clients, Ahead(client[d])', NEW id, id = client[d].cmd
  PROVE  /\ client'[d].cmd = id /\ EffectsOf(id)' = {}
         /\ mailbox'.active # None =>
              ~(mailbox'.active.op = "execute" /\ mailbox'.active.payload.permit.id = id)
<1>1. PICK k : client' = [client EXCEPT ![c] = k] /\ Keeps(c, k)
  BY DEF ExchangeStep
<1>2. /\ Shapes /\ ClientSane(c) /\ ClientSane(d) /\ DOMAIN client = Clients
      /\ DOMAIN mailbox = MailboxFields
  BY DEF PhysicalInv, Shapes
<1>3. client'[d] = (IF d = c THEN k ELSE client[d]) /\ k.cmd = client[c].cmd
  BY <1>1, <1>2 DEF Keeps
<1>4. Ahead(client[d]) /\ client[d].stage # "idle"
  BY <1>1, <1>3 DEF Ahead, Keeps
<1>5. EffectsOf(id) = {} /\ (mailbox.active # None => ~Carries(mailbox.active, id))
  BY <1>2, <1>4 DEF ClientSane
<1>6. effects' = effects => EffectsOf(id)' = EffectsOf(id)
  BY DEF EffectsOf
<1>7. CASE \/ UNCHANGED deviceVars \/ \E payload : ServeStage(payload)
           \/ ServeRelease(HeaderOf(c))
  <2>1. effects' = effects /\ (mailbox'.active = mailbox.active \/ mailbox'.active = None)
    BY <1>2, <1>7 DEF deviceVars, ServeStage, ServeRelease, MailboxFields
  <2>2. QED
    BY <1>3, <1>5, <1>6, <2>1 DEF Carries
<1>8. CASE At(c, "begin") /\ ServeBegin(HeaderOf(c))
  <2>1. effects' = effects /\ (mailbox'.active = mailbox.active \/ mailbox'.active = HeaderOf(c))
    BY <1>2, <1>8 DEF ServeBegin, MailboxFields
  <2>2. CASE client[c].stage = "execute"
    <3>1. d # c
      BY <1>1, <1>3, <2>2 DEF Ahead, Keeps
    <3>2. client[c].cmd # id
      BY <1>4, <2>2, <3>1 DEF PhysicalInv
    <3>3. ~Carries(HeaderOf(c), id)
      BY <1>2, <2>2, <3>2 DEF ClientSane, Carries, HeaderOf, Header, Operation, PermitPayload
    <3>4. QED
      BY <1>3, <1>5, <1>6, <2>1, <3>3 DEF Carries
  <2>3. CASE client[c].stage # "execute"
    <3>1. ~Carries(HeaderOf(c), id)
      BY <1>2, <2>3 DEF ClientSane, Carries, HeaderOf, Header, Operation
    <3>2. QED
      BY <1>3, <1>5, <1>6, <2>1, <3>1 DEF Carries
  <2>4. QED
    BY <2>2, <2>3
<1>9. CASE ServeCommit
  <2>1. CASE Waiting
    <3>1. Process
      BY <1>9, <2>1 DEF ServeCommit, Waiting
    <3>2. mailbox'.active = mailbox.active /\ (Rejecting \/ Applying)
      BY <2>1, <3>1, ProcessFields
    <3>3. ASSUME Applying PROVE EffectsOf(id)' = EffectsOf(id)
      <4>1. PICK permit : permit = mailbox.active.payload.permit
        OBVIOUS
      <4>2. permit.id # id
        BY <1>5, <2>1, <3>3, <4>1 DEF Applying, Carries, Waiting
      <4>3. effects' = Append(effects, permit) /\ effects \in Seq(Range(effects))
        BY <1>2, <3>3, <4>1 DEF Applying, Shapes
      <4>4. QED
        BY <4>2, <4>3, EffectsGrow DEF EffectsOf
    <3>4. EffectsOf(id)' = EffectsOf(id)
      BY <1>6, <3>2, <3>3 DEF Rejecting
    <3>5. QED
      BY <1>3, <1>5, <3>2, <3>4 DEF Carries
  <2>2. CASE ~Waiting
    <3>1. UNCHANGED deviceVars
      BY <1>9, <2>2 DEF ServeCommit, Waiting
    <3>2. QED
      BY <1>7, <3>1
  <2>3. QED
    BY <2>1, <2>2
<1>10. QED
  BY <1>7, <1>8, <1>9 DEF ExchangeStep, DeviceStep

\* The device's own state after an exchange.
LEMMA DeviceStays ==
  ASSUME PhysicalInv, NEW c \in Clients, ExchangeStep(c)
  PROVE  /\ DOMAIN mailbox' = MailboxFields /\ mailbox'.terminal \in BOOLEAN
         /\ effects' \in Seq(Range(effects'))
         /\ MailboxSane' /\ EffectsSane'
<1>1. PICK k : client' = [client EXCEPT ![c] = k] /\ Keeps(c, k)
  BY DEF ExchangeStep
<1>2. /\ Shapes /\ MailboxSane /\ EffectsSane /\ ClientSane(c) /\ DOMAIN client = Clients
      /\ DOMAIN mailbox = MailboxFields /\ mailbox.terminal \in BOOLEAN
      /\ effects \in Seq(Range(effects)) /\ used' = used /\ Stable
  BY ExchangeStable DEF PhysicalInv, Shapes, ExchangeStep
<1>3. effects' = effects => effects' \in Seq(Range(effects')) /\ EffectsSane'
  BY <1>2 DEF EffectsSane
<1>4. ASSUME mailbox.response # None, mailbox.response.header.op = "execute",
             mailbox.response.payload # None,
             NEW id, id = mailbox.response.header.payload.permit.id,
             NEW status, status = mailbox.response.payload.ack.status
      PROVE  Settled(id, status)'
  BY <1>2, <1>4, SettledStays DEF MailboxSane
<1>5. ASSUME effects' = effects, mailbox'.response = mailbox.response
      PROVE  mailbox'.response # None /\ mailbox'.response.header.op = "execute"
               /\ mailbox'.response.payload # None =>
             Settled(mailbox.response.header.payload.permit.id, mailbox.response.payload.ack.status)'
  <2> SUFFICES ASSUME mailbox'.response # None, mailbox'.response.header.op = "execute",
                      mailbox'.response.payload # None
               PROVE  Settled(mailbox.response.header.payload.permit.id,
                              mailbox.response.payload.ack.status)'
    OBVIOUS
  <2>1. PICK id, status : /\ id = mailbox.response.header.payload.permit.id
                          /\ status = mailbox.response.payload.ack.status
    OBVIOUS
  <2>2. Settled(id, status)'
    BY <1>4, <1>5, <2>1
  <2>3. QED
    BY <1>5, <2>1, <2>2 DEF Settled, Over, EffectsOf
<1>6. CASE \/ UNCHANGED deviceVars \/ \E payload : ServeStage(payload)
           \/ ServeRelease(HeaderOf(c))
  <2>1. /\ effects' = effects /\ mailbox'.response = mailbox.response
        /\ DOMAIN mailbox' = MailboxFields /\ mailbox'.terminal \in BOOLEAN
        /\ \/ mailbox'.active = mailbox.active /\ mailbox'.terminal = mailbox.terminal
           \/ mailbox'.active = None /\ mailbox'.terminal = FALSE
    BY <1>2, <1>6 DEF deviceVars, ServeStage, ServeRelease, MailboxFields
  <2>2. MailboxSane'
    BY <1>2, <1>5, <2>1 DEF MailboxSane, Waiting, EffectsOf
  <2>3. QED
    BY <1>3, <2>1, <2>2
<1>7. CASE At(c, "begin") /\ ServeBegin(HeaderOf(c))
  <2>1. CASE mailbox' = mailbox /\ effects' = effects
    <3>1. MailboxSane'
      BY <1>2, <1>5, <2>1 DEF MailboxSane, Waiting, EffectsOf
    <3>2. QED
      BY <1>2, <1>3, <2>1, <3>1
  <2>2. CASE mailbox.active = None /\ effects' = effects
    <3>1. PICK h : h = HeaderOf(c)
      OBVIOUS
    <3>2. /\ mailbox'.active = h /\ mailbox'.response = None
          /\ mailbox'.terminal = mailbox.terminal /\ DOMAIN mailbox' = MailboxFields
          /\ ~mailbox.terminal
      BY <1>2, <1>7, <2>2, <3>1 DEF ServeBegin, MailboxFields, MailboxSane
    <3>3. h.op \in {"read", "simulate", "execute"}
      BY <1>1, <1>2, <3>1 DEF HeaderOf, Header, Operation, ClientSane, Keeps
    <3>4. h.op = "execute" => h.payload.permit.id \in used /\ EffectsOf(h.payload.permit.id) = {}
      <4>1. h.op = "execute" => client[c].stage = "execute"
        BY <1>1, <1>2, <3>1 DEF HeaderOf, Header, Operation, ClientSane, Keeps
      <4>2. client[c].stage = "execute" => h.payload.permit.id = client[c].cmd
        BY <1>2, <3>1 DEF HeaderOf, Header, ClientSane, PermitPayload
      <4>3. client[c].stage = "execute" => client[c].cmd \in used /\ EffectsOf(client[c].cmd) = {}
        BY <1>2, <1>7 DEF ClientSane, Ahead, At
      <4>4. QED
        BY <4>1, <4>2, <4>3
    <3>5. MailboxSane'
      BY <1>2, <2>2, <3>2, <3>3, <3>4 DEF MailboxSane, Waiting, EffectsOf
    <3>6. QED
      BY <1>2, <1>3, <2>2, <3>2, <3>5
  <2>3. QED
    BY <1>7, <2>1, <2>2 DEF ServeBegin
<1>8. CASE ServeCommit /\ Waiting
  <2>1. Process
    BY <1>8 DEF ServeCommit, Waiting
  <2>2. /\ DOMAIN mailbox' = MailboxFields /\ mailbox'.terminal = TRUE
        /\ mailbox'.active = mailbox.active /\ mailbox'.response.header = mailbox.active
        /\ Rejecting \/ Applying
    BY <1>8, <2>1, ProcessFields
  <2>3. PICK id : id = mailbox.active.payload.permit.id
    OBVIOUS
  <2>4. ASSUME mailbox.active.op = "execute"
        PROVE  id \in used /\ EffectsOf(id) = {}
    BY <1>2, <1>8, <2>3, <2>4 DEF MailboxSane, Waiting
  <2>5. ASSUME mailbox.active.op = "execute"
        PROVE  Over(id)'
    <3>1. \A d \in Clients : Ahead(client[d])' => client'[d].cmd # id
      <4> SUFFICES ASSUME NEW d \in Clients, Ahead(client[d])' PROVE client'[d].cmd # id
        OBVIOUS
      <4>1. PICK cmd : cmd = client[d].cmd
        OBVIOUS
      <4>2. /\ client'[d].cmd = cmd
            /\ mailbox'.active # None =>
                 ~(mailbox'.active.op = "execute" /\ mailbox'.active.payload.permit.id = cmd)
        BY <4>1, AheadStays
      <4>3. QED
        BY <1>8, <2>2, <2>3, <2>5, <4>2 DEF Waiting
    <3>2. QED
      BY <1>2, <2>2, <2>4, <2>5, <3>1 DEF Over, Waiting, Ahead
  <2>6. CASE Rejecting
    <3>1. mailbox.active.op = "execute" => EffectsOf(id)' = {}
      BY <2>4, <2>6 DEF Rejecting, EffectsOf
    <3>2. MailboxSane'
      BY <1>2, <1>8, <2>2, <2>3, <2>5, <2>6, <3>1
         DEF MailboxSane, Waiting, Settled, Rejecting, Over, EffectsOf
    <3>3. QED
      BY <1>3, <2>2, <2>6, <3>2 DEF Rejecting
  <2>7. CASE Applying
    <3>1. PICK permit : permit = mailbox.active.payload.permit
      OBVIOUS
    <3>2. effects' = Append(effects, permit) /\ permit.id = id /\ mailbox.active.op = "execute"
      BY <2>3, <2>7, <3>1 DEF Applying
    <3>3. PICK n : n = Len(effects) + 1
      OBVIOUS
    <3>4. /\ effects' \in Seq(Range(effects'))
          /\ DOMAIN effects' = DOMAIN effects \cup {n} /\ n \notin DOMAIN effects
          /\ \A i \in DOMAIN effects : effects'[i] = effects[i]
          /\ effects'[n] = permit
      BY <1>2, <3>2, <3>3, EffectsGrow
    <3>5. EffectsOf(id)' = {n}
      BY <2>4, <3>2, <3>4 DEF EffectsOf
    <3>6. EffectsSane'
      BY <1>2, <2>4, <3>2, <3>4 DEF EffectsSane, EffectsOf
    <3>7. Settled(id, "applied")'
      BY <2>5, <3>2, <3>4, <3>5 DEF Settled
    <3>8. MailboxSane'
      BY <1>2, <1>8, <2>2, <2>3, <2>4, <2>7, <3>2, <3>7
         DEF MailboxSane, Waiting, Settled, Applying, Over, EffectsOf
    <3>9. QED
      BY <2>2, <3>4, <3>6, <3>8
  <2>8. QED
    BY <2>2, <2>6, <2>7
<1>9. CASE ServeCommit /\ ~Waiting
  <2>1. UNCHANGED deviceVars
    BY <1>9 DEF ServeCommit, Waiting
  <2>2. QED
    BY <1>6, <2>1
<1>10. QED
  BY <1>6, <1>7, <1>8, <1>9 DEF ExchangeStep, DeviceStep

\* Every register access preserves the invariant.
LEMMA ExchangePreserves ==
  ASSUME PhysicalInv, NEW c \in Clients, ExchangeStep(c)
  PROVE  PhysicalInv'
<1>1. PICK k : client' = [client EXCEPT ![c] = k] /\ Keeps(c, k)
  BY DEF ExchangeStep
<1>2. /\ Shapes /\ DOMAIN client = Clients /\ Stable /\ UNCHANGED <<used, results>>
      /\ \A d \in Clients : client'[d] = IF d = c THEN k ELSE client[d]
  BY <1>1, ExchangeStable DEF PhysicalInv, Shapes, ExchangeStep
<1>3. Shapes'
  BY <1>1, <1>2, DeviceStays DEF Shapes, Keeps
<1>4. \A r \in results' : ResultSane(r)'
  BY <1>2, ResultStays DEF PhysicalInv
<1>5. \A d, e \in Clients :
        d # e /\ client'[d].stage # "idle" /\ client'[e].stage # "idle" =>
          client'[d].cmd # client'[e].cmd
  BY <1>1, <1>2 DEF PhysicalInv, Keeps
<1>6. ASSUME NEW d \in Clients PROVE ClientSane(d)'
  <2>1. PICK j : j = client'[d]
    OBVIOUS
  <2>2. /\ ClientSane(d) /\ ClientSane(c) /\ MailboxSane
        /\ j.stage = client[d].stage /\ j.cmd = client[d].cmd /\ j.payload = client[d].payload
        /\ j.permit = client[d].permit /\ j.ack = client[d].ack
        /\ (j.stage = "idle" => j.step = "none")
    BY <1>1, <1>2, <2>1 DEF PhysicalInv, Keeps, ClientSane
  <2>3. PICK id : id = j.cmd
    OBVIOUS
  <2>4. Ahead(j) => EffectsOf(id)' = {}
                    /\ (mailbox'.active # None =>
                          ~(mailbox'.active.op = "execute" /\ mailbox'.active.payload.permit.id = id))
    <3> SUFFICES ASSUME Ahead(j)
                 PROVE  EffectsOf(id)' = {}
                        /\ (mailbox'.active # None =>
                          ~(mailbox'.active.op = "execute" /\ mailbox'.active.payload.permit.id = id))
      OBVIOUS
    <3>1. Ahead(client[d])'
      BY <2>1 DEF Ahead
    <3>2. QED
      BY <2>2, <2>3, <3>1, AheadStays
  <2>5. PICK status : status = j.answer.payload.ack.status
    OBVIOUS
  <2>6. ASSUME j.stage = "execute", j.outcome = "ok" PROVE Settled(id, status)'
    <3>1. CASE client[d].outcome = "ok" /\ j.answer = client[d].answer
      <4>1. Settled(id, status)
        BY <2>2, <2>3, <2>5, <2>6, <3>1 DEF ClientSane
      <4>2. QED
        BY <1>2, <4>1, SettledStays
    <3>2. CASE d = c /\ k.answer = mailbox.response /\ Correlated(c)
      <4>1. /\ mailbox.response # None /\ mailbox.response.payload # None
            /\ mailbox.response.header = HeaderOf(c)
        BY <3>2 DEF Correlated
      <4>2. j = k /\ client[c].stage = "execute"
        BY <1>2, <2>1, <2>2, <2>6, <3>2
      <4>3. HeaderOf(c).op = "execute" /\ HeaderOf(c).payload.permit.id = id
        BY <2>2, <2>3, <3>2, <4>2
           DEF HeaderOf, Header, Operation, ClientSane, PermitPayload
      <4>4. Settled(id, status)
        BY <2>2, <2>5, <3>2, <4>1, <4>2, <4>3 DEF MailboxSane
      <4>5. QED
        BY <1>2, <4>4, SettledStays
    <3>3. QED
      BY <1>1, <1>2, <2>1, <2>6, <3>1, <3>2 DEF Keeps
  <2>7. PICK told : told = j.ack.status
    OBVIOUS
  <2>8. ASSUME j.stage = "readback" PROVE Settled(id, told)'
    <3>1. Settled(id, told)
      BY <2>2, <2>3, <2>7, <2>8 DEF ClientSane
    <3>2. QED
      BY <1>2, <3>1, SettledStays
  <2>9. (j.stage = "execute" /\ j.outcome = "ok" =>
           Settled(client[d].cmd, client[d].answer.payload.ack.status)')
    BY <2>1, <2>3, <2>5, <2>6 DEF Settled, Over, EffectsOf
  <2>10. j.stage = "readback" => Settled(client[d].cmd, client[d].ack.status)'
    BY <2>1, <2>3, <2>7, <2>8 DEF Settled, Over, EffectsOf
  <2>11. Ahead(j) => EffectsOf(client[d].cmd)' = {}
                    /\ (mailbox'.active # None => ~Carries(mailbox.active, client[d].cmd)')
    BY <2>1, <2>3, <2>4 DEF EffectsOf, Carries
  <2>12. QED
    BY <1>2, <2>1, <2>2, <2>9, <2>10, <2>11 DEF ClientSane, Ahead, PermitPayload
<1>7. QED
  BY <1>3, <1>4, <1>5, <1>6, DeviceStays DEF PhysicalInv

(***************************************************************************)
(* The controller: the device stands still while it thinks.                *)
(***************************************************************************)
\* What a controller may make of its client.
Thinks(c, k) ==
  /\ DOMAIN k = ClientFields
  /\ k.stage \in {"idle", "capture", "simulate", "execute", "readback"}
  /\ k.stage = "idle" => k.step = "none"
  /\ k.stage # "idle" => \/ client[c].stage # "idle" /\ k.cmd = client[c].cmd
                         \/ k.cmd \in used' \ used
  /\ k.stage \in {"execute", "readback"} => k.permit.id = k.cmd
  /\ k.stage = "execute" => k.payload = PermitPayload(k.permit) /\ k.outcome # "ok"
  /\ k.stage \notin {"execute", "readback"} => k.permit = None
  /\ Ahead(k) => Ahead(client[c]) \/ k.cmd \in used' \ used
  /\ k.stage = "readback" => Settled(k.cmd, k.ack.status)

\* Whatever a controller may make of its client preserves the invariant.
LEMMA ControllerPreserves ==
  ASSUME PhysicalInv, NEW c \in Clients, UNCHANGED deviceVars, used \subseteq used',
         NEW k, client' = [client EXCEPT ![c] = k], Thinks(c, k),
         \A r \in results' : r \in results \/ ResultSane(r)
  PROVE  PhysicalInv'
<1>1. /\ UNCHANGED <<effects, mailbox>> /\ DOMAIN client = Clients
      /\ \A d \in Clients : client'[d] = IF d = c THEN k ELSE client[d]
      /\ \A d \in Clients : ClientSane(d)
  BY DEF PhysicalInv, Shapes, deviceVars
<1>2. ASSUME NEW id, Over(id) PROVE Over(id)' /\ EffectsOf(id)' = EffectsOf(id)
  <2>1. EffectsOf(id)' = EffectsOf(id)
    BY <1>1 DEF EffectsOf
  <2>2. Ahead(k) => k.cmd # id
    <3>1. Ahead(k) => k.stage # "idle"
      BY DEF Ahead
    <3>2. QED
      BY <1>2, <3>1 DEF Over, Thinks
  <2>3. \A d \in Clients : Ahead(client[d])' => client'[d].cmd # id
    BY <1>1, <1>2, <2>2 DEF Over, Ahead
  <2>4. QED
    BY <1>1, <1>2, <2>1, <2>3 DEF Over, Waiting, Carries, Ahead
<1>3. Stable
  BY <1>2 DEF Stable
<1>4. Shapes'
  BY <1>1 DEF PhysicalInv, Shapes, Thinks
<1>5. \A d, e \in Clients :
        d # e /\ client'[d].stage # "idle" /\ client'[e].stage # "idle" =>
          client'[d].cmd # client'[e].cmd
  BY <1>1 DEF PhysicalInv, Thinks, ClientSane
<1>6. \A r \in results' : ResultSane(r)'
  BY <1>3, ResultStays DEF PhysicalInv
<1>7. EffectsSane'
  BY <1>1 DEF PhysicalInv, EffectsSane
<1>8. MailboxSane'
  <2>1. MailboxSane
    BY DEF PhysicalInv
  <2>2. PICK id, status : /\ id = mailbox.response.header.payload.permit.id
                          /\ status = mailbox.response.payload.ack.status
    OBVIOUS
  <2>3. Settled(id, status) => Settled(id, status)'
    BY <1>3, SettledStays
  <2>4. QED
    BY <1>1, <2>1, <2>2, <2>3 DEF MailboxSane, Waiting, Settled, Over, EffectsOf
<1>9. ASSUME NEW d \in Clients PROVE ClientSane(d)'
  <2>1. CASE d # c
    <3>1. client'[d] = client[d] /\ ClientSane(d)
      BY <1>1, <2>1
    <3>2. PICK id, status, told : /\ id = client[d].cmd /\ told = client[d].ack.status
                                  /\ status = client[d].answer.payload.ack.status
      OBVIOUS
    <3>3. /\ Settled(id, status) => Settled(id, status)'
          /\ Settled(id, told) => Settled(id, told)'
      BY <1>3, SettledStays
    <3>4. QED
      BY <1>1, <3>1, <3>2, <3>3 DEF ClientSane, Ahead, Settled, Over, EffectsOf, Carries, PermitPayload
  <2>2. CASE d = c
    <3>1. client'[d] = k /\ ClientSane(c)
      BY <1>1, <2>2
    <3>2. PICK id, told : id = k.cmd /\ told = k.ack.status
      OBVIOUS
    <3>3. k.stage = "readback" => Settled(id, told)'
      BY <1>3, <3>2, SettledStays DEF Thinks
    <3>4. Ahead(k) => k.stage # "idle"
      BY DEF Ahead
    <3>5. Ahead(k) => EffectsOf(id) = {} /\ (mailbox.active # None => ~Carries(mailbox.active, id))
      <4>1. CASE id \notin used
        BY <4>1 DEF PhysicalInv, EffectsSane, MailboxSane, EffectsOf, Carries
      <4>2. CASE id \in used
        BY <3>1, <3>2, <3>4, <4>2 DEF Thinks, ClientSane
      <4>3. QED
        BY <4>1, <4>2
    <3>6. k.stage # "idle" => k.cmd \in used'
      BY <3>1 DEF Thinks, ClientSane
    <3>7. QED
      BY <1>1, <3>1, <3>2, <3>3, <3>5, <3>6
         DEF Thinks, ClientSane, Ahead, Settled, Over, EffectsOf, Carries, PermitPayload
  <2>3. QED
    BY <2>1, <2>2
<1>10. QED
  BY <1>4, <1>5, <1>6, <1>7, <1>8, <1>9 DEF PhysicalInv

\* The proposal under way ends with a record, or without one.
LEMMA FinishPreserves ==
  ASSUME PhysicalInv, NEW c \in Clients, UNCHANGED <<deviceVars, used>>, Finish(c),
         \A r \in results' : r \in results \/ ResultSane(r)
  PROVE  PhysicalInv'
<1>1. PICK k : k = Resting(client[c].tid, client[c].seen)
  OBVIOUS
<1>2. /\ DOMAIN k = ClientFields /\ k.stage = "idle" /\ k.step = "none" /\ k.permit = None
      /\ client' = [client EXCEPT ![c] = k]
  BY <1>1, RestingFields DEF Finish
<1>3. Thinks(c, k)
  BY <1>2 DEF Thinks, Ahead
<1>4. QED
  BY <1>2, <1>3, ControllerPreserves

\* A record without a permit, or of an unknown effect, claims nothing.
LEMMA ModestRecord ==
  ASSUME PhysicalInv, NEW c \in Clients, UNCHANGED <<deviceVars, used>>,
         NEW status, NEW post, Record(c, status, post),
         \/ status = "unknown_effect"
         \/ status \in {"not_dispatched", "candidate_rejected"} /\ client[c].permit = None
  PROVE  PhysicalInv'
<1>1. PICK r : r = [cmd |-> client[c].cmd, status |-> status, permit |-> client[c].permit, post |-> post]
  OBVIOUS
<1>2. results' = results \cup {r} /\ Finish(c)
  BY <1>1 DEF Record
<1>3. ResultSane(r)
  BY <1>1 DEF ResultSane
<1>4. QED
  BY <1>2, <1>3, FinishPreserves

\* The next operation of the proposal under way.
LEMMA CallPreserves ==
  ASSUME PhysicalInv, NEW c \in Clients, UNCHANGED deviceVars, results' = results,
         used \subseteq used', NEW stage, NEW payload, NEW j, DOMAIN j = ClientFields,
         client' = [client EXCEPT ![c] = Calling(j, stage, payload)],
         \/ stage = "capture" /\ j.cmd \in used' \ used /\ j.permit = None
         \/ /\ stage = "simulate" /\ client[c].stage = "capture"
            /\ j.cmd = client[c].cmd /\ j.permit = None
         \/ /\ stage = "execute" /\ client[c].stage = "simulate"
            /\ j.cmd = client[c].cmd /\ j.permit.id = j.cmd /\ payload = PermitPayload(j.permit)
         \/ /\ stage = "readback" /\ client[c].stage = "execute"
            /\ j.cmd = client[c].cmd /\ j.permit.id = j.cmd /\ Settled(j.cmd, j.ack.status)
  PROVE  PhysicalInv'
<1>1. PICK k : k = Calling(j, stage, payload)
  OBVIOUS
<1>2. /\ DOMAIN k = ClientFields /\ k.stage = stage /\ k.step = "begin"
      /\ k.payload = payload /\ k.outcome = "none"
      /\ k.cmd = j.cmd /\ k.permit = j.permit /\ k.ack = j.ack
  BY <1>1, CallingFields
<1>3. Thinks(c, k)
  BY <1>2 DEF Thinks, Ahead
<1>4. QED
  BY <1>1, <1>3, ControllerPreserves

\* Every step of PhysicalClosedLoopController.execute is one of these.
LEMMA ControllerSteps ==
  ASSUME PhysicalInv, NEW c \in Clients,
         \/ \E p \in Proposals : Start(c, p)
         \/ Decide(c) \/ IssuePermit(c) \/ Dispatched(c) \/ Conclude(c)
  PROVE  PhysicalInv'
<1>1. DOMAIN client[c] = ClientFields /\ ClientSane(c)
  BY DEF PhysicalInv, Shapes
<1>2. ASSUME NEW p \in Proposals, Start(c, p) PROVE PhysicalInv'
  <2>1. PICK j : j = [client[c] EXCEPT !.cmd = p]
    OBVIOUS
  <2>2. DOMAIN j = ClientFields /\ j.cmd = p /\ j.permit = client[c].permit
    BY <1>1, <2>1 DEF ClientFields
  <2>3. client[c].permit = None
    BY <1>1, <1>2 DEF Start, ClientSane
  <2>4. /\ client' = [client EXCEPT ![c] = Calling(j, "capture", Empty)]
        /\ UNCHANGED deviceVars /\ results' = results
        /\ used \subseteq used' /\ p \in used' \ used
    BY <1>2, <2>1 DEF Start, Go
  <2>5. QED
    BY <2>2, <2>3, <2>4, CallPreserves
<1>3. ASSUME Decide(c) PROVE PhysicalInv'
  <2>1. /\ client[c].stage = "capture" /\ client[c].permit = None
        /\ UNCHANGED <<deviceVars, used>>
    BY <1>1, <1>3 DEF Decide, Delivering, ClientSane
  <2>2. CASE Finish(c) /\ UNCHANGED results
    BY <2>1, <2>2, FinishPreserves
  <2>3. CASE Record(c, "not_dispatched", None)
    BY <2>1, <2>3, ModestRecord
  <2>4. CASE /\ Go(c, Calling([client[c] EXCEPT !.pre = client[c].answer.payload],
                              "simulate", CommandPayload(client[c].cmd)))
             /\ UNCHANGED results
    <3>1. PICK j : j = [client[c] EXCEPT !.pre = client[c].answer.payload]
      OBVIOUS
    <3>2. DOMAIN j = ClientFields /\ j.cmd = client[c].cmd /\ j.permit = client[c].permit
      BY <1>1, <3>1 DEF ClientFields
    <3>3. QED
      BY <2>1, <2>4, <3>1, <3>2, CallPreserves DEF Go
  <2>5. QED
    BY <1>3, <2>2, <2>3, <2>4 DEF Decide
<1>4. ASSUME IssuePermit(c) PROVE PhysicalInv'
  <2> DEFINE assessment == client[c].answer.payload
             permit == [id |-> client[c].cmd, cmd |-> client[c].cmd, pre |-> assessment.pre,
                        post |-> assessment.post]
  <2>1. /\ client[c].stage = "simulate" /\ client[c].permit = None
        /\ UNCHANGED <<deviceVars, used>>
    BY <1>1, <1>4 DEF IssuePermit, Delivering, ClientSane
  <2>2. CASE Finish(c) /\ UNCHANGED results
    BY <2>1, <2>2, FinishPreserves
  <2>3. CASE Record(c, "candidate_rejected", None)
    BY <2>1, <2>3, ModestRecord
  <2>4. CASE /\ Go(c, Calling([client[c] EXCEPT !.permit = permit], "execute", PermitPayload(permit)))
             /\ UNCHANGED results
    <3>1. PICK j : j = [client[c] EXCEPT !.permit = permit]
      OBVIOUS
    <3>2. /\ DOMAIN j = ClientFields /\ j.cmd = client[c].cmd /\ j.permit = permit
      BY <1>1, <3>1 DEF ClientFields
    <3>3. permit.id = client[c].cmd
      OBVIOUS
    <3> HIDE DEF permit
    <3>4. QED
      BY <2>1, <2>4, <3>1, <3>2, <3>3, CallPreserves DEF Go
  <2>5. QED
    BY <1>4, <2>2, <2>3, <2>4 DEF IssuePermit
<1>5. ASSUME Dispatched(c) PROVE PhysicalInv'
  <2>1. client[c].stage = "execute" /\ UNCHANGED <<deviceVars, used>>
    BY <1>5 DEF Dispatched, Delivering
  <2>2. CASE client[c].outcome = "ok"
    <3>1. PICK j : j = [client[c] EXCEPT !.ack = client[c].answer.payload.ack]
      OBVIOUS
    <3>2. /\ DOMAIN j = ClientFields /\ j.cmd = client[c].cmd /\ j.permit = client[c].permit
          /\ j.ack = client[c].answer.payload.ack
      BY <1>1, <3>1 DEF ClientFields
    <3>3. client' = [client EXCEPT ![c] = Calling(j, "readback", Empty)] /\ results' = results
      BY <1>5, <2>2, <3>1 DEF Dispatched, Go
    <3>4. j.permit.id = j.cmd /\ Settled(j.cmd, j.ack.status)
      BY <1>1, <2>1, <2>2, <3>2 DEF ClientSane
    <3>5. QED
      BY <2>1, <3>2, <3>3, <3>4, CallPreserves
  <2>3. CASE client[c].outcome # "ok"
    <3>1. Record(c, "unknown_effect", None)
      BY <1>5, <2>3 DEF Dispatched, DispatchFailureStatus
    <3>2. QED
      BY <2>1, <3>1, ModestRecord
  <2>4. QED
    BY <2>2, <2>3
<1>6. ASSUME Conclude(c) PROVE PhysicalInv'
  <2> DEFINE k == client[c]
             readback == k.answer.payload
             valid == AcknowledgmentValid(k.ack, k.permit, k.pre, readback)
  <2>1. /\ k.stage = "readback" /\ UNCHANGED <<deviceVars, used>>
        /\ Settled(k.cmd, k.ack.status) /\ k.permit.id = k.cmd
    BY <1>1, <1>6 DEF Conclude, Delivering, ClientSane
  <2>2. CASE Record(c, "unknown_effect", None)
    BY <2>1, <2>2, ModestRecord
  <2>3. CASE valid /\ k.ack.status = "applied" /\ Record(c, "completed", readback)
    <3>1. PICK r : r = [cmd |-> k.cmd, status |-> "completed", permit |-> k.permit, post |-> readback]
      OBVIOUS
    <3>2. results' = results \cup {r} /\ Finish(c)
      BY <2>3, <3>1 DEF Record
    <3>3. readback.state = k.permit.post
      BY <2>3 DEF AcknowledgmentValid
    <3>4. ResultSane(r)
      BY <2>1, <2>3, <3>1, <3>3 DEF ResultSane
    <3>5. QED
      BY <2>1, <3>2, <3>4, FinishPreserves
  <2>4. CASE k.ack.status # "applied" /\ Record(c, "device_rejected", readback)
    <3>1. PICK r : r = [cmd |-> k.cmd, status |-> "device_rejected", permit |-> k.permit, post |-> readback]
      OBVIOUS
    <3>2. results' = results \cup {r} /\ Finish(c)
      BY <2>4, <3>1 DEF Record
    <3>3. Settled(k.cmd, "rejected")
      BY <2>1, <2>4 DEF Settled
    <3>4. ResultSane(r)
      BY <2>1, <3>1, <3>3 DEF ResultSane
    <3>5. QED
      BY <2>1, <3>2, <3>4, FinishPreserves
  <2>5. QED
    BY <1>6, <2>2, <2>3, <2>4 DEF Conclude
<1>7. QED
  BY <1>2, <1>3, <1>4, <1>5, <1>6

\* Before the first proposal nothing was sent or recorded.
LEMMA InitPhysical == Init => PhysicalInv
<1> SUFFICES ASSUME Init PROVE PhysicalInv
  OBVIOUS
<1>1. /\ \A c \in Clients : client[c] = Resting(0, 0)
      /\ DOMAIN client = Clients
  BY DEF Init
<1>2. \A c \in Clients : /\ DOMAIN client[c] = ClientFields /\ client[c].stage = "idle"
                         /\ client[c].step = "none" /\ client[c].permit = None
  BY <1>1, RestingFields
<1>3. /\ DOMAIN mailbox = MailboxFields /\ mailbox.terminal = FALSE
      /\ mailbox.active = None /\ mailbox.response = None
  BY DEF Init, DeviceInit, MailboxFields
<1>4. effects = <<>> /\ DOMAIN effects = {} /\ results = {}
  BY DEF Init, DeviceInit
<1>5. Shapes
  <2>1. effects \in Seq(Range(effects))
    BY <1>4
  <2>2. QED
    BY <1>1, <1>2, <1>3, <2>1 DEF Shapes
<1>6. MailboxSane /\ EffectsSane
  BY <1>3, <1>4 DEF MailboxSane, EffectsSane, Waiting
<1>7. \A c \in Clients : ClientSane(c)
  BY <1>2 DEF ClientSane, Ahead
<1>8. QED
  BY <1>2, <1>4, <1>5, <1>6, <1>7 DEF PhysicalInv

\* The inductive invariant holds for any clients, proposals and faults
\* (_MailboxService, ModbusPhysicalDeviceClient, PhysicalClosedLoopController).
THEOREM PhysicalInvariant == Spec => []PhysicalInv
<1>1. PhysicalInv /\ [Next]_vars => PhysicalInv'
  <2> SUFFICES ASSUME PhysicalInv, [Next]_vars PROVE PhysicalInv'
    OBVIOUS
  <2>1. CASE UNCHANGED vars
    BY <2>1 DEF vars, deviceVars, PhysicalInv, Shapes, ClientSane, MailboxSane, EffectsSane,
                ResultSane, Settled, Over, Waiting, Carries, Ahead, EffectsOf, PermitPayload
  <2>2. CASE Next
    <3>1. PICK c \in Clients :
            \/ \E p \in Proposals : Start(c, p)
            \/ WriteHeader(c) \/ WritePayload(c) \/ WriteCommit(c) \/ ReadResponse(c)
            \/ Release(c) \/ Decide(c) \/ IssuePermit(c) \/ Dispatched(c) \/ Conclude(c)
      BY <2>2 DEF Next
    <3>2. QED
      BY <3>1, ExchangeShape, ExchangePreserves, ControllerSteps
  <2>3. QED
    BY <2>1, <2>2
<1>2. QED
  BY <1>1, InitPhysical, PTL DEF Spec

\* Whatever exchanges are lost and however many clients share the mailbox, what a
\* controller recorded is and stays true of the device
\* (PhysicalClosedLoopController.execute, _MailboxService).
THEOREM OutcomesAreReal == Spec => []RecordedOutcomeIsReal
<1>1. PhysicalInv => RecordedOutcomeIsReal
  <2> SUFFICES ASSUME PhysicalInv PROVE RecordedOutcomeIsReal
    OBVIOUS
  <2>1. ASSUME NEW id, NEW i, EffectsOf(id) = {i} PROVE Cardinality(EffectsOf(id)) = 1
    BY <2>1, FS_Singleton
  <2>2. ASSUME NEW id PROVE EffectsOf(id) = {} \/ \E i : EffectsOf(id) = {i}
    BY DEF PhysicalInv, EffectsSane, EffectsOf
  <2>3. ASSUME NEW p \in Proposals PROVE Cardinality(EffectsOf(p)) <= 1
    <3>1. CASE EffectsOf(p) = {}
      <4>1. Cardinality(EffectsOf(p)) = 0
        BY <3>1, FS_EmptySet
      <4>2. QED
        BY <4>1
    <3>2. CASE \E i : EffectsOf(p) = {i}
      <4>1. Cardinality(EffectsOf(p)) = 1
        BY <2>1, <3>2
      <4>2. QED
        BY <4>1
    <3>3. QED
      BY <2>2, <3>1, <3>2
  <2>4. ASSUME NEW r \in results
        PROVE  CASE r.status = "completed" ->
                      Cardinality(EffectsOf(r.permit.id)) = 1 /\ r.post.state = r.permit.post
                 [] r.status = "unknown_effect" -> TRUE
                 [] OTHER -> r.permit # None => EffectsOf(r.permit.id) = {}
    <3>1. ResultSane(r)
      BY DEF PhysicalInv
    <3>2. PICK id : id = r.permit.id
      OBVIOUS
    <3>3. Settled(id, "applied") => Cardinality(EffectsOf(id)) = 1
      BY <2>1 DEF Settled
    <3>4. Settled(id, "rejected") => EffectsOf(id) = {}
      BY DEF Settled
    <3>5. QED
      BY <3>1, <3>2, <3>3, <3>4 DEF ResultSane
  <2>5. QED
    BY <2>3, <2>4 DEF RecordedOutcomeIsReal
<1>2. QED
  BY <1>1, PhysicalInvariant, PTL


----------------------------------------------------------------------------
(***************************************************************************)
(* The inductive invariant of the pipeline, first the join tokens.  A      *)
(* token goes from the server's live ones through one attestation to one   *)
(* agent record.  The lock of an attempt makes its holder the only process *)
(* that changes it, so the state of the attempt is the one the holder's    *)
(* place says; a waiting process finds another inode or an empty one.      *)
(***************************************************************************)
Holding == {"issue", "truncate", "write", "revoke", "kept", "absent", "clear", "unlink"}
Issued == 1 .. issued

AttemptRecords ==
  [ino : Nat, state : {"absent", "empty", "armed", "generated"}, token : Tokens \cup {NoToken}]

HelperRecords ==
  [op : {"none", "arm", "generate", "cleanup"}, role : Roles \cup {NoToken},
   pc : {"idle", "open", "lock", "done", "failed"} \cup Holding, ino : Nat, verified : BOOLEAN,
   token : Tokens \cup {NoToken}, reads : Nat]

TokenTypes ==
  /\ attempts \in [Roles -> AttemptRecords]
  /\ inodes \in Nat /\ issued \in Nat /\ issued <= MaxTokens
  /\ aliases \in [Roles -> Issued \cup {NoToken}]
  /\ helper \in [Slots -> HelperRecords]
  /\ attesting \in [role : Roles \cup {NoToken}, token : Tokens \cup {NoToken}, delay : Nat]

\* A token is live, being attested, recorded, or spent.
ServerSane ==
  /\ live \subseteq Issued /\ nodes \subseteq Issued /\ live \cap nodes = {}
  /\ attesting # NoAttestation =>
       /\ attesting.role \in Roles /\ attesting.delay <= StableReads - 1
       /\ attesting.token \in Issued \ (live \cup nodes)

\* Nothing that was not audited can come in with the token any more.
Retired(t) ==
  /\ t \notin live /\ attesting.token # t
  /\ t \in nodes => t \in audited

Working(s) == helper[s].pc \in {"open", "lock"} \cup Holding

\* What the place of the process that holds an attempt says about it.
ArmHolds(h, a) == h.pc = "write" /\ a.state = "empty"

GenerateHolds(h, a) ==
  /\ h.pc \in {"issue", "truncate", "write"}
  /\ a.state = IF h.pc = "write" THEN "empty" ELSE "armed"
  /\ h.pc # "issue" => h.token \in Issued

CleanupHolds(h, a) ==
  /\ h.pc \in {"revoke", "kept", "absent", "clear", "unlink"}
  /\ h.pc \in {"revoke", "kept", "absent"} => a.state = "generated" /\ a.token = h.token
  /\ h.pc \in {"kept", "absent"} => h.token \notin live
  /\ h.pc = "absent" /\ attesting.token = h.token => h.reads + attesting.delay <= StableReads - 1
  /\ h.pc = "clear" => a.state = "armed" \/ (a.state = "generated" /\ Retired(a.token))
  /\ h.pc = "unlink" => a.state = "empty"

HolderSane(h, a) ==
  /\ h.ino = a.ino
  /\ h.op = "arm" => ArmHolds(h, a)
  /\ h.op = "generate" => GenerateHolds(h, a)
  /\ h.op = "cleanup" => CleanupHolds(h, a)

HelperSane(s) ==
  /\ Working(s) => helper[s].role \in Roles /\ helper[s].op # "none"
  /\ helper[s].pc \in {"open", "lock", "revoke"} => helper[s].reads = 0
  /\ helper[s].pc \in Holding => HolderSane(helper[s], attempts[helper[s].role])

HeldByOne ==
  helper["run"].pc \in Holding /\ helper["orphan"].pc \in Holding => helper["run"].role # helper["orphan"].role

\* The tokens a role's alias, attempt and helpers know are its own.
OwnTokens(r) ==
  ({aliases[r], attempts[r].token}
     \cup {helper[s].token : s \in {x \in Slots : Working(x) /\ helper[x].role = r}}) \ {NoToken}

OwnersApart ==
  /\ \A r \in Roles : OwnTokens(r) \subseteq Issued
  /\ \A r, q \in Roles : r # q => OwnTokens(r) \cap OwnTokens(q) = {}

EscrowSane == \A r \in Roles : attempts[r].state = "generated" => attempts[r].token \in Issued

TokensInv ==
  /\ TokenTypes /\ ServerSane /\ EscrowSane /\ HeldByOne /\ OwnersApart
  /\ \A s \in Slots : HelperSane(s)

(***************************************************************************)
(* The deployment: the helper it waits for, the tokens it delivers and the *)
(* roles it has audited.                                                   *)
(***************************************************************************)
Waits == {"armed", "generated", "cleaned", "retained"}
WaitsFor(pc) == CASE pc = "armed" -> "arm" [] pc = "generated" -> "generate" [] OTHER -> "cleanup"
AfterCleanup == {"resume", "await", "alias"}
PerRole == {"stale", "retain", "health", "deliver", "start", "audit", "quiesce"} \cup AfterCleanup \cup Waits
Registered == {"services", "applied", "probe", "restart", "again"}
AllAudited == {"prune", "entries", "managed"} \cup Registered

DepFields ==
  {"pc", "commit", "bundle", "runtime", "secrets", "plan", "at", "verified", "token", "clean"}

\* An attempt that is escrowed, or a token that is retired.
Covered(r, t) ==
  \/ t = NoToken
  \/ t \in Issued /\ (Retired(t) \/ (attempts[r].state = "generated" /\ attempts[r].token = t))

WayInCovered ==
  /\ tokenFile \in [Roles -> Tokens \cup {NoToken}] /\ svid \in [Roles -> Tokens \cup {NoToken}]
  /\ asking \in [Roles -> Tokens \cup {NoToken}]
  /\ \A r \in Roles : Covered(r, tokenFile[r]) /\ Covered(r, svid[r]) /\ Covered(r, asking[r])
  /\ attesting # NoAttestation => Covered(attesting.role, attesting.token)
  /\ dep.pc = "deliver" => Covered(Role, dep.token)
  /\ dep.pc = "generated" /\ helper["run"].pc = "done" => Covered(Role, helper["run"].token)

\* Nothing is issued for the role before its alias is audited ...
Unissued(r) ==
  \/ attempts[r].state = "absent"
  \/ aliases[r] = NoToken /\ ~(helper["orphan"].op = "generate" /\ helper["orphan"].role = r)

\* ... and nothing touches the audited alias afterwards.
Admitted(r) == attempts[r].state = "absent" /\ aliases[r] \in nodes \cap audited

DeploymentSane ==
  /\ DOMAIN dep = DepFields /\ dep.at \in DOMAIN RoleOrder /\ dep.verified \in BOOLEAN
  /\ dep.pc \notin Waits => helper["run"] = NoProcess
  /\ dep.pc \in Waits =>
       IF Working("run") THEN helper["run"].op = WaitsFor(dep.pc) /\ helper["run"].role = Role
       ELSE helper["run"].pc \in {"done", "failed"}
  /\ dep.pc \in {"cleaned", "retained"} /\ helper["run"].pc = "done" => Unissued(Role)
  /\ dep.pc \in AfterCleanup => Unissued(Role)

AuditsStand ==
  /\ dep.pc \in PerRole => \A i \in 1 .. (dep.at - 1) : Admitted(RoleOrder[i])
  /\ dep.pc \in AllAudited => \A r \in Roles : Admitted(r)

BootstrapInv == TokensInv /\ WayInCovered /\ DeploymentSane /\ AuditsStand

(***************************************************************************)
(* What is signed and deployed.  The reviewed profile never comes back, so *)
(* an image that was built under another one is not signed for it.         *)
(***************************************************************************)
FaithfulBundle(b) ==
  b # Nothing /\ b.accepted /\ b.signer = TrustedKey /\ b.profile = ReviewedProfile =>
    b.image.index.content = b.image.index.revision

FaithfulImage(i) == i.content = i.revision

BuildFields == {"pc", "planOnly", "commit", "key", "expected", "image", "archive"}

BuildSane ==
  /\ DOMAIN build = BuildFields
  /\ build.pc \in {"save", "verify", "recheck"} /\ profile = ReviewedProfile => FaithfulImage(build.image)
  /\ build.pc \in {"build", "save", "verify", "recheck"} => ~build.planOnly
  /\ build.pc \in {"verify", "recheck"} => build.archive.index = build.image
  /\ build.pc = "publish" /\ ~build.planOnly =>
       /\ build.archive.index = build.image
       /\ build.expected = ReviewedProfile => FaithfulImage(build.image)

\* After the plan is compiled.
Compiled == {"apply", "artifacts", "allow", "converge"} \cup PerRole \cup AllAudited

Serves(r) == host[r].running = dep.plan.image /\ host[r].secrets = dep.commit

HostSane == DOMAIN host = Roles /\ \A r \in Roles : DOMAIN host[r] = {"image", "secrets", "running"}

PlanSane ==
  /\ HostSane /\ FaithfulBundle(bundle)
  /\ dep.pc \in {"inputs", "compile"} => FaithfulBundle(dep.bundle)
  /\ dep.pc \in Compiled => dep.plan.image.content = dep.commit /\ dep.secrets = dep.commit
  /\ dep.pc \in {"prune", "entries", "managed"} => dep.at = 1
  /\ dep.pc \in Registered => entries = {Planned}
  /\ dep.pc = "services" => \A i \in 1 .. (dep.at - 1) : Serves(RoleOrder[i])
  /\ dep.pc \in Registered \ {"services"} => \A r \in Roles : Serves(r)

(***************************************************************************)
(* The campaign: an insertion that timed out is over before its absence    *)
(* was read often enough.                                                  *)
(***************************************************************************)
PartitionSane ==
  /\ DOMAIN acc = {"pc", "commit", "at", "reads", "denied"} /\ acc.reads \in Nat
  /\ DOMAIN inserting = {"campaign", "delay"} /\ inserting.delay \in Nat
  /\ acc.pc # "cleanup" => acc.reads = 0
  /\ acc.pc \in {"before", "baseline", "install", "present"} => inserting = NoInsertion
  /\ acc.pc = "cleanup" /\ inserting # NoInsertion => acc.reads + inserting.delay <= PartitionReads - 1

PipelineInv == BootstrapInv /\ BuildSane /\ PlanSane /\ PartitionSane

----------------------------------------------------------------------------
(***************************************************************************)
(* The join tokens.                                                        *)
(***************************************************************************)
\* The constants of the token helper.
LEMMA TokenFacts ==
  /\ MaxTokens \in Nat /\ StableReads \in Nat \ {0} /\ Tokens = 1 .. MaxTokens
  /\ NoToken \notin Tokens /\ NoToken \notin Roles
BY TokenAssumption DEF Tokens

\* The tokens that were issued are tokens.
LEMMA IssuedTokens ==
  ASSUME TokenTypes
  PROVE  Issued \subseteq Tokens /\ NoToken \notin Issued /\ Issued \subseteq Nat
<1>1. issued \in Nat /\ issued <= MaxTokens  BY DEF TokenTypes
<1> QED BY <1>1, TokenFacts DEF Issued

\* What every step does to the server's side: a token only moves on.
Forward ==
  /\ issued' \in Nat /\ issued <= issued'
  /\ live' \subseteq live \cup (Issued' \ Issued)
  /\ attesting'.delay \in Nat
  /\ \/ attesting'.token = attesting.token /\ attesting'.delay <= attesting.delay
     \/ attesting'.token = NoToken
     \/ attesting'.token \in live
  /\ nodes' \subseteq nodes \cup {attesting.token}
  /\ audited \subseteq audited'

\* What is retired stays retired.
LEMMA RetiredStays ==
  ASSUME TokenTypes, Forward, NEW t \in Issued, Retired(t)
  PROVE  Retired(t)' /\ t \in Issued'
<1>1. t \in Issued' /\ t \in Nat /\ t # NoToken
  <2>1. issued \in Nat  BY DEF TokenTypes
  <2> QED BY <2>1, IssuedTokens DEF Forward, Issued
<1>2. t \notin live'  BY DEF Forward, Retired
<1>3. attesting'.token # t  BY <1>1 DEF Forward, Retired
<1>4. t \in nodes' => t \in audited'  BY DEF Forward, Retired
<1> QED BY <1>1, <1>2, <1>3, <1>4 DEF Retired

\* The process in the other slot keeps its hold while its attempt is left alone.
LEMMA HolderStays ==
  ASSUME TokensInv, Forward, NEW o \in Slots, helper'[o] = helper[o],
         helper[o].pc \in Holding => attempts'[helper[o].role] = attempts[helper[o].role]
  PROVE  HelperSane(o)'
<1>1. TokenTypes /\ HelperSane(o)  BY DEF TokensInv
<1>2. PICK h : h = helper[o]  OBVIOUS
<1>3. h \in HelperRecords  BY <1>1, <1>2 DEF TokenTypes
<1>4. ASSUME h.pc \in Holding PROVE HolderSane(helper[o], attempts[helper[o].role])'
  <2>1. h.role \in Roles /\ HolderSane(h, attempts[h.role])
    BY <1>1, <1>2, <1>4 DEF HelperSane, Working
  <2>2. PICK a : a = attempts[h.role]  OBVIOUS
  <2>3. a \in AttemptRecords  BY <1>1, <2>1, <2>2 DEF TokenTypes
  <2>4. helper'[o] = h /\ attempts'[h.role] = a  BY <1>2, <1>4, <2>2
  <2>5. HolderSane(h, a)  BY <2>1, <2>2
  <2>6. a.state = "generated" => a.token \in Issued  BY <2>1, <2>2 DEF TokensInv, EscrowSane
  <2>7. issued \in Nat /\ issued' \in Nat /\ issued <= issued' /\ Issued \subseteq Issued'
    BY <1>1 DEF Forward, TokenTypes, Issued
  <2>8. GenerateHolds(h, a) => GenerateHolds(h, a)'
    BY <2>7 DEF GenerateHolds
  <2>9. ASSUME CleanupHolds(h, a) PROVE CleanupHolds(h, a)'
    <3>1. h.pc \in {"kept", "absent"} => h.token \notin live' /\ h.token \in Issued /\ h.token \notin live
      BY <2>6, <2>9 DEF CleanupHolds, Forward
    <3>2. ASSUME h.pc = "absent", attesting'.token = h.token
          PROVE  h.reads + attesting'.delay <= StableReads - 1
      <4>1. attesting'.token = attesting.token /\ attesting'.delay <= attesting.delay
        BY <1>1, <3>1, <3>2, IssuedTokens DEF Forward
      <4>2. h.reads + attesting.delay <= StableReads - 1  BY <2>9, <3>2, <4>1 DEF CleanupHolds
      <4>3. h.reads \in Nat  BY <1>3 DEF HelperRecords
      <4>4. attesting.delay \in Nat  BY <1>1 DEF TokenTypes
      <4> QED BY <4>1, <4>2, <4>3, <4>4, TokenFacts DEF Forward
    <3>3. a.state = "generated" /\ Retired(a.token) => Retired(a.token)'
      BY <1>1, <2>6, RetiredStays
    <3> QED BY <2>9, <3>1, <3>2, <3>3 DEF CleanupHolds
  <2> QED BY <2>4, <2>5, <2>8, <2>9 DEF HolderSane, ArmHolds
<1> QED BY <1>1, <1>2, <1>4 DEF HelperSane, Working

\* A place at which a process works on an attempt.
AtWork == {"open", "lock"} \cup Holding

(***************************************************************************)
(* A step of one helper process: it touches the attempt and the alias of   *)
(* its role only, and the attempt only while no other process holds it.    *)
(***************************************************************************)
LEMMA HelperMove ==
  ASSUME TokensInv, NEW s \in Slots, Working(s), NEW r \in Roles, helper[s].role = r,
         NEW h \in HelperRecords, helper' = [helper EXCEPT ![s] = h],
         attempts' \in [Roles -> AttemptRecords],
         \A q \in Roles \ {r} : attempts'[q] = attempts[q] /\ aliases'[q] = aliases[q],
         inodes' \in Nat, issued' <= MaxTokens, aliases' \in [Roles -> Issued' \cup {NoToken}],
         attesting' \in [role : Roles \cup {NoToken}, token : Tokens \cup {NoToken}, delay : Nat],
         ServerSane', Forward,
         attempts'[r].state = "generated" => attempts'[r].token \in Issued',
         h.pc \in AtWork => h.role = r /\ h.op # "none" /\ h.token \in OwnTokens(r) \cup {NoToken} \cup (Issued' \ Issued),
         h.pc \in {"open", "lock", "revoke"} => h.reads = 0,
         h.pc \in Holding => HolderSane(h, attempts[r])',
         h.pc \in Holding \/ attempts'[r] # attempts[r] =>
           \A o \in Slots \ {s} : ~(helper[o].pc \in Holding /\ helper[o].role = r),
         {aliases'[r], attempts'[r].token} \subseteq OwnTokens(r) \cup {NoToken} \cup (Issued' \ Issued)
  PROVE  TokensInv'
<1>1. TokenTypes /\ issued \in Nat /\ issued' \in Nat /\ issued <= issued' /\ Issued \subseteq Issued'
  BY DEF TokensInv, TokenTypes, Forward, Issued
<1>2. TokenTypes'
  BY <1>1 DEF TokenTypes, Forward
<1>3. helper'[s] = h /\ \A o \in Slots \ {s} : helper'[o] = helper[o]
  BY <1>1 DEF TokenTypes
<1>4. EscrowSane'
  BY <1>1 DEF EscrowSane, TokensInv
<1>5. \A o \in Slots \ {s} : helper[o].pc \in Holding => attempts'[helper[o].role] = attempts[helper[o].role]
  <2> SUFFICES ASSUME NEW o \in Slots \ {s}, helper[o].pc \in Holding
               PROVE  attempts'[helper[o].role] = attempts[helper[o].role]
    OBVIOUS
  <2>1. helper[o].role \in Roles  BY DEF TokensInv, HelperSane, Working
  <2> QED BY <2>1
<1>6. \A o \in Slots \ {s} : HelperSane(o)'
  BY <1>3, <1>5, HolderStays
<1>7. HelperSane(s)'
  BY <1>3 DEF HelperSane, Working, AtWork
<1>8. HeldByOne'
  <2>1. SUFFICES ASSUME helper'["run"].pc \in Holding, helper'["orphan"].pc \in Holding,
                        helper'["run"].role = helper'["orphan"].role
                 PROVE  FALSE
    BY DEF HeldByOne
  <2>2. PICK o \in Slots \ {s} : {s, o} = {"run", "orphan"}  BY DEF Slots
  <2>3. h.pc \in Holding /\ helper[o].pc \in Holding /\ h.role = helper[o].role
    BY <1>3, <2>1, <2>2
  <2> QED BY <2>3 DEF AtWork
<1>9. OwnTokens(r)' \subseteq OwnTokens(r) \cup (Issued' \ Issued)
  <2>1. ASSUME NEW x \in Slots, Working(x)', helper'[x].role = r, helper'[x].token # NoToken
        PROVE  helper'[x].token \in OwnTokens(r) \cup (Issued' \ Issued)
    <3>1. CASE x = s  BY <1>3, <2>1, <3>1 DEF Working, AtWork
    <3>2. CASE x # s
      <4>1. helper'[x] = helper[x] /\ Working(x)  BY <1>3, <2>1, <3>2 DEF Working
      <4> QED BY <2>1, <4>1 DEF OwnTokens
    <3> QED BY <3>1, <3>2
  <2> QED BY <2>1 DEF OwnTokens
<1>10. \A q \in Roles \ {r} : OwnTokens(q)' \subseteq OwnTokens(q)
  <2> SUFFICES ASSUME NEW q \in Roles \ {r} PROVE OwnTokens(q)' \subseteq OwnTokens(q)
    OBVIOUS
  <2>1. ASSUME NEW x \in Slots, Working(x)', helper'[x].role = q
        PROVE  Working(x) /\ helper[x].role = q /\ helper'[x].token = helper[x].token
    <3>1. CASE x = s  BY <1>3, <2>1, <3>1 DEF Working, AtWork
    <3>2. CASE x # s  BY <1>3, <2>1, <3>2 DEF Working
    <3> QED BY <3>1, <3>2
  <2>2. aliases'[q] = aliases[q] /\ attempts'[q].token = attempts[q].token  OBVIOUS
  <2> QED BY <2>1, <2>2 DEF OwnTokens
<1>11. OwnersApart'
  <2>1. /\ \A q \in Roles : OwnTokens(q) \subseteq Issued
        /\ \A q, p \in Roles : q # p => OwnTokens(q) \cap OwnTokens(p) = {}
    BY DEF TokensInv, OwnersApart
  <2>2. \A q \in Roles : OwnTokens(q)' \subseteq Issued'  BY <1>1, <1>9, <1>10, <2>1
  <2>3. ASSUME NEW q \in Roles, NEW p \in Roles, q # p PROVE (OwnTokens(q) \cap OwnTokens(p))' = {}
    <3>1. \A z \in Roles \ {r} : OwnTokens(r)' \cap OwnTokens(z)' = {}  BY <1>9, <1>10, <2>1
    <3>2. CASE q = r  BY <2>3, <3>1, <3>2
    <3>3. CASE p = r  BY <2>3, <3>1, <3>3
    <3>4. CASE q # r /\ p # r  BY <1>10, <2>1, <2>3, <3>4
    <3> QED BY <3>2, <3>3, <3>4
  <2> QED BY <2>2, <2>3 DEF OwnersApart
<1> QED BY <1>2, <1>3, <1>4, <1>6, <1>7, <1>8, <1>11 DEF TokensInv

\* The same when the process has only moved on.
LEMMA HelperOnly ==
  ASSUME TokensInv, NEW s \in Slots, Working(s), NEW r \in Roles, helper[s].role = r,
         NEW h \in HelperRecords, helper' = [helper EXCEPT ![s] = h],
         UNCHANGED <<attempts, inodes, live, issued, aliases, nodes, attesting, audited>>,
         h.pc \in AtWork => h.role = r /\ h.op # "none" /\ h.token \in OwnTokens(r) \cup {NoToken},
         h.pc \in {"open", "lock", "revoke"} => h.reads = 0,
         h.pc \in Holding => HolderSane(h, attempts[r]),
         h.pc \in Holding => \A o \in Slots \ {s} : ~(helper[o].pc \in Holding /\ helper[o].role = r)
  PROVE  TokensInv' /\ Forward
<1>1. TokenTypes /\ ServerSane /\ EscrowSane  BY DEF TokensInv
<1>2. Forward  BY <1>1 DEF Forward, TokenTypes
<1>3. ServerSane'  BY <1>1 DEF ServerSane, Issued
<1>4. {aliases[r], attempts[r].token} \subseteq OwnTokens(r) \cup {NoToken}  BY DEF OwnTokens
<1>5. HolderSane(h, attempts[r]) => HolderSane(h, attempts[r])'
  BY DEF HolderSane, ArmHolds, GenerateHolds, CleanupHolds, Retired, Issued
<1>6. /\ attempts' \in [Roles -> AttemptRecords] /\ inodes' \in Nat /\ issued' <= MaxTokens
      /\ aliases' \in [Roles -> Issued' \cup {NoToken}]
      /\ attesting' \in [role : Roles \cup {NoToken}, token : Tokens \cup {NoToken}, delay : Nat]
      /\ attempts'[r].state = "generated" => attempts'[r].token \in Issued'
  BY <1>1 DEF TokenTypes, EscrowSane, Issued
<1>7. h.pc \in AtWork => h.role = r /\ h.op # "none" /\ h.token \in OwnTokens(r) \cup {NoToken} \cup (Issued' \ Issued)
  OBVIOUS
<1>8. TokensInv'  BY <1>2, <1>3, <1>4, <1>5, <1>6, <1>7, HelperMove
<1> QED BY <1>2, <1>8

\* A process that is at some place works for a role.
LEMMA WorkingProcess ==
  ASSUME TokensInv, NEW s \in Slots, helper[s].pc \notin {"idle", "done", "failed"}
  PROVE  Working(s) /\ helper[s].role \in Roles /\ helper[s] \in HelperRecords /\ HelperSane(s)
<1>1. helper[s] \in HelperRecords /\ HelperSane(s)  BY DEF TokensInv, TokenTypes
<1>2. Working(s)  BY <1>1 DEF Working, HelperRecords
<1> QED BY <1>1, <1>2 DEF HelperSane

\* The holder of an attempt is the only one.
LEMMA OnlyHolder ==
  ASSUME TokensInv, NEW s \in Slots, helper[s].pc \in Holding, NEW o \in Slots \ {s}
  PROVE  ~(helper[o].pc \in Holding /\ helper[o].role = helper[s].role)
BY DEF TokensInv, HeldByOne, Slots

\* What a process that has ended leaves.
Left(s, t) == IF s = "orphan" THEN NoProcess ELSE [NoProcess EXCEPT !.pc = "done", !.token = t]
FailedHelper(s) == IF s = "orphan" THEN NoProcess ELSE [NoProcess EXCEPT !.pc = "failed"]

\* A process that has ended is a process record that does not work.
LEMMA EndedProcess ==
  ASSUME NEW s \in Slots, NEW t \in Tokens \cup {NoToken}
  PROVE  /\ Left(s, t) \in HelperRecords /\ Left(s, t).pc \notin AtWork
         /\ FailedHelper(s) \in HelperRecords /\ FailedHelper(s).pc \notin AtWork
         /\ s = "run" => Left(s, t).pc = "done" /\ Left(s, t).token = t /\ FailedHelper(s).pc = "failed"
         /\ s = "orphan" => Left(s, t) = NoProcess /\ FailedHelper(s) = NoProcess
BY DEF Left, FailedHelper, NoProcess, HelperRecords, AtWork, Holding, Slots

(***************************************************************************)
(* What a helper's step leaves: the invariant, and to the rest of the      *)
(* system everything but the attempt, the alias and one agent of its role. *)
(***************************************************************************)
\* An attempt that is gone stays gone, unless it is armed anew.
AbsenceKept(s, r) ==
  attempts[r].state = "absent" =>
    \/ attempts'[r].state = "absent" /\ aliases' = aliases /\ nodes' = nodes
    \/ aliases[r] = NoToken /\ helper[s].op = "arm" /\ aliases' = aliases

\* An escrowed token stays escrowed until it is retired.
EscrowKept ==
  \A q \in Roles : attempts[q].state = "generated" => attempts'[q] = attempts[q] \/ Retired(attempts[q].token)

\* The process goes on with its operation, or has ended with the result of it.
GoesOn(s, r) ==
  IF Working(s)' THEN helper'[s].op = helper[s].op /\ helper'[s].role = r
  ELSE /\ s = "orphan" => helper'[s] = NoProcess
       /\ s = "run" => helper'[s].pc \in {"done", "failed"}
       /\ helper'[s].pc = "done" /\ helper[s].op = "cleanup" => attempts'[r].state = "absent"
       /\ helper'[s].pc = "done" /\ helper[s].op = "generate" =>
            attempts'[r].state = "generated" /\ attempts'[r].token = helper'[s].token

HelperOutcome(s, r) ==
  /\ TokensInv' /\ Forward
  /\ \A o \in Slots \ {s} : helper'[o] = helper[o]
  /\ \A q \in Roles \ {r} : attempts'[q] = attempts[q] /\ aliases'[q] = aliases[q]
  /\ nodes \ nodes' \subseteq {helper[s].token}
  /\ aliases'[r] \in {aliases[r], NoToken} \/ helper[s].op = "generate"
  /\ EscrowKept /\ AbsenceKept(s, r) /\ GoesOn(s, r)

\* A step that changes the process only.
LEMMA OnlyProcess ==
  ASSUME TokensInv, NEW s \in Slots, NEW r \in Roles,
         \A o \in Slots \ {s} : helper'[o] = helper[o],
         UNCHANGED <<attempts, inodes, live, issued, aliases, nodes, attesting, audited>>,
         TokensInv', Forward, GoesOn(s, r)
  PROVE  HelperOutcome(s, r)
BY DEF HelperOutcome, EscrowKept, AbsenceKept

\* The process fails or is killed.
LEMMA EndHelperStep ==
  ASSUME TokensInv, NEW s \in Slots, EndHelper(s)
  PROVE  Working(s) /\ helper[s].role \in Roles /\ HelperOutcome(s, helper[s].role)
<1>1. Working(s) /\ helper[s].role \in Roles /\ helper[s] \in HelperRecords
  BY WorkingProcess DEF EndHelper
<1>2. helper' = [helper EXCEPT ![s] = FailedHelper(s)]  BY DEF EndHelper, FailedHelper
<1>3. UNCHANGED <<attempts, inodes, live, issued, aliases, nodes, attesting, audited>>  BY DEF EndHelper
<1>4. PICK h : h = FailedHelper(s)  OBVIOUS
<1>5. h \in HelperRecords /\ h.pc \notin AtWork
  BY <1>4, EndedProcess
<1>6. TokensInv' /\ Forward
  <2>1. h.pc \notin {"open", "lock", "revoke"} /\ h.pc \notin Holding  BY <1>5 DEF AtWork, Holding
  <2> QED BY <1>1, <1>2, <1>3, <1>4, <1>5, <2>1, HelperOnly
<1>7. helper'[s] = h /\ \A o \in Slots \ {s} : helper'[o] = helper[o]
  BY <1>2, <1>4 DEF TokensInv, TokenTypes
<1>8. GoesOn(s, helper[s].role)
  BY <1>4, <1>5, <1>7, EndedProcess DEF GoesOn, Working, AtWork, NoProcess, Slots, FailedHelper
<1> QED BY <1>1, <1>3, <1>6, <1>7, <1>8, OnlyProcess

\* No attempt: cleanup has nothing to do.
LEMMA CleanupNoAttemptStep ==
  ASSUME TokensInv, NEW s \in Slots, CleanupNoAttempt(s)
  PROVE  Working(s) /\ helper[s].role \in Roles /\ HelperOutcome(s, helper[s].role)
<1>1. Working(s) /\ helper[s].role \in Roles /\ helper[s] \in HelperRecords
  BY WorkingProcess DEF CleanupNoAttempt
<1>2. PICK t : t = helper[s].token  OBVIOUS
<1>3. helper' = [helper EXCEPT ![s] = Left(s, t)]  BY <1>2 DEF CleanupNoAttempt, Exit, Left
<1>4. UNCHANGED <<attempts, inodes, live, issued, aliases, nodes, attesting, audited>>  BY DEF CleanupNoAttempt
<1>5. PICK h : h = Left(s, t)  OBVIOUS
<1>6. t \in Tokens \cup {NoToken}  BY <1>1, <1>2 DEF HelperRecords
<1>7. h \in HelperRecords /\ h.pc \notin AtWork  BY <1>5, <1>6, EndedProcess
<1>8. TokensInv' /\ Forward
  <2>1. h.pc \notin {"open", "lock", "revoke"} /\ h.pc \notin Holding  BY <1>7 DEF AtWork, Holding
  <2> QED BY <1>1, <1>3, <1>4, <1>5, <1>7, <2>1, HelperOnly
<1>9. helper'[s] = h /\ \A o \in Slots \ {s} : helper'[o] = helper[o]
  BY <1>3, <1>5 DEF TokensInv, TokenTypes
<1>10. GoesOn(s, helper[s].role)
  BY <1>4, <1>5, <1>6, <1>7, <1>9, EndedProcess DEF GoesOn, Working, AtWork, Slots, CleanupNoAttempt
<1> QED BY <1>1, <1>4, <1>8, <1>9, <1>10, OnlyProcess

\* _open_attempt.
LEMMA OpenAttemptStep ==
  ASSUME TokensInv, NEW s \in Slots, OpenAttempt(s)
  PROVE  Working(s) /\ helper[s].role \in Roles /\ HelperOutcome(s, helper[s].role)
<1>1. Working(s) /\ helper[s].role \in Roles /\ helper[s] \in HelperRecords /\ HelperSane(s)
  BY WorkingProcess DEF OpenAttempt
<1>2. PICK g, r : g = helper[s] /\ r = helper[s].role  OBVIOUS
<1>3. PICK h : h = [g EXCEPT !.pc = "lock", !.ino = attempts[r].ino]  OBVIOUS
<1>4. attempts[r] \in AttemptRecords  BY <1>1, <1>2 DEF TokensInv, TokenTypes
<1>5. h \in HelperRecords /\ h.pc = "lock" /\ h.role = r /\ h.op = g.op /\ h.token = g.token /\ h.reads = g.reads
  BY <1>1, <1>2, <1>3, <1>4 DEF HelperRecords, AttemptRecords
<1>6. helper' = [helper EXCEPT ![s] = h]  BY <1>2, <1>3 DEF OpenAttempt
<1>7. UNCHANGED <<attempts, inodes, live, issued, aliases, nodes, attesting, audited>>  BY DEF OpenAttempt
<1>8. g.reads = 0 /\ g.op # "none" /\ g.token \in OwnTokens(r) \cup {NoToken}
  BY <1>1, <1>2 DEF HelperSane, OpenAttempt, OwnTokens
<1>9. TokensInv' /\ Forward
  <2>1. h.pc \notin Holding  BY <1>5 DEF Holding
  <2> QED BY <1>1, <1>2, <1>5, <1>6, <1>7, <1>8, <2>1, HelperOnly
<1>10. helper'[s] = h /\ \A o \in Slots \ {s} : helper'[o] = helper[o]
  BY <1>6 DEF TokensInv, TokenTypes
<1>11. GoesOn(s, r)  BY <1>2, <1>5, <1>10 DEF GoesOn, Working
<1> QED BY <1>1, <1>2, <1>7, <1>9, <1>10, <1>11, OnlyProcess

\* The lock of an attempt that is not empty is the lock of the file at the path, and
\* nobody else has it.
LEMMA LockTaken ==
  ASSUME TokensInv, NEW s \in Slots, Working(s), helper[s].role \in Roles, LockFree(s),
         ReadAttempt(s).state \in {"armed", "generated"}
  PROVE  /\ ReadAttempt(s) = attempts[helper[s].role]
         /\ helper[s].ino = attempts[helper[s].role].ino
         /\ \A o \in Slots \ {s} : ~(helper[o].pc \in Holding /\ helper[o].role = helper[s].role)
<1>1. PICK a : a = attempts[helper[s].role]  OBVIOUS
<1>2. a \in AttemptRecords  BY <1>1 DEF TokensInv, TokenTypes
<1>3. [a EXCEPT !.state = "empty"].state = "empty"  BY <1>2 DEF AttemptRecords
<1>4. a.ino = helper[s].ino /\ ReadAttempt(s) = a  BY <1>1, <1>3 DEF ReadAttempt
<1>5. ASSUME NEW o \in Slots \ {s}, helper[o].pc \in Holding, helper[o].role = helper[s].role
      PROVE  FALSE
  <2>1. helper[o].ino = a.ino  BY <1>1, <1>5 DEF TokensInv, HelperSane, HolderSane
  <2>2. Holds(o, helper[s].role, helper[s].ino)  BY <1>4, <1>5, <2>1 DEF Holds, Holding
  <2> QED BY <2>2, <1>5 DEF LockFree
<1> QED BY <1>1, <1>4, <1>5

\* generate takes the lock of an armed attempt.
LEMMA LockToGenerateStep ==
  ASSUME TokensInv, NEW s \in Slots, LockToGenerate(s)
  PROVE  Working(s) /\ helper[s].role \in Roles /\ HelperOutcome(s, helper[s].role)
<1>1. Working(s) /\ helper[s].role \in Roles /\ helper[s] \in HelperRecords /\ HelperSane(s)
  BY WorkingProcess DEF LockToGenerate
<1>2. PICK g, r : g = helper[s] /\ r = helper[s].role  OBVIOUS
<1>3. PICK h : h = [g EXCEPT !.pc = "issue"]  OBVIOUS
<1>4. h \in HelperRecords /\ h.pc = "issue" /\ h.role = r /\ h.op = "generate" /\ h.token = g.token /\ h.ino = g.ino
  BY <1>1, <1>2, <1>3 DEF HelperRecords, Holding, LockToGenerate
<1>5. helper' = [helper EXCEPT ![s] = h]  BY <1>2, <1>3 DEF LockToGenerate, Step
<1>6. UNCHANGED <<attempts, inodes, live, issued, aliases, nodes, attesting, audited>>  BY DEF LockToGenerate
<1>7. /\ attempts[r].state = "armed" /\ g.ino = attempts[r].ino
      /\ \A o \in Slots \ {s} : ~(helper[o].pc \in Holding /\ helper[o].role = r)
  BY <1>1, <1>2, LockTaken DEF LockToGenerate, MayIssue
<1>8. HolderSane(h, attempts[r])
  BY <1>4, <1>7 DEF HolderSane, GenerateHolds
<1>9. g.token \in OwnTokens(r) \cup {NoToken}  BY <1>1, <1>2 DEF OwnTokens
<1>10. TokensInv' /\ Forward
  BY <1>1, <1>2, <1>4, <1>5, <1>6, <1>7, <1>8, <1>9, HelperOnly
<1>11. helper'[s] = h /\ \A o \in Slots \ {s} : helper'[o] = helper[o]
  BY <1>5 DEF TokensInv, TokenTypes
<1>12. GoesOn(s, r)  BY <1>2, <1>4, <1>11 DEF GoesOn, Working, Holding, LockToGenerate
<1> QED BY <1>1, <1>2, <1>6, <1>10, <1>11, <1>12, OnlyProcess

\* cleanup takes the lock of an attempt that is not empty.
LEMMA LockToCleanupStep ==
  ASSUME TokensInv, NEW s \in Slots, LockToCleanup(s)
  PROVE  Working(s) /\ helper[s].role \in Roles /\ HelperOutcome(s, helper[s].role)
<1>1. Working(s) /\ helper[s].role \in Roles /\ helper[s] \in HelperRecords /\ HelperSane(s)
  BY WorkingProcess DEF LockToCleanup
<1>2. PICK g, r : g = helper[s] /\ r = helper[s].role  OBVIOUS
<1>3. PICK a : a = attempts[r]  OBVIOUS
<1>4. /\ ReadAttempt(s) = a /\ g.ino = a.ino /\ a.state \in {"armed", "generated"}
      /\ \A o \in Slots \ {s} : ~(helper[o].pc \in Holding /\ helper[o].role = r)
  BY <1>1, <1>2, <1>3, LockTaken DEF LockToCleanup
<1>5. a \in AttemptRecords  BY <1>1, <1>2, <1>3 DEF TokensInv, TokenTypes
<1>6. PICK pc : pc = IF a.state = "armed" THEN "clear" ELSE "revoke"  OBVIOUS
<1>7. PICK h : h = [g EXCEPT !.pc = pc, !.token = a.token]  OBVIOUS
<1>8. /\ h \in HelperRecords /\ h.pc = pc /\ h.role = r /\ h.op = "cleanup" /\ h.token = a.token
      /\ h.ino = g.ino /\ h.reads = g.reads
  BY <1>1, <1>2, <1>5, <1>6, <1>7 DEF HelperRecords, AttemptRecords, Holding, LockToCleanup
<1>9. helper' = [helper EXCEPT ![s] = h]
  BY <1>2, <1>4, <1>6, <1>7 DEF LockToCleanup, CleanupStart
<1>10. UNCHANGED <<attempts, inodes, live, issued, aliases, nodes, attesting, audited>>  BY DEF LockToCleanup
<1>11. HolderSane(h, attempts[r])
  BY <1>3, <1>4, <1>6, <1>8 DEF HolderSane, CleanupHolds
<1>12. h.token \in OwnTokens(r) \cup {NoToken}  BY <1>3, <1>8 DEF OwnTokens
<1>13. g.reads = 0  BY <1>1, <1>2 DEF HelperSane, LockToCleanup
<1>14. TokensInv' /\ Forward
  BY <1>1, <1>2, <1>4, <1>8, <1>9, <1>10, <1>11, <1>12, <1>13, HelperOnly
<1>15. helper'[s] = h /\ \A o \in Slots \ {s} : helper'[o] = helper[o]
  BY <1>9 DEF TokensInv, TokenTypes
<1>16. GoesOn(s, r)  BY <1>2, <1>6, <1>8, <1>15 DEF GoesOn, Working, Holding, LockToCleanup
<1> QED BY <1>1, <1>2, <1>10, <1>14, <1>15, <1>16, OnlyProcess

\* Steps that leave the server alone.
LEMMA ServerLeft ==
  ASSUME TokensInv, UNCHANGED <<live, issued, nodes, attesting, audited>>
  PROVE  /\ ServerSane' /\ Forward /\ Issued' = Issued /\ issued' <= MaxTokens
         /\ attesting' \in [role : Roles \cup {NoToken}, token : Tokens \cup {NoToken}, delay : Nat]
BY DEF TokensInv, TokenTypes, ServerSane, Forward, Issued

\* arm creates the file.
LEMMA ArmCreateStep ==
  ASSUME TokensInv, NEW s \in Slots, ArmCreate(s)
  PROVE  Working(s) /\ helper[s].role \in Roles /\ HelperOutcome(s, helper[s].role)
<1>1. Working(s) /\ helper[s].role \in Roles /\ helper[s] \in HelperRecords /\ HelperSane(s)
  BY WorkingProcess DEF ArmCreate
<1>2. PICK g, r : g = helper[s] /\ r = helper[s].role  OBVIOUS
<1>3. PICK a : a = [ino |-> inodes + 1, state |-> "empty", token |-> NoToken]  OBVIOUS
<1>4. PICK h : h = [g EXCEPT !.pc = "write", !.ino = inodes + 1]  OBVIOUS
<1>5. inodes \in Nat  BY DEF TokensInv, TokenTypes
<1>6. /\ h \in HelperRecords /\ h.pc = "write" /\ h.role = r /\ h.op = "arm" /\ h.token = g.token
      /\ h.ino = inodes + 1 /\ a \in AttemptRecords
  <2>1. a \in AttemptRecords  BY <1>3, <1>5 DEF AttemptRecords
  <2>2. inodes + 1 \in Nat  BY <1>5
  <2> QED BY <1>1, <1>2, <1>4, <2>1, <2>2 DEF HelperRecords, Holding, ArmCreate
<1>7. /\ helper' = [helper EXCEPT ![s] = h] /\ attempts' = [attempts EXCEPT ![r] = a]
      /\ inodes' = inodes + 1 /\ UNCHANGED <<live, issued, aliases, nodes, attesting, audited>>
      /\ attempts[r].state = "absent" /\ aliases[r] = NoToken
  BY <1>2, <1>3, <1>4 DEF ArmCreate
<1>8. attempts \in [Roles -> AttemptRecords] /\ aliases \in [Roles -> Issued \cup {NoToken}]
  BY DEF TokensInv, TokenTypes
<1>9. attempts'[r] = a /\ \A q \in Roles \ {r} : attempts'[q] = attempts[q]
  BY <1>1, <1>2, <1>7, <1>8
<1>10. \A o \in Slots \ {s} : ~(helper[o].pc \in Holding /\ helper[o].role = r)
  <2> SUFFICES ASSUME NEW o \in Slots \ {s}, helper[o].pc \in Holding, helper[o].role = r PROVE FALSE
    OBVIOUS
  <2>1. HolderSane(helper[o], attempts[r]) /\ helper[o] \in HelperRecords /\ helper[o].op # "none"
    BY DEF TokensInv, HelperSane, TokenTypes, Working
  <2> QED BY <1>7, <2>1 DEF HolderSane, ArmHolds, GenerateHolds, CleanupHolds, HelperRecords
<1>11. HolderSane(h, attempts[r])'
  BY <1>3, <1>6, <1>9 DEF HolderSane, ArmHolds
<1>12. g.token \in OwnTokens(r) \cup {NoToken}  BY <1>1, <1>2 DEF OwnTokens
<1>13. TokensInv' /\ Forward
  <2>1. ServerSane' /\ Forward /\ Issued' = Issued /\ issued' <= MaxTokens
        /\ attesting' \in [role : Roles \cup {NoToken}, token : Tokens \cup {NoToken}, delay : Nat]
    BY <1>7, ServerLeft
  <2>2. attempts' \in [Roles -> AttemptRecords]  BY <1>6, <1>7, <1>8
  <2>3. inodes' \in Nat /\ aliases' \in [Roles -> Issued' \cup {NoToken}]  BY <1>5, <1>7, <1>8, <2>1
  <2>4. attempts'[r].state # "generated" /\ {aliases'[r], attempts'[r].token} \subseteq {NoToken}
    BY <1>3, <1>7, <1>9
  <2>5. h.pc \notin {"open", "lock", "revoke"}  BY <1>6
  <2>6. \A q \in Roles \ {r} : attempts'[q] = attempts[q] /\ aliases'[q] = aliases[q]  BY <1>7, <1>9
  <2>7. TokensInv'
    BY <1>1, <1>2, <1>6, <1>7, <1>10, <1>11, <1>12, <2>1, <2>2, <2>3, <2>4, <2>5, <2>6, HelperMove
  <2> QED BY <2>1, <2>7
<1>14. helper'[s] = h /\ \A o \in Slots \ {s} : helper'[o] = helper[o]
  BY <1>7 DEF TokensInv, TokenTypes
<1>15. GoesOn(s, r)  BY <1>2, <1>6, <1>14 DEF GoesOn, Working, Holding, ArmCreate
<1>16. EscrowKept /\ AbsenceKept(s, r)
  BY <1>1, <1>2, <1>7, <1>9 DEF EscrowKept, AbsenceKept, ArmCreate
<1> QED BY <1>1, <1>2, <1>7, <1>9, <1>13, <1>14, <1>15, <1>16 DEF HelperOutcome

\* The holder of an attempt writes to it.
LEMMA HolderWrites ==
  ASSUME TokensInv, NEW s \in Slots, helper[s].pc \in Holding, NEW r \in Roles, helper[s].role = r,
         NEW h \in HelperRecords, helper' = [helper EXCEPT ![s] = h],
         NEW a \in AttemptRecords, attempts' = [attempts EXCEPT ![r] = a],
         UNCHANGED <<inodes, live, issued, aliases, nodes, attesting, audited>>,
         h.pc \in AtWork => h.role = r /\ h.op = helper[s].op /\ h.token = helper[s].token,
         h.pc \notin {"open", "lock", "revoke"},
         h.pc \in Holding => HolderSane(h, a),
         a.token \in {NoToken, attempts[r].token, helper[s].token},
         a.state = "generated" => a.token \in Issued,
         attempts[r].state # "absent",
         attempts[r].state = "generated" => Retired(attempts[r].token),
         GoesOn(s, r)
  PROVE  HelperOutcome(s, r)
<1>1. Working(s) /\ HelperSane(s) /\ TokenTypes  BY DEF Working, TokensInv
<1>2. attempts'[r] = a /\ \A q \in Roles \ {r} : attempts'[q] = attempts[q]
  BY <1>1 DEF TokenTypes
<1>3. /\ ServerSane' /\ Forward /\ Issued' = Issued /\ issued' <= MaxTokens
      /\ attesting' \in [role : Roles \cup {NoToken}, token : Tokens \cup {NoToken}, delay : Nat]
  BY ServerLeft
<1>4. attempts' \in [Roles -> AttemptRecords] /\ inodes' \in Nat /\ aliases' \in [Roles -> Issued' \cup {NoToken}]
  BY <1>1, <1>3 DEF TokenTypes
<1>5. \A o \in Slots \ {s} : ~(helper[o].pc \in Holding /\ helper[o].role = r)
  BY OnlyHolder
<1>6. helper[s].op # "none" /\ {helper[s].token, attempts[r].token, aliases[r]} \subseteq OwnTokens(r) \cup {NoToken}
  BY <1>1 DEF HelperSane, OwnTokens
<1>7. HolderSane(h, a) => HolderSane(h, attempts[r])'
  BY <1>2, <1>3 DEF HolderSane, ArmHolds, GenerateHolds, CleanupHolds, Retired
<1>8. \A q \in Roles \ {r} : attempts'[q] = attempts[q] /\ aliases'[q] = aliases[q]  BY <1>2
<1>9. TokensInv'
  <2>1. h.pc \in AtWork =>
          h.role = r /\ h.op # "none" /\ h.token \in OwnTokens(r) \cup {NoToken} \cup (Issued' \ Issued)
    BY <1>6
  <2>2. h.pc \in Holding => HolderSane(h, attempts[r])'  BY <1>7
  <2>3. attempts'[r].state = "generated" => attempts'[r].token \in Issued'  BY <1>2, <1>3
  <2>4. {aliases'[r], attempts'[r].token} \subseteq OwnTokens(r) \cup {NoToken} \cup (Issued' \ Issued)
    BY <1>2, <1>6
  <2>5. h.pc \in {"open", "lock", "revoke"} => h.reads = 0  OBVIOUS
  <2> QED BY <1>1, <1>3, <1>4, <1>5, <1>8, <2>1, <2>2, <2>3, <2>4, <2>5, HelperMove
<1>10. \A o \in Slots \ {s} : helper'[o] = helper[o]  BY <1>1 DEF TokenTypes
<1>11. EscrowKept  BY <1>2 DEF EscrowKept
<1>12. AbsenceKept(s, r)  BY DEF AbsenceKept
<1> QED BY <1>3, <1>8, <1>9, <1>10, <1>11, <1>12 DEF HelperOutcome

\* A process that has left with a result.
LEMMA LeftGoesOn ==
  ASSUME TokensInv, NEW s \in Slots, NEW r \in Roles, NEW t \in Tokens \cup {NoToken},
         helper' = [helper EXCEPT ![s] = Left(s, t)],
         helper[s].op = "cleanup" => attempts'[r].state = "absent",
         helper[s].op = "generate" => attempts'[r].state = "generated" /\ attempts'[r].token = t
  PROVE  GoesOn(s, r)
<1>1. helper'[s] = Left(s, t)  BY DEF TokensInv, TokenTypes
<1>2. CASE s = "run"
  <2>1. Left(s, t).pc = "done" /\ Left(s, t).token = t  BY <1>2, EndedProcess
  <2>2. helper'[s].pc = "done" /\ helper'[s].token = t  BY <1>1, <2>1
  <2>3. ~Working(s)'  BY <2>2 DEF Working, Holding
  <2> QED BY <1>2, <2>2, <2>3 DEF GoesOn
<1>3. CASE s = "orphan"
  <2>1. Left(s, t) = NoProcess  BY <1>3, EndedProcess
  <2>2. helper'[s] = NoProcess /\ helper'[s].pc = "idle"  BY <1>1, <2>1 DEF NoProcess
  <2>3. ~Working(s)'  BY <2>2 DEF Working, Holding
  <2> QED BY <1>3, <2>2, <2>3 DEF GoesOn
<1> QED BY <1>2, <1>3 DEF Slots

\* What the holder of an attempt finds, by its operation.
LEMMA HolderFinds ==
  ASSUME TokensInv, NEW s \in Slots, helper[s].pc \in Holding
  PROVE  /\ Working(s) /\ helper[s].role \in Roles /\ helper[s] \in HelperRecords
         /\ attempts[helper[s].role] \in AttemptRecords
         /\ HolderSane(helper[s], attempts[helper[s].role])
         /\ attempts[helper[s].role].state = "generated" => attempts[helper[s].role].token \in Issued
BY DEF TokensInv, TokenTypes, HelperSane, Working, EscrowSane

\* arm writes the armed state and ends.
LEMMA ArmWriteStep ==
  ASSUME TokensInv, NEW s \in Slots, ArmWrite(s)
  PROVE  Working(s) /\ helper[s].role \in Roles /\ HelperOutcome(s, helper[s].role)
<1>1. helper[s].pc \in Holding  BY DEF ArmWrite, Holding
<1>2. PICK g, r, b : g = helper[s] /\ r = helper[s].role /\ b = attempts[r]  OBVIOUS
<1>3. /\ Working(s) /\ r \in Roles /\ g \in HelperRecords /\ b \in AttemptRecords
      /\ g.op = "arm" /\ b.state = "empty"
  BY <1>1, <1>2, HolderFinds DEF HolderSane, ArmHolds, ArmWrite
<1>4. PICK a : a = [b EXCEPT !.state = "armed"]  OBVIOUS
<1>5. a \in AttemptRecords /\ a.state = "armed" /\ a.token = b.token  BY <1>3, <1>4 DEF AttemptRecords
<1>6. PICK t : t = g.token  OBVIOUS
<1>7. t \in Tokens \cup {NoToken}  BY <1>3, <1>6 DEF HelperRecords
<1>8. PICK h : h = Left(s, t)  OBVIOUS
<1>9. h \in HelperRecords /\ h.pc \notin AtWork  BY <1>7, <1>8, EndedProcess
<1>10. h.pc \notin {"open", "lock", "revoke"} /\ h.pc \notin Holding  BY <1>9 DEF AtWork, Holding
<1>11. /\ helper' = [helper EXCEPT ![s] = h] /\ attempts' = [attempts EXCEPT ![r] = a]
       /\ UNCHANGED <<inodes, live, issued, aliases, nodes, attesting, audited>>
  BY <1>2, <1>4, <1>6, <1>8 DEF ArmWrite, Exit, Left
<1>12. GoesOn(s, r)  BY <1>2, <1>3, <1>7, <1>8, <1>11, LeftGoesOn
<1>13. HelperOutcome(s, r)
  BY <1>1, <1>2, <1>3, <1>5, <1>9, <1>10, <1>11, <1>12, HolderWrites
<1> QED BY <1>2, <1>3, <1>13

\* generate truncates the attempt.
LEMMA TruncateEscrowStep ==
  ASSUME TokensInv, NEW s \in Slots, TruncateEscrow(s)
  PROVE  Working(s) /\ helper[s].role \in Roles /\ HelperOutcome(s, helper[s].role)
<1>1. helper[s].pc \in Holding  BY DEF TruncateEscrow, Holding
<1>2. PICK g, r, b : g = helper[s] /\ r = helper[s].role /\ b = attempts[r]  OBVIOUS
<1>3. /\ Working(s) /\ r \in Roles /\ g \in HelperRecords /\ b \in AttemptRecords
      /\ g.op = "generate" /\ b.state = "armed" /\ g.token \in Issued /\ g.ino = b.ino
  BY <1>1, <1>2, HolderFinds DEF HolderSane, GenerateHolds, TruncateEscrow
<1>4. PICK a : a = [b EXCEPT !.state = "empty"]  OBVIOUS
<1>5. a \in AttemptRecords /\ a.state = "empty" /\ a.token = b.token /\ a.ino = b.ino
  BY <1>3, <1>4 DEF AttemptRecords
<1>6. PICK h : h = [g EXCEPT !.pc = "write"]  OBVIOUS
<1>7. h \in HelperRecords /\ h.pc = "write" /\ h.role = r /\ h.op = g.op /\ h.token = g.token /\ h.ino = g.ino
  BY <1>2, <1>3, <1>6 DEF HelperRecords, Holding
<1>8. /\ helper' = [helper EXCEPT ![s] = h] /\ attempts' = [attempts EXCEPT ![r] = a]
      /\ UNCHANGED <<inodes, live, issued, aliases, nodes, attesting, audited>>
  BY <1>2, <1>4, <1>6 DEF TruncateEscrow, Step
<1>9. HolderSane(h, a)  BY <1>3, <1>5, <1>7 DEF HolderSane, GenerateHolds
<1>10. helper'[s] = h  BY <1>8 DEF TokensInv, TokenTypes
<1>11. GoesOn(s, r)  BY <1>2, <1>7, <1>10 DEF GoesOn, Working, Holding
<1>12. HelperOutcome(s, r)
  BY <1>1, <1>2, <1>3, <1>5, <1>7, <1>8, <1>9, <1>11, HolderWrites
<1> QED BY <1>2, <1>3, <1>12

\* generate writes the token into the attempt and ends.
LEMMA WriteEscrowStep ==
  ASSUME TokensInv, NEW s \in Slots, WriteEscrow(s)
  PROVE  Working(s) /\ helper[s].role \in Roles /\ HelperOutcome(s, helper[s].role)
<1>1. helper[s].pc \in Holding  BY DEF WriteEscrow, Holding
<1>2. PICK g, r, b : g = helper[s] /\ r = helper[s].role /\ b = attempts[r]  OBVIOUS
<1>3. /\ Working(s) /\ r \in Roles /\ g \in HelperRecords /\ b \in AttemptRecords
      /\ g.op = "generate" /\ b.state = "empty" /\ g.token \in Issued
  BY <1>1, <1>2, HolderFinds DEF HolderSane, GenerateHolds, WriteEscrow
<1>4. PICK t : t = g.token  OBVIOUS
<1>5. t \in Tokens \cup {NoToken}  BY <1>3, <1>4 DEF HelperRecords
<1>6. PICK a0 : a0 = [b EXCEPT !.state = "generated"]  OBVIOUS
<1>7. PICK a : a = [a0 EXCEPT !.token = t]  OBVIOUS
<1>8. a \in AttemptRecords /\ a.state = "generated" /\ a.token = t  BY <1>3, <1>5, <1>6, <1>7 DEF AttemptRecords
<1>9. PICK h : h = Left(s, t)  OBVIOUS
<1>10. h \in HelperRecords /\ h.pc \notin AtWork  BY <1>5, <1>9, EndedProcess
<1>11. h.pc \notin {"open", "lock", "revoke"} /\ h.pc \notin Holding  BY <1>10 DEF AtWork, Holding
<1>12. /\ helper' = [helper EXCEPT ![s] = h]
       /\ UNCHANGED <<inodes, live, issued, aliases, nodes, attesting, audited>>
  BY <1>2, <1>4, <1>9 DEF WriteEscrow, Exit, Left
<1>13. attempts' = [attempts EXCEPT ![r] = a]
  <2>1. attempts' = [attempts EXCEPT ![r].state = "generated", ![r].token = t]
    BY <1>2, <1>4 DEF WriteEscrow
  <2>2. attempts \in [Roles -> AttemptRecords]  BY DEF TokensInv, TokenTypes
  <2> QED BY <1>2, <1>3, <1>6, <1>7, <2>1, <2>2
<1>14. attempts'[r] = a  BY <1>3, <1>13 DEF TokensInv, TokenTypes
<1>15. GoesOn(s, r)  BY <1>2, <1>3, <1>5, <1>8, <1>9, <1>12, <1>14, LeftGoesOn
<1>16. HelperOutcome(s, r)
  BY <1>1, <1>2, <1>3, <1>4, <1>8, <1>10, <1>11, <1>12, <1>13, <1>15, HolderWrites
<1> QED BY <1>2, <1>3, <1>16

\* cleanup truncates the attempt it has reconciled.
LEMMA ClearAttemptStep ==
  ASSUME TokensInv, NEW s \in Slots, ClearAttempt(s)
  PROVE  Working(s) /\ helper[s].role \in Roles /\ HelperOutcome(s, helper[s].role)
<1>1. helper[s].pc \in Holding  BY DEF ClearAttempt, Holding
<1>2. PICK g, r, b : g = helper[s] /\ r = helper[s].role /\ b = attempts[r]  OBVIOUS
<1>3. /\ Working(s) /\ r \in Roles /\ g \in HelperRecords /\ b \in AttemptRecords
      /\ g.op = "cleanup" /\ g.ino = b.ino
      /\ b.state = "armed" \/ (b.state = "generated" /\ Retired(b.token))
  BY <1>1, <1>2, HolderFinds DEF HolderSane, CleanupHolds, ClearAttempt
<1>4. PICK a : a = [b EXCEPT !.state = "empty"]  OBVIOUS
<1>5. a \in AttemptRecords /\ a.state = "empty" /\ a.token = b.token /\ a.ino = b.ino
  BY <1>3, <1>4 DEF AttemptRecords
<1>6. PICK h : h = [g EXCEPT !.pc = "unlink"]  OBVIOUS
<1>7. h \in HelperRecords /\ h.pc = "unlink" /\ h.role = r /\ h.op = g.op /\ h.token = g.token /\ h.ino = g.ino
  BY <1>2, <1>3, <1>6 DEF HelperRecords, Holding
<1>8. /\ helper' = [helper EXCEPT ![s] = h] /\ attempts' = [attempts EXCEPT ![r] = a]
      /\ UNCHANGED <<inodes, live, issued, aliases, nodes, attesting, audited>>
  BY <1>2, <1>4, <1>6 DEF ClearAttempt, Step
<1>9. HolderSane(h, a)  BY <1>3, <1>5, <1>7 DEF HolderSane, CleanupHolds
<1>10. helper'[s] = h  BY <1>8 DEF TokensInv, TokenTypes
<1>11. GoesOn(s, r)  BY <1>2, <1>7, <1>10 DEF GoesOn, Working, Holding
<1>12. HelperOutcome(s, r)
  BY <1>1, <1>2, <1>3, <1>5, <1>7, <1>8, <1>9, <1>11, HolderWrites
<1> QED BY <1>2, <1>3, <1>12

\* cleanup removes the path and ends.
LEMMA UnlinkAttemptStep ==
  ASSUME TokensInv, NEW s \in Slots, UnlinkAttempt(s)
  PROVE  Working(s) /\ helper[s].role \in Roles /\ HelperOutcome(s, helper[s].role)
<1>1. helper[s].pc \in Holding  BY DEF UnlinkAttempt, Holding
<1>2. PICK g, r, b : g = helper[s] /\ r = helper[s].role /\ b = attempts[r]  OBVIOUS
<1>3. /\ Working(s) /\ r \in Roles /\ g \in HelperRecords /\ b \in AttemptRecords
      /\ g.op = "cleanup" /\ b.state = "empty"
  BY <1>1, <1>2, HolderFinds DEF HolderSane, CleanupHolds, UnlinkAttempt
<1>4. PICK a : a = NoAttempt  OBVIOUS
<1>5. a \in AttemptRecords /\ a.state = "absent" /\ a.token = NoToken
  BY <1>4 DEF AttemptRecords, NoAttempt
<1>6. PICK t : t = g.token  OBVIOUS
<1>7. t \in Tokens \cup {NoToken}  BY <1>3, <1>6 DEF HelperRecords
<1>8. PICK h : h = Left(s, t)  OBVIOUS
<1>9. h \in HelperRecords /\ h.pc \notin AtWork  BY <1>7, <1>8, EndedProcess
<1>10. h.pc \notin {"open", "lock", "revoke"} /\ h.pc \notin Holding  BY <1>9 DEF AtWork, Holding
<1>11. /\ helper' = [helper EXCEPT ![s] = h] /\ attempts' = [attempts EXCEPT ![r] = a]
       /\ UNCHANGED <<inodes, live, issued, aliases, nodes, attesting, audited>>
  BY <1>2, <1>4, <1>6, <1>8 DEF UnlinkAttempt, Exit, Left
<1>12. attempts'[r] = a  BY <1>3, <1>11 DEF TokensInv, TokenTypes
<1>13. GoesOn(s, r)  BY <1>2, <1>3, <1>5, <1>7, <1>8, <1>11, <1>12, LeftGoesOn
<1>14. HelperOutcome(s, r)
  BY <1>1, <1>2, <1>3, <1>5, <1>9, <1>10, <1>11, <1>13, HolderWrites
<1> QED BY <1>2, <1>3, <1>14

\* A holder's step on the server's records, which leaves the attempt as it is.
LEMMA HolderCalls ==
  ASSUME TokensInv, NEW s \in Slots, helper[s].pc \in Holding, NEW r \in Roles, helper[s].role = r,
         NEW h \in HelperRecords, helper' = [helper EXCEPT ![s] = h],
         UNCHANGED <<attempts, inodes>>, ServerSane', Forward, issued' <= MaxTokens,
         attesting' \in [role : Roles \cup {NoToken}, token : Tokens \cup {NoToken}, delay : Nat],
         NEW t \in Issued' \cup {NoToken}, aliases' = [aliases EXCEPT ![r] = t],
         t \in OwnTokens(r) \cup {NoToken} \cup (Issued' \ Issued),
         h.token \in OwnTokens(r) \cup {NoToken} \cup (Issued' \ Issued),
         h.pc \in Holding \ {"revoke"}, h.role = r, h.op = helper[s].op,
         HolderSane(h, attempts[r])',
         t \in {aliases[r], NoToken} \/ h.op = "generate",
         nodes \ nodes' \subseteq {helper[s].token}
  PROVE  HelperOutcome(s, r)
<1>1. Working(s) /\ HelperSane(s) /\ TokenTypes /\ EscrowSane /\ HolderSane(helper[s], attempts[r])
  BY HolderFinds DEF TokensInv
<1>2. Issued \subseteq Issued'  BY <1>1 DEF Forward, TokenTypes, Issued
<1>3. aliases' \in [Roles -> Issued' \cup {NoToken}] /\ aliases'[r] = t
  BY <1>1, <1>2 DEF TokenTypes
<1>4. \A q \in Roles \ {r} : attempts'[q] = attempts[q] /\ aliases'[q] = aliases[q]
  BY <1>1 DEF TokenTypes
<1>5. \A o \in Slots \ {s} : ~(helper[o].pc \in Holding /\ helper[o].role = r)
  BY OnlyHolder
<1>6. attempts'[r].state = "generated" => attempts'[r].token \in Issued'  BY <1>1, <1>2 DEF EscrowSane
<1>7. attempts[r].token \in OwnTokens(r) \cup {NoToken} /\ h.op # "none"
  BY <1>1 DEF OwnTokens, HelperSane
<1>8. TokensInv'
  <2>1. attempts' \in [Roles -> AttemptRecords] /\ inodes' \in Nat  BY <1>1 DEF TokenTypes
  <2>2. h.pc \in AtWork =>
          h.role = r /\ h.op # "none" /\ h.token \in OwnTokens(r) \cup {NoToken} \cup (Issued' \ Issued)
    BY <1>7
  <2>3. h.pc \in {"open", "lock", "revoke"} => h.reads = 0  BY DEF Holding
  <2>4. {aliases'[r], attempts'[r].token} \subseteq OwnTokens(r) \cup {NoToken} \cup (Issued' \ Issued)
    BY <1>3, <1>7
  <2> QED BY <1>1, <1>3, <1>4, <1>5, <1>6, <2>1, <2>2, <2>3, <2>4, HelperMove
<1>9. helper'[s] = h /\ \A o \in Slots \ {s} : helper'[o] = helper[o]  BY <1>1 DEF TokenTypes
<1>10. EscrowKept  BY DEF EscrowKept
<1>11. AbsenceKept(s, r)
  <2>1. helper[s].op \in {"arm", "generate", "cleanup"}  BY <1>1 DEF HelperSane, TokenTypes, HelperRecords
  <2>2. attempts[r].state # "absent"
    BY <1>1, <2>1 DEF HolderSane, ArmHolds, GenerateHolds, CleanupHolds
  <2> QED BY <2>2 DEF AbsenceKept
<1>12. GoesOn(s, r)  BY <1>9 DEF GoesOn, Working
<1> QED BY <1>3, <1>4, <1>8, <1>9, <1>10, <1>11, <1>12 DEF HelperOutcome

\* The server issues a token nobody has seen, for the alias of the role.
LEMMA IssueTokenStep ==
  ASSUME TokensInv, NEW s \in Slots, IssueToken(s)
  PROVE  Working(s) /\ helper[s].role \in Roles /\ HelperOutcome(s, helper[s].role)
<1>1. helper[s].pc \in Holding  BY DEF IssueToken, Holding
<1>2. PICK g, r, b : g = helper[s] /\ r = helper[s].role /\ b = attempts[r]  OBVIOUS
<1>3. /\ Working(s) /\ r \in Roles /\ g \in HelperRecords /\ b \in AttemptRecords
      /\ g.op = "generate" /\ b.state = "armed" /\ g.ino = b.ino
  BY <1>1, <1>2, HolderFinds DEF HolderSane, GenerateHolds, IssueToken
<1>4. PICK t : t = issued + 1  OBVIOUS
<1>5. /\ issued \in Nat /\ issued < MaxTokens /\ t \in Nat /\ issued' = t /\ live' = live \cup {t}
      /\ aliases' = [aliases EXCEPT ![r] = t]
      /\ UNCHANGED <<attempts, inodes, nodes, attesting, audited>>
  BY <1>2, <1>4 DEF IssueToken, TokensInv, TokenTypes
<1>6. t \in Issued' \ Issued /\ Issued' = Issued \cup {t} /\ issued' <= MaxTokens /\ t \in Tokens
  BY <1>4, <1>5, TokenFacts DEF Issued
<1>7. TokenTypes /\ ServerSane  BY DEF TokensInv
<1>8. ServerSane'
  <2>1. live' \subseteq Issued' /\ nodes' \subseteq Issued'  BY <1>5, <1>6, <1>7 DEF ServerSane
  <2>2. live' \cap nodes' = {}  BY <1>5, <1>6, <1>7 DEF ServerSane
  <2>3. attesting' # NoAttestation =>
          /\ attesting'.role \in Roles /\ attesting'.delay <= StableReads - 1
          /\ attesting'.token \in Issued' \ (live' \cup nodes')
    BY <1>5, <1>6, <1>7 DEF ServerSane
  <2> QED BY <2>1, <2>2, <2>3 DEF ServerSane
<1>9. Forward  BY <1>4, <1>5, <1>6, <1>7 DEF Forward, TokenTypes
<1>10. PICK h : h = [g EXCEPT !.pc = "truncate", !.token = t]  OBVIOUS
<1>11. h \in HelperRecords /\ h.pc = "truncate" /\ h.role = r /\ h.op = g.op /\ h.token = t /\ h.ino = g.ino
  BY <1>2, <1>3, <1>6, <1>10 DEF HelperRecords, Holding
<1>12. helper' = [helper EXCEPT ![s] = h]  BY <1>2, <1>4, <1>10 DEF IssueToken
<1>13. HolderSane(h, attempts[r])'
  BY <1>2, <1>3, <1>5, <1>6, <1>11 DEF HolderSane, GenerateHolds
<1>14. HelperOutcome(s, r)
  <2>1. h.pc \in Holding \ {"revoke"}  BY <1>11 DEF Holding
  <2>2. attesting' \in [role : Roles \cup {NoToken}, token : Tokens \cup {NoToken}, delay : Nat]
    BY <1>5, <1>7 DEF TokenTypes
  <2>3. nodes \ nodes' \subseteq {helper[s].token} /\ UNCHANGED <<attempts, inodes>>  BY <1>5
  <2>4. h.token \in OwnTokens(r) \cup {NoToken} \cup (Issued' \ Issued) /\ h.op = helper[s].op /\ h.op = "generate"
    BY <1>2, <1>3, <1>6, <1>11
  <2> QED BY <1>1, <1>2, <1>3, <1>5, <1>6, <1>8, <1>9, <1>11, <1>12, <1>13, <2>1, <2>2, <2>3, <2>4, HolderCalls
<1> QED BY <1>2, <1>3, <1>14

\* cleanup deletes the token, consumed or not.
LEMMA RevokeTokenStep ==
  ASSUME TokensInv, NEW s \in Slots, RevokeToken(s)
  PROVE  Working(s) /\ helper[s].role \in Roles /\ HelperOutcome(s, helper[s].role)
<1>1. helper[s].pc \in Holding  BY DEF RevokeToken, Holding
<1>2. PICK g, r, b : g = helper[s] /\ r = helper[s].role /\ b = attempts[r]  OBVIOUS
<1>3. /\ Working(s) /\ r \in Roles /\ g \in HelperRecords /\ b \in AttemptRecords
      /\ g.op = "cleanup" /\ b.state = "generated" /\ b.token = g.token /\ g.ino = b.ino
      /\ g.token \in Issued
  BY <1>1, <1>2, HolderFinds DEF HolderSane, CleanupHolds, RevokeToken
<1>4. g.reads = 0  BY <1>2 DEF TokensInv, HelperSane, RevokeToken
<1>5. PICK pc : pc = IF g.verified THEN "kept" ELSE "absent"  OBVIOUS
<1>6. PICK h : h = [g EXCEPT !.pc = pc]  OBVIOUS
<1>7. /\ h \in HelperRecords /\ h.pc = pc /\ h.role = r /\ h.op = g.op /\ h.token = g.token
      /\ h.ino = g.ino /\ h.reads = 0
  BY <1>2, <1>3, <1>4, <1>5, <1>6 DEF HelperRecords, Holding
<1>8. /\ helper' = [helper EXCEPT ![s] = h] /\ live' = live \ {g.token}
      /\ UNCHANGED <<attempts, inodes, issued, aliases, nodes, attesting, audited>>
  BY <1>2, <1>5, <1>6 DEF RevokeToken, Step
<1>9. TokenTypes /\ ServerSane  BY DEF TokensInv
<1>10. Issued' = Issued /\ issued' <= MaxTokens  BY <1>8, <1>9 DEF Issued, TokenTypes
<1>11. ServerSane'  BY <1>8, <1>9, <1>10 DEF ServerSane
<1>12. Forward  BY <1>8, <1>9 DEF Forward, TokenTypes
<1>13. HolderSane(h, attempts[r])'
  <2>1. attesting.token = g.token => attesting.delay <= StableReads - 1 /\ attesting.delay \in Nat
    <3>1. ASSUME attesting.token = g.token PROVE attesting # NoAttestation
      BY <1>3, <1>9, <3>1, IssuedTokens DEF NoAttestation
    <3> QED BY <1>9, <3>1 DEF ServerSane, TokenTypes
  <2>2. CleanupHolds(h, attempts[r])'
    BY <1>2, <1>3, <1>5, <1>7, <1>8, <2>1, TokenFacts DEF CleanupHolds
  <2> QED BY <1>2, <1>3, <1>7, <1>8, <2>2 DEF HolderSane
<1>14. HelperOutcome(s, r)
  <2>1. h.pc \in Holding \ {"revoke"}  BY <1>5, <1>7 DEF Holding
  <2>2. attesting' \in [role : Roles \cup {NoToken}, token : Tokens \cup {NoToken}, delay : Nat]
    BY <1>8, <1>9 DEF TokenTypes
  <2>3. nodes \ nodes' \subseteq {helper[s].token} /\ UNCHANGED <<attempts, inodes>>  BY <1>8
  <2>4. h.token \in OwnTokens(r) \cup {NoToken} /\ h.op = helper[s].op
    BY <1>2, <1>3, <1>7 DEF OwnTokens
  <2>5. PICK t : t = aliases[r]  OBVIOUS
  <2>6. t \in Issued' \cup {NoToken} /\ t \in OwnTokens(r) \cup {NoToken}
    BY <1>3, <1>9, <1>10, <2>5 DEF TokenTypes, OwnTokens
  <2>7. aliases' = [aliases EXCEPT ![r] = t]  BY <1>3, <1>8, <1>9, <2>5 DEF TokenTypes
  <2> QED BY <1>1, <1>2, <1>3, <1>7, <1>8, <1>10, <1>11, <1>12, <1>13, <2>1, <2>2, <2>3, <2>4, <2>5, <2>6, <2>7, HolderCalls
<1> QED BY <1>2, <1>3, <1>14

\* cleanup finds the agent and the alias of a verified bootstrap.
LEMMA KeepVerifiedStep ==
  ASSUME TokensInv, NEW s \in Slots, KeepVerified(s)
  PROVE  Working(s) /\ helper[s].role \in Roles /\ HelperOutcome(s, helper[s].role)
<1>1. helper[s].pc \in Holding  BY DEF KeepVerified, Holding
<1>2. PICK g, r, b : g = helper[s] /\ r = helper[s].role /\ b = attempts[r]  OBVIOUS
<1>3. /\ Working(s) /\ r \in Roles /\ g \in HelperRecords /\ b \in AttemptRecords
      /\ g.op = "cleanup" /\ b.state = "generated" /\ b.token = g.token /\ g.ino = b.ino
      /\ g.token \in Issued /\ g.token \notin live
  BY <1>1, <1>2, HolderFinds DEF HolderSane, CleanupHolds, KeepVerified
<1>4. PICK h : h = [g EXCEPT !.pc = "clear"]  OBVIOUS
<1>5. h \in HelperRecords /\ h.pc = "clear" /\ h.role = r /\ h.op = g.op /\ h.token = g.token /\ h.ino = g.ino
  BY <1>2, <1>3, <1>4 DEF HelperRecords, Holding
<1>6. /\ helper' = [helper EXCEPT ![s] = h] /\ audited' = audited \cup {g.token} /\ g.token \in nodes
      /\ UNCHANGED <<attempts, inodes, live, issued, aliases, nodes, attesting>>
  BY <1>2, <1>4 DEF KeepVerified, Step, AgentPresent
<1>7. TokenTypes /\ ServerSane  BY DEF TokensInv
<1>8. Issued' = Issued /\ issued' <= MaxTokens  BY <1>6, <1>7 DEF Issued, TokenTypes
<1>9. ServerSane'  BY <1>6, <1>7, <1>8 DEF ServerSane
<1>10. Forward  BY <1>6, <1>7 DEF Forward, TokenTypes
<1>11. HolderSane(h, attempts[r])'
  <2>1. attesting.token # g.token
    <3>1. ASSUME attesting.token = g.token PROVE attesting # NoAttestation
      BY <1>3, <1>7, <3>1, IssuedTokens DEF NoAttestation
    <3> QED BY <1>6, <1>7, <3>1 DEF ServerSane
  <2>2. Retired(b.token)'  BY <1>3, <1>6, <2>1 DEF Retired
  <2>3. CleanupHolds(h, attempts[r])'
    BY <1>2, <1>3, <1>5, <1>6, <2>2 DEF CleanupHolds
  <2> QED BY <1>2, <1>3, <1>5, <1>6, <2>3 DEF HolderSane
<1>12. HelperOutcome(s, r)
  <2>1. h.pc \in Holding \ {"revoke"}  BY <1>5 DEF Holding
  <2>2. attesting' \in [role : Roles \cup {NoToken}, token : Tokens \cup {NoToken}, delay : Nat]
    BY <1>6, <1>7 DEF TokenTypes
  <2>3. nodes \ nodes' \subseteq {helper[s].token} /\ UNCHANGED <<attempts, inodes>>  BY <1>6
  <2>4. h.token \in OwnTokens(r) \cup {NoToken} /\ h.op = helper[s].op
    BY <1>2, <1>3, <1>5 DEF OwnTokens
  <2>5. PICK t : t = aliases[r]  OBVIOUS
  <2>6. t \in Issued' \cup {NoToken} /\ t \in OwnTokens(r) \cup {NoToken}
    BY <1>3, <1>7, <1>8, <2>5 DEF TokenTypes, OwnTokens
  <2>7. aliases' = [aliases EXCEPT ![r] = t]  BY <1>3, <1>6, <1>7, <2>5 DEF TokenTypes
  <2> QED BY <1>1, <1>2, <1>3, <1>5, <1>6, <1>8, <1>9, <1>10, <1>11, <2>1, <2>2, <2>3, <2>4, <2>5, <2>6, <2>7, HolderCalls
<1> QED BY <1>2, <1>3, <1>12

\* One read of the reconciliation: an attestation under way ends before the reads suffice.
LEMMA ReconcileAbsenceStep ==
  ASSUME TokensInv, NEW s \in Slots, ReconcileAbsence(s)
  PROVE  Working(s) /\ helper[s].role \in Roles /\ HelperOutcome(s, helper[s].role)
<1>1. helper[s].pc \in Holding  BY DEF ReconcileAbsence, Holding
<1>2. PICK g, r, b : g = helper[s] /\ r = helper[s].role /\ b = attempts[r]  OBVIOUS
<1>3. /\ Working(s) /\ r \in Roles /\ g \in HelperRecords /\ b \in AttemptRecords
      /\ g.op = "cleanup" /\ b.state = "generated" /\ b.token = g.token /\ g.ino = b.ino
      /\ g.token \in Issued /\ g.token \notin live
      /\ attesting.token = g.token => g.reads + attesting.delay <= StableReads - 1
  BY <1>1, <1>2, HolderFinds DEF HolderSane, CleanupHolds, ReconcileAbsence
<1>4. TokenTypes /\ ServerSane  BY DEF TokensInv
<1>5. PICK n : n = ReadsAfter(s)  OBVIOUS
<1>6. g.reads \in Nat /\ n \in Nat /\ n <= g.reads + 1
  BY <1>2, <1>3, <1>5 DEF ReadsAfter, HelperRecords
<1>7. PICK pc : pc = IF n >= StableReads THEN "clear" ELSE "absent"  OBVIOUS
<1>8. PICK h : h = [g EXCEPT !.reads = n, !.pc = pc]  OBVIOUS
<1>9. /\ h \in HelperRecords /\ h.pc = pc /\ h.role = r /\ h.op = g.op /\ h.token = g.token
      /\ h.ino = g.ino /\ h.reads = n
  BY <1>2, <1>3, <1>6, <1>7, <1>8 DEF HelperRecords, Holding
<1>10. helper' = [helper EXCEPT ![s] = h]
  BY <1>2, <1>5, <1>7, <1>8 DEF ReconcileAbsence
<1>11. /\ nodes' = nodes \ {g.token} /\ UNCHANGED <<attempts, inodes, live, issued, audited>>
       /\ attesting.token = g.token => attesting.delay > 0
       /\ attesting' = IF attesting.token = g.token THEN [attesting EXCEPT !.delay = @ - 1] ELSE attesting
  BY <1>2 DEF ReconcileAbsence
<1>12. PICK t : t = IF aliases[r] = g.token THEN NoToken ELSE aliases[r]  OBVIOUS
<1>13. aliases' = [aliases EXCEPT ![r] = t]  BY <1>2, <1>12 DEF ReconcileAbsence
<1>14. Issued' = Issued /\ issued' <= MaxTokens  BY <1>4, <1>11 DEF Issued, TokenTypes
<1>15. /\ attesting'.role = attesting.role /\ attesting'.token = attesting.token
       /\ attesting'.delay \in Nat /\ attesting'.delay <= attesting.delay
       /\ attesting.token = g.token => attesting'.delay = attesting.delay - 1
       /\ attesting' \in [role : Roles \cup {NoToken}, token : Tokens \cup {NoToken}, delay : Nat]
  <2>1. attesting \in [role : Roles \cup {NoToken}, token : Tokens \cup {NoToken}, delay : Nat]
    BY <1>4 DEF TokenTypes
  <2>2. CASE attesting.token = g.token
    <3>1. PICK d : d = attesting.delay - 1  OBVIOUS
    <3>2. d \in Nat /\ d <= attesting.delay  BY <1>11, <2>1, <2>2, <3>1
    <3>3. attesting' = [attesting EXCEPT !.delay = d]  BY <1>11, <2>1, <2>2, <3>1
    <3> QED BY <2>1, <3>1, <3>2, <3>3
  <2>3. CASE attesting.token # g.token  BY <1>11, <2>1, <2>3
  <2> QED BY <2>2, <2>3
<1>16. attesting' # NoAttestation => attesting # NoAttestation
  BY <1>3, <1>4, <1>11, IssuedTokens DEF NoAttestation
<1>17. ServerSane'
  <2>1. live' \subseteq Issued' /\ nodes' \subseteq Issued' /\ live' \cap nodes' = {}
    BY <1>4, <1>11, <1>14 DEF ServerSane
  <2>2. ASSUME attesting' # NoAttestation
        PROVE  /\ attesting'.role \in Roles /\ attesting'.delay <= StableReads - 1
               /\ attesting'.token \in Issued' \ (live' \cup nodes')
    <3>1. /\ attesting.role \in Roles /\ attesting.delay <= StableReads - 1
          /\ attesting.token \in Issued \ (live \cup nodes)
      BY <1>4, <1>16, <2>2 DEF ServerSane
    <3>2. attesting.delay \in Nat  BY <1>4 DEF TokenTypes
    <3> QED BY <1>11, <1>14, <1>15, <3>1, <3>2, TokenFacts
  <2> QED BY <2>1, <2>2 DEF ServerSane
<1>18. Forward  BY <1>4, <1>11, <1>15 DEF Forward, TokenTypes
<1>19. HolderSane(h, attempts[r])'
  <2>1. attesting.delay \in Nat  BY <1>4 DEF TokenTypes
  <2>2. attesting'.token = g.token => n + attesting'.delay <= StableReads - 1 /\ n < StableReads
    BY <1>3, <1>6, <1>11, <1>15, <2>1, TokenFacts
  <2>3. pc = "clear" => Retired(b.token)'
    BY <1>3, <1>6, <1>7, <1>11, <2>2, TokenFacts DEF Retired
  <2>4. CleanupHolds(h, attempts[r])'
    BY <1>2, <1>3, <1>7, <1>9, <1>11, <2>2, <2>3 DEF CleanupHolds
  <2> QED BY <1>2, <1>3, <1>9, <1>11, <2>4 DEF HolderSane
<1>20. HelperOutcome(s, r)
  <2>1. h.pc \in Holding \ {"revoke"}  BY <1>7, <1>9 DEF Holding
  <2>2. nodes \ nodes' \subseteq {helper[s].token} /\ UNCHANGED <<attempts, inodes>>  BY <1>2, <1>11
  <2>3. h.token \in OwnTokens(r) \cup {NoToken} /\ h.op = helper[s].op
    BY <1>2, <1>3, <1>9 DEF OwnTokens
  <2>4. /\ t \in Issued' \cup {NoToken} /\ t \in OwnTokens(r) \cup {NoToken}
        /\ t \in {aliases[r], NoToken}
    BY <1>3, <1>4, <1>12, <1>14 DEF TokenTypes, OwnTokens
  <2> QED BY <1>1, <1>2, <1>3, <1>9, <1>10, <1>13, <1>14, <1>15, <1>17, <1>18, <1>19, <2>1, <2>2, <2>3, <2>4, HolderCalls
<1> QED BY <1>2, <1>3, <1>20

\* Every step of a helper process.
LEMMA HelperStepOutcome ==
  ASSUME TokensInv, NEW s \in Slots, HelperStep(s)
  PROVE  Working(s) /\ helper[s].role \in Roles /\ HelperOutcome(s, helper[s].role)
BY ArmCreateStep, ArmWriteStep, OpenAttemptStep, LockToGenerateStep, IssueTokenStep, TruncateEscrowStep,
   WriteEscrowStep, CleanupNoAttemptStep, LockToCleanupStep, RevokeTokenStep, KeepVerifiedStep,
   ReconcileAbsenceStep, ClearAttemptStep, UnlinkAttemptStep, EndHelperStep
   DEF HelperStep

----------------------------------------------------------------------------
(***************************************************************************)
(* The helpers and the agents run beside the deployment.                   *)
(***************************************************************************)
\* What is covered stays covered.
LEMMA CoveredStays ==
  ASSUME TokenTypes, Forward, EscrowKept, NEW r \in Roles, NEW t, Covered(r, t)
  PROVE  Covered(r, t)'
<1>1. CASE t = NoToken  BY <1>1 DEF Covered
<1>2. CASE t \in Issued /\ Retired(t)  BY <1>2, RetiredStays DEF Covered
<1>3. CASE t \in Issued /\ attempts[r].state = "generated" /\ attempts[r].token = t
  <2>1. t \in Issued'  BY <1>3 DEF Forward, Issued, TokenTypes
  <2>2. CASE attempts'[r] = attempts[r]  BY <1>3, <2>1, <2>2 DEF Covered
  <2>3. CASE Retired(t)  BY <1>3, <2>3, RetiredStays DEF Covered
  <2> QED BY <1>3, <2>2, <2>3 DEF EscrowKept
<1> QED BY <1>1, <1>2, <1>3 DEF Covered

\* A helper leaves the attestation to the server, but for its deadline.
LEMMA AttestationLeft ==
  ASSUME TokenTypes, NEW s \in Slots, HelperStep(s)
  PROVE  attesting'.role = attesting.role /\ attesting'.token = attesting.token
<1>1. attesting \in [role : Roles \cup {NoToken}, token : Tokens \cup {NoToken}, delay : Nat]
  BY DEF TokenTypes
<1>2. CASE ReconcileAbsence(s)  BY <1>1, <1>2 DEF ReconcileAbsence
<1>3. CASE UNCHANGED attesting  BY <1>3
<1>4. ReconcileAbsence(s) \/ UNCHANGED attesting
  BY DEF HelperStep, ArmCreate, ArmWrite, OpenAttempt, LockToGenerate, IssueToken, TruncateEscrow,
     WriteEscrow, CleanupNoAttempt, LockToCleanup, RevokeToken, KeepVerified, ClearAttempt,
     UnlinkAttempt, EndHelper
<1> QED BY <1>2, <1>3, <1>4

\* No helper takes an audited alias away, its own role's included: for a new attempt the
\* alias is in the way.
LEMMA AdmittedStays ==
  ASSUME TokensInv, NEW s \in Slots, Working(s), NEW q \in Roles, helper[s].role = q,
         HelperOutcome(s, q), NEW r \in Roles, Admitted(r)
  PROVE  Admitted(r)'
<1>1. aliases[r] \in Issued /\ aliases[r] # NoToken
  BY IssuedTokens DEF Admitted, TokensInv, ServerSane
<1>2. CASE q # r
  <2>1. helper[s].token \in OwnTokens(q) \cup {NoToken} /\ aliases[r] \in OwnTokens(r)
    BY <1>1 DEF OwnTokens
  <2>2. aliases[r] # helper[s].token  BY <1>1, <1>2, <2>1 DEF TokensInv, OwnersApart
  <2> QED BY <1>2, <2>2 DEF Admitted, HelperOutcome, Forward
<1>3. CASE q = r
  BY <1>1, <1>3 DEF Admitted, HelperOutcome, Forward, AbsenceKept
<1> QED BY <1>2, <1>3

\* A helper the deployment has lost issues nothing for a role whose attempt is over.
LEMMA UnissuedStays ==
  ASSUME TokensInv, Working("orphan"), NEW q \in Roles, helper["orphan"].role = q,
         HelperOutcome("orphan", q), NEW r \in Roles, Unissued(r)
  PROVE  Unissued(r)'
<1>1. PICK h : h = helper'["orphan"]  OBVIOUS
<1>2. (h.op = helper["orphan"].op /\ h.role = q) \/ h = NoProcess
  BY <1>1 DEF HelperOutcome, GoesOn
<1>3. NoProcess.op = "none"  BY DEF NoProcess
<1>4. CASE q # r  BY <1>1, <1>2, <1>3, <1>4 DEF Unissued, HelperOutcome
<1>5. CASE q = r
  <2>1. CASE attempts[r].state = "absent"
    BY <1>1, <1>2, <1>3, <1>5, <2>1 DEF Unissued, HelperOutcome, AbsenceKept
  <2>2. CASE aliases[r] = NoToken /\ helper["orphan"].op # "generate"
    <3>1. aliases'[r] = NoToken  BY <1>5, <2>2 DEF HelperOutcome
    <3>2. h.op # "generate"  BY <1>2, <1>3, <2>2
    <3> QED BY <1>1, <3>1, <3>2 DEF Unissued
  <2> QED BY <1>5, <2>1, <2>2 DEF Unissued
<1> QED BY <1>4, <1>5

\* An agent asks with the token it had, with the one on its host, or with none.
AsksKnown ==
  /\ asking' \in [Roles -> Tokens \cup {NoToken}]
  /\ \A r \in Roles : asking'[r] \in {asking[r], tokenFile[r], NoToken}

\* What it asks with stays covered.
LEMMA AskingCovered ==
  ASSUME TokenTypes, WayInCovered, TokensInv', Forward, EscrowKept, AsksKnown
  PROVE  \A r \in Roles : Covered(r, asking[r])'
<1> SUFFICES ASSUME NEW r \in Roles PROVE Covered(r, asking[r])'  OBVIOUS
<1>1. PICK t : t = asking'[r]  OBVIOUS
<1>2. Covered(r, t)  BY <1>1 DEF WayInCovered, AsksKnown, Covered
<1>3. Covered(r, t)'  BY <1>2, CoveredStays
<1> QED BY <1>1, <1>3 DEF Covered

\* The role a deployment is at is one of the roles.
LEMMA RoleIsRole ==
  ASSUME NEW n \in DOMAIN RoleOrder
  PROVE  RoleOrder[n] \in Roles
BY DeploymentAssumption

\* A step of a helper process preserves the invariant.
LEMMA HelperRunsStep ==
  ASSUME BootstrapInv, AsksKnown, NEW s \in Slots, HelperRuns(s)
  PROVE  BootstrapInv'
<1>1. TokensInv /\ TokenTypes /\ WayInCovered /\ DeploymentSane /\ AuditsStand
  BY DEF BootstrapInv, TokensInv
<1>2. PICK q : q = helper[s].role  OBVIOUS
<1>3. HelperStep(s) /\ UNCHANGED <<tokenFile, svid, dep>>  BY DEF HelperRuns, HostsKeep, hostVars
<1>4. Working(s) /\ q \in Roles /\ HelperOutcome(s, q)  BY <1>1, <1>2, <1>3, HelperStepOutcome
<1>5. TokensInv' /\ Forward /\ EscrowKept  BY <1>4 DEF HelperOutcome
<1>6. Role' = Role /\ Role \in Roles  BY <1>1, <1>3, RoleIsRole DEF Role, DeploymentSane
<1>7. s = "run" => dep.pc \in Waits /\ helper["run"].op = WaitsFor(dep.pc) /\ q = Role
  <2>1. NoProcess.pc = "idle"  BY DEF NoProcess
  <2> QED BY <1>1, <1>2, <1>4, <2>1 DEF DeploymentSane, Working, Holding
<1>8. s # "run" => s = "orphan" /\ helper'["run"] = helper["run"]
  BY <1>4 DEF HelperOutcome, Slots
<1>9. WayInCovered'
  <2>1. \A r \in Roles : Covered(r, tokenFile[r])' /\ Covered(r, svid[r])'
    BY <1>1, <1>3, <1>5, CoveredStays DEF WayInCovered
  <2>2. attesting' # NoAttestation => Covered(attesting.role, attesting.token)'
    <3> SUFFICES ASSUME attesting' # NoAttestation PROVE Covered(attesting.role, attesting.token)'
      OBVIOUS
    <3>1. attesting'.role = attesting.role /\ attesting'.token = attesting.token
      BY <1>1, <1>3, AttestationLeft
    <3>2. attesting'.role \in Roles  BY <1>5 DEF TokensInv, ServerSane
    <3>3. attesting # NoAttestation
      BY <3>1, <3>2, TokenFacts DEF NoAttestation
    <3> QED BY <1>1, <1>5, <3>1, <3>2, <3>3, CoveredStays DEF WayInCovered
  <2>3. dep'.pc = "deliver" => Covered(Role, dep.token)'
    BY <1>1, <1>3, <1>5, <1>6, CoveredStays DEF WayInCovered
  <2>4. ASSUME dep'.pc = "generated", helper'["run"].pc = "done" PROVE Covered(Role, helper["run"].token)'
    <3>1. CASE s = "run"
      <4>1. ~Working("run")'  BY <2>4 DEF Working, Holding
      <4>2. helper["run"].op = "generate" /\ q = Role
        BY <1>3, <1>7, <2>4, <3>1 DEF WaitsFor
      <4>3. attempts'[Role].state = "generated" /\ attempts'[Role].token = helper'["run"].token
        BY <1>4, <2>4, <3>1, <4>1, <4>2 DEF HelperOutcome, GoesOn
      <4>4. attempts'[Role].token \in Issued'  BY <1>5, <1>6, <4>3 DEF TokensInv, EscrowSane
      <4> QED BY <1>6, <4>3, <4>4 DEF Covered
    <3>2. CASE s # "run"
      BY <1>1, <1>3, <1>5, <1>6, <1>8, <2>4, <3>2, CoveredStays DEF WayInCovered
    <3> QED BY <3>1, <3>2
  <2>5. \A r \in Roles : Covered(r, asking[r])'  BY <1>1, <1>5, AskingCovered
  <2> QED BY <1>1, <1>3, <2>1, <2>2, <2>3, <2>4, <2>5 DEF WayInCovered, AsksKnown
<1>10. DeploymentSane'
  <2>1. DOMAIN dep' = DepFields /\ dep'.at \in DOMAIN RoleOrder /\ dep'.verified \in BOOLEAN
    BY <1>1, <1>3 DEF DeploymentSane
  <2>2. dep'.pc \notin Waits => helper'["run"] = NoProcess
    BY <1>1, <1>3, <1>7, <1>8 DEF DeploymentSane
  <2>3. dep'.pc \in Waits =>
          IF Working("run")' THEN helper'["run"].op = WaitsFor(dep'.pc) /\ helper'["run"].role = Role'
          ELSE helper'["run"].pc \in {"done", "failed"}
    <3>1. CASE s = "run"
      BY <1>3, <1>4, <1>6, <1>7, <3>1 DEF HelperOutcome, GoesOn
    <3>2. CASE s # "run"
      <4>1. Working("run")' = Working("run")  BY <1>8, <3>2 DEF Working
      <4> QED BY <1>1, <1>3, <1>6, <1>8, <3>2, <4>1 DEF DeploymentSane
    <3> QED BY <3>1, <3>2
  <2>4. ASSUME dep'.pc \in {"cleaned", "retained"}, helper'["run"].pc = "done" PROVE Unissued(Role)'
    <3>1. CASE s = "run"
      <4>1. ~Working("run")'  BY <2>4 DEF Working, Holding
      <4>2. helper["run"].op = "cleanup" /\ q = Role
        BY <1>3, <1>7, <2>4, <3>1 DEF WaitsFor
      <4>3. attempts'[Role].state = "absent"
        BY <1>4, <2>4, <3>1, <4>1, <4>2 DEF HelperOutcome, GoesOn
      <4> QED BY <1>6, <4>3 DEF Unissued
    <3>2. CASE s # "run"
      <4>1. Unissued(Role)  BY <1>1, <1>3, <1>8, <2>4, <3>2 DEF DeploymentSane
      <4>2. Unissued(RoleOrder[dep.at])'  BY <1>1, <1>2, <1>4, <1>6, <1>8, <3>2, <4>1, UnissuedStays DEF Role
      <4> QED BY <1>3, <4>2 DEF Role, Unissued
    <3> QED BY <3>1, <3>2
  <2>5. ASSUME dep'.pc \in AfterCleanup PROVE Unissued(Role)'
    <3>1. s # "run" /\ Unissued(Role)  BY <1>1, <1>3, <1>7, <2>5 DEF DeploymentSane, Waits, AfterCleanup
    <3>2. Unissued(RoleOrder[dep.at])'  BY <1>1, <1>2, <1>4, <1>6, <1>8, <3>1, UnissuedStays DEF Role
    <3> QED BY <1>3, <3>2 DEF Role, Unissued
  <2> QED BY <2>1, <2>2, <2>3, <2>4, <2>5 DEF DeploymentSane
<1>11. AuditsStand'
  <2>1. \A r \in Roles : Admitted(r) => Admitted(r)'  BY <1>1, <1>2, <1>4, AdmittedStays
  <2>2. \A i \in 1 .. (dep.at - 1) : RoleOrder[i] \in Roles
    BY <1>1, RoleIsRole, DeploymentAssumption DEF DeploymentSane
  <2> QED BY <1>1, <1>3, <2>1, <2>2 DEF AuditsStand
<1> QED BY <1>5, <1>9, <1>10, <1>11 DEF BootstrapInv

\* The server's own steps leave attempts, aliases and helpers alone.
LEMMA ServerStep ==
  ASSUME TokensInv, UNCHANGED <<attempts, inodes, issued, aliases, helper>>, ServerSane', Forward,
         attesting' \in [role : Roles \cup {NoToken}, token : Tokens \cup {NoToken}, delay : Nat]
  PROVE  TokensInv' /\ EscrowKept
<1>1. TokenTypes' /\ EscrowSane' /\ HeldByOne'
  BY DEF TokensInv, TokenTypes, EscrowSane, HeldByOne, Issued
<1>2. \A s \in Slots : HelperSane(s)'  BY HolderStays
<1>3. OwnersApart'  BY DEF TokensInv, OwnersApart, OwnTokens, Working, Issued
<1> QED BY <1>1, <1>2, <1>3 DEF TokensInv, EscrowKept

\* Such a step, when it only adds agents and changes no deployment.
LEMMA BesideDeployment ==
  ASSUME BootstrapInv, AsksKnown, UNCHANGED <<attempts, aliases, helper, tokenFile, dep>>,
         TokensInv', Forward, EscrowKept, nodes \subseteq nodes',
         svid' \in [Roles -> Tokens \cup {NoToken}],
         \A r \in Roles : svid'[r] # svid[r] => Covered(r, svid[r])',
         attesting' # NoAttestation => Covered(attesting.role, attesting.token)'
  PROVE  BootstrapInv'
<1>1. TokenTypes /\ WayInCovered /\ DeploymentSane /\ AuditsStand  BY DEF BootstrapInv, TokensInv
<1>2. Role' = Role /\ Role \in Roles  BY <1>1, RoleIsRole DEF Role, DeploymentSane
<1>3. \A r \in Roles : Covered(r, tokenFile[r])'  BY <1>1, CoveredStays DEF WayInCovered
<1>4. \A r \in Roles : Covered(r, svid[r])'
  <2> SUFFICES ASSUME NEW r \in Roles PROVE Covered(r, svid[r])'  OBVIOUS
  <2>1. CASE svid'[r] # svid[r]  BY <2>1
  <2>2. CASE svid'[r] = svid[r]  BY <1>1, <2>2, CoveredStays DEF WayInCovered
  <2> QED BY <2>1, <2>2
<1>5. dep.pc = "deliver" => Covered(Role, dep.token)'
  BY <1>1, <1>2, CoveredStays DEF WayInCovered
<1>6. dep.pc = "generated" /\ helper["run"].pc = "done" => Covered(Role, helper["run"].token)'
  BY <1>1, <1>2, CoveredStays DEF WayInCovered
<1>7. WayInCovered'
  <2>1. \A r \in Roles : Covered(r, asking[r])'  BY <1>1, AskingCovered
  <2> QED BY <1>1, <1>3, <1>4, <1>5, <1>6, <2>1 DEF WayInCovered, AsksKnown
<1>8. DeploymentSane'  BY <1>1, <1>2 DEF DeploymentSane, Unissued, Working
<1>9. AuditsStand'  BY <1>1 DEF AuditsStand, Admitted, Forward
<1> QED BY <1>7, <1>8, <1>9 DEF BootstrapInv

\* The server takes a token that is still in escrow.
LEMMA AttestStep ==
  ASSUME BootstrapInv, AsksKnown, NEW r \in Roles, Attest(r)
  PROVE  BootstrapInv'
<1>1. TokensInv /\ TokenTypes /\ ServerSane /\ WayInCovered  BY DEF BootstrapInv, TokensInv
<1>2. PICK t : t = asking[r]  OBVIOUS
<1>3. /\ t \in live /\ live' = live \ {t} /\ attesting = NoAttestation
      /\ attesting' = [role |-> r, token |-> t, delay |-> StableReads - 1]
      /\ UNCHANGED <<attempts, inodes, issued, aliases, nodes, audited, helper, tokenFile, svid, dep>>
  BY <1>2 DEF Attest, AcceptToken, HostsKeep, hostVars
<1>4. t \in Issued /\ t \in Tokens /\ Issued' = Issued
  BY <1>1, <1>3, IssuedTokens DEF ServerSane, Issued
<1>5. attesting'.role = r /\ attesting'.token = t /\ attesting'.delay = StableReads - 1 /\ StableReads - 1 \in Nat
  BY <1>3, TokenFacts
<1>6. attesting' \in [role : Roles \cup {NoToken}, token : Tokens \cup {NoToken}, delay : Nat]
  BY <1>3, <1>4, <1>5
<1>7. ServerSane'
  <2>1. live' \subseteq Issued' /\ nodes' \subseteq Issued' /\ live' \cap nodes' = {}
    BY <1>1, <1>3, <1>4 DEF ServerSane
  <2>2. attesting'.token \in Issued' \ (live' \cup nodes')
    BY <1>1, <1>3, <1>4, <1>5 DEF ServerSane
  <2>3. attesting'.delay <= StableReads - 1  BY <1>5
  <2> QED BY <1>5, <2>1, <2>2, <2>3 DEF ServerSane
<1>8. Forward  BY <1>1, <1>3, <1>5 DEF Forward, TokenTypes
<1>9. TokensInv' /\ EscrowKept  BY <1>1, <1>3, <1>6, <1>7, <1>8, ServerStep
<1>10. Covered(attesting.role, attesting.token)'
  <2>1. Covered(r, t)  BY <1>1, <1>2 DEF WayInCovered
  <2>2. Covered(r, t)'  BY <1>1, <1>8, <1>9, <2>1, CoveredStays
  <2> QED BY <1>5, <2>2
<1>11. svid' \in [Roles -> Tokens \cup {NoToken}]  BY <1>1, <1>3 DEF WayInCovered
<1> QED BY <1>3, <1>8, <1>9, <1>10, <1>11, BesideDeployment

\* The attestation ends with a record of the agent.
LEMMA FinishAttestationStep ==
  ASSUME BootstrapInv, AsksKnown, FinishAttestation
  PROVE  BootstrapInv'
<1>1. TokensInv /\ TokenTypes /\ ServerSane /\ WayInCovered  BY DEF BootstrapInv, TokensInv
<1>2. PICK r, t : r = attesting.role /\ t = attesting.token  OBVIOUS
<1>3. /\ attesting # NoAttestation /\ nodes' = nodes \cup {t} /\ attesting' = NoAttestation
      /\ UNCHANGED <<attempts, inodes, live, issued, aliases, audited, helper, tokenFile, dep>>
      /\ svid' = [svid EXCEPT ![r] = IF agentUp[r] THEN t ELSE @]
  BY <1>2 DEF FinishAttestation, RecordAgent
<1>4. r \in Roles /\ t \in Issued \ (live \cup nodes) /\ t \in Tokens /\ Issued' = Issued
  BY <1>1, <1>2, <1>3, IssuedTokens DEF ServerSane, Issued
<1>5. attesting'.role = NoToken /\ attesting'.token = NoToken /\ attesting'.delay = 0
  BY <1>3 DEF NoAttestation
<1>6. attesting' \in [role : Roles \cup {NoToken}, token : Tokens \cup {NoToken}, delay : Nat]
  BY <1>3 DEF NoAttestation
<1>7. ServerSane'  BY <1>1, <1>3, <1>4 DEF ServerSane
<1>8. Forward  BY <1>1, <1>2, <1>3, <1>5 DEF Forward, TokenTypes
<1>9. TokensInv' /\ EscrowKept  BY <1>1, <1>3, <1>6, <1>7, <1>8, ServerStep
<1>10. Covered(r, t)'
  <2>1. Covered(r, t)  BY <1>1, <1>2, <1>3 DEF WayInCovered
  <2> QED BY <1>1, <1>4, <1>8, <1>9, <2>1, CoveredStays
<1>11. svid \in [Roles -> Tokens \cup {NoToken}]  BY <1>1 DEF WayInCovered
<1>12. PICK x : x = IF agentUp[r] THEN t ELSE svid[r]  OBVIOUS
<1>13. svid' = [svid EXCEPT ![r] = x] /\ x \in Tokens \cup {NoToken}
  BY <1>3, <1>4, <1>11, <1>12
<1>14. svid' \in [Roles -> Tokens \cup {NoToken}]  BY <1>4, <1>11, <1>13
<1>15. \A q \in Roles : svid'[q] # svid[q] => Covered(q, svid[q])'
  <2> SUFFICES ASSUME NEW q \in Roles, svid'[q] # svid[q] PROVE Covered(q, svid[q])'  OBVIOUS
  <2>1. q = r /\ svid'[q] = t  BY <1>4, <1>11, <1>12, <1>13
  <2> QED BY <1>10, <2>1 DEF Covered
<1> QED BY <1>3, <1>8, <1>9, <1>14, <1>15, BesideDeployment

----------------------------------------------------------------------------
(***************************************************************************)
(* The deployment's own steps.                                             *)
(***************************************************************************)
\* A step leaves what the deployment was made from alone.
PlanKept ==
  dep'.commit = dep.commit /\ dep'.bundle = dep.bundle /\ dep'.secrets = dep.secrets /\ dep'.plan = dep.plan

\* The positions in the order of roles.
LEMMA Positions ==
  /\ Len(RoleOrder) \in Nat \ {0} /\ DOMAIN RoleOrder = 1 .. Len(RoleOrder) /\ 1 \in DOMAIN RoleOrder
  /\ \A r \in Roles : \E i \in DOMAIN RoleOrder : RoleOrder[i] = r
<1>1. RoleOrder \in Seq(Roles) /\ RoleOrder # <<>>  BY DeploymentAssumption
<1>2. Len(RoleOrder) \in Nat /\ DOMAIN RoleOrder = 1 .. Len(RoleOrder)  BY <1>1
<1>3. Len(RoleOrder) # 0  BY <1>1, EmptySeq
<1>4. 1 \in DOMAIN RoleOrder  BY <1>2, <1>3
<1> QED BY <1>2, <1>3, <1>4, DeploymentAssumption

\* A step to another place changes nothing else of the deployment.
LEMMA GotoFacts ==
  ASSUME DOMAIN dep = DepFields, NEW p, Goto(p)
  PROVE  /\ DOMAIN dep' = DepFields /\ dep'.pc = p /\ dep'.at = dep.at /\ dep'.verified = dep.verified
         /\ dep'.token = dep.token /\ dep'.clean = dep.clean /\ dep'.runtime = dep.runtime /\ PlanKept
BY DEF Goto, DepFields, PlanKept

\* The next role of a play, or the next play.
LEMMA NextRoleFacts ==
  ASSUME DOMAIN dep = DepFields, dep.at \in DOMAIN RoleOrder, NEW p, NEW q, NextRole(p, q)
  PROVE  /\ DOMAIN dep' = DepFields /\ dep'.verified = dep.verified /\ dep'.at \in DOMAIN RoleOrder
         /\ dep'.token = dep.token /\ PlanKept
         /\ \/ dep'.pc = p /\ dep'.at = dep.at + 1
            \/ dep'.pc = q /\ dep'.at = 1 /\ dep.at = Len(RoleOrder)
<1>1. PICK n : n = dep.at  OBVIOUS
<1>2. n \in 1 .. Len(RoleOrder) /\ Len(RoleOrder) \in Nat \ {0}  BY <1>1, Positions
<1>3. CASE n < Len(RoleOrder)
  <2>1. dep' = [dep EXCEPT !.pc = p, !.at = n + 1]  BY <1>1, <1>3 DEF NextRole
  <2>2. DOMAIN dep' = DepFields /\ dep'.pc = p /\ dep'.at = n + 1 /\ dep'.verified = dep.verified
        /\ dep'.token = dep.token
    BY <2>1 DEF DepFields
  <2>3. PlanKept  BY <2>1 DEF DepFields, PlanKept
  <2>4. n + 1 \in DOMAIN RoleOrder  BY <1>2, <1>3, Positions
  <2> QED BY <1>1, <2>2, <2>3, <2>4
<1>4. CASE ~(n < Len(RoleOrder))
  <2>1. dep' = [dep EXCEPT !.pc = q, !.at = 1]  BY <1>1, <1>4 DEF NextRole
  <2>2. DOMAIN dep' = DepFields /\ dep'.pc = q /\ dep'.at = 1 /\ dep'.verified = dep.verified
        /\ dep'.token = dep.token
    BY <2>1 DEF DepFields
  <2>3. PlanKept  BY <2>1 DEF DepFields, PlanKept
  <2>4. n = Len(RoleOrder)  BY <1>2, <1>4
  <2> QED BY <1>1, <2>2, <2>3, <2>4, Positions
<1> QED BY <1>3, <1>4

\* A deployment that has ended.
LEMMA NoDeploymentFacts ==
  /\ DOMAIN NoDeployment = DepFields /\ NoDeployment.pc = "idle" /\ NoDeployment.at = 1
  /\ NoDeployment.verified = FALSE /\ NoDeployment.at \in DOMAIN RoleOrder
BY Positions DEF NoDeployment, DepFields

\* The deployment calls a helper or takes its answer.
LEMMA RunChanges ==
  ASSUME TokensInv, UNCHANGED <<attempts, inodes, live, issued, aliases, nodes, attesting>>,
         audited \subseteq audited',
         NEW h \in HelperRecords, helper' = [helper EXCEPT !["run"] = h], h.pc \notin Holding,
         h.pc \in {"open", "lock"} => h.role \in Roles /\ h.op # "none" /\ h.reads = 0 /\ h.token = NoToken
  PROVE  TokensInv' /\ Forward /\ EscrowKept
<1>1. TokenTypes /\ ServerSane /\ EscrowSane /\ OwnersApart /\ HeldByOne  BY DEF TokensInv
<1>2. helper'["run"] = h /\ helper'["orphan"] = helper["orphan"] /\ helper' \in [Slots -> HelperRecords]
  BY <1>1 DEF TokenTypes, Slots
<1>3. Forward  BY <1>1 DEF Forward, TokenTypes
<1>4. TokenTypes' /\ ServerSane' /\ EscrowSane'
  BY <1>1, <1>2 DEF TokenTypes, ServerSane, EscrowSane, Issued
<1>5. HeldByOne'  BY <1>2 DEF HeldByOne
<1>6. HelperSane("run")'  BY <1>2 DEF HelperSane, Working, Holding
<1>7. HelperSane("orphan")'  BY <1>2, <1>3, HolderStays DEF Slots
<1>8. \A r \in Roles : OwnTokens(r)' \subseteq OwnTokens(r)
  <2> SUFFICES ASSUME NEW r \in Roles, NEW t \in OwnTokens(r)' PROVE t \in OwnTokens(r)  OBVIOUS
  <2>1. t # NoToken /\ (t \in {aliases[r], attempts[r].token}
                         \/ \E s \in Slots : Working(s)' /\ helper'[s].role = r /\ t = helper'[s].token)
    BY DEF OwnTokens
  <2>2. ASSUME NEW s \in Slots, Working(s)', helper'[s].role = r, t = helper'[s].token
        PROVE  t \in OwnTokens(r)
    <3>1. CASE s = "run"
      <4>1. h.pc \in {"open", "lock"}  BY <1>2, <2>2, <3>1 DEF Working
      <4> QED BY <1>2, <2>1, <2>2, <3>1, <4>1
    <3>2. CASE s = "orphan"
      <4>1. Working("orphan") /\ helper["orphan"].role = r /\ t = helper["orphan"].token
        BY <1>2, <2>2, <3>2 DEF Working
      <4> QED BY <2>1, <4>1 DEF OwnTokens, Slots
    <3> QED BY <2>2, <3>1, <3>2 DEF Slots
  <2> QED BY <2>1, <2>2 DEF OwnTokens
<1>9. OwnersApart'
  <2>1. Issued' = Issued  BY DEF Issued
  <2>2. \A r \in Roles : OwnTokens(r)' \subseteq Issued'  BY <1>1, <1>8, <2>1 DEF OwnersApart
  <2>3. \A r, q \in Roles : r # q => OwnTokens(r)' \cap OwnTokens(q)' = {}
    BY <1>1, <1>8 DEF OwnersApart
  <2> QED BY <2>2, <2>3 DEF OwnersApart
<1>10. EscrowKept  BY DEF EscrowKept
<1> QED BY <1>3, <1>4, <1>5, <1>6, <1>7, <1>9, <1>10 DEF TokensInv, Slots

\* What a step of the deployment owes, when it leaves attempts, aliases and agents alone.
LEMMA DeployStep ==
  ASSUME BootstrapInv, AsksKnown, UNCHANGED <<attempts, aliases, nodes, attesting, svid>>,
         helper'["orphan"] = helper["orphan"] \/ dep'.pc \notin AfterCleanup, TokensInv', Forward, EscrowKept,
         DOMAIN dep' = DepFields, dep'.at \in DOMAIN RoleOrder, dep'.verified \in BOOLEAN,
         tokenFile' \in [Roles -> Tokens \cup {NoToken}],
         \A r \in Roles : tokenFile'[r] # tokenFile[r] => Covered(r, tokenFile[r])',
         dep'.pc \notin Waits => helper'["run"] = NoProcess,
         dep'.pc \in Waits =>
           helper'["run"].pc = "open" /\ helper'["run"].op = WaitsFor(dep'.pc) /\ helper'["run"].role = Role',
         dep'.pc = "deliver" => Covered(Role, dep.token)',
         dep'.pc \in AfterCleanup => Unissued(Role'),
         dep'.pc \in PerRole => \A i \in 1 .. (dep'.at - 1) : Admitted(RoleOrder[i])',
         dep'.pc \in AllAudited => \A r \in Roles : Admitted(r)'
  PROVE  BootstrapInv'
<1>1. TokenTypes /\ WayInCovered  BY DEF BootstrapInv, TokensInv
<1>2. \A r \in Roles : Covered(r, tokenFile[r])'
  <2> SUFFICES ASSUME NEW r \in Roles PROVE Covered(r, tokenFile[r])'  OBVIOUS
  <2>1. CASE tokenFile'[r] # tokenFile[r]  BY <2>1
  <2>2. CASE tokenFile'[r] = tokenFile[r]  BY <1>1, <2>2, CoveredStays DEF WayInCovered
  <2> QED BY <2>1, <2>2
<1>3. \A r \in Roles : Covered(r, svid[r])'  BY <1>1, CoveredStays DEF WayInCovered
<1>4. attesting' # NoAttestation => Covered(attesting.role, attesting.token)'
  <2>1. attesting' # NoAttestation => attesting'.role \in Roles  BY DEF TokensInv, ServerSane
  <2> QED BY <1>1, <2>1, CoveredStays DEF WayInCovered
<1>5. dep'.pc \in Waits => Working("run")' /\ helper'["run"].pc # "done"  BY DEF Working
<1>6. svid' \in [Roles -> Tokens \cup {NoToken}]  BY <1>1 DEF WayInCovered
<1>7. dep'.pc = "generated" => dep'.pc \in Waits  BY DEF Waits
<1>8. WayInCovered'
  <2>1. \A r \in Roles : Covered(r, asking[r])'  BY <1>1, AskingCovered
  <2> QED BY <1>2, <1>3, <1>4, <1>5, <1>6, <1>7, <2>1 DEF WayInCovered, AsksKnown
<1>9. dep'.pc \in {"cleaned", "retained"} => dep'.pc \in Waits  BY DEF Waits
<1>10. dep'.pc \in AfterCleanup => Unissued(Role)'  BY DEF Unissued
<1>11. DeploymentSane'  BY <1>5, <1>9, <1>10 DEF DeploymentSane
<1>12. AuditsStand'  BY DEF AuditsStand
<1> QED BY <1>8, <1>11, <1>12 DEF BootstrapInv

\* A step outside the bootstrap that only moves the deployment on.
LEMMA PlainMove ==
  ASSUME BootstrapInv, AsksKnown, UNCHANGED <<tokenVars, tokenFile, svid>>, dep.pc \notin Waits,
         DOMAIN dep' = DepFields, dep'.at \in DOMAIN RoleOrder, dep'.verified \in BOOLEAN,
         dep'.pc \notin Waits \cup {"deliver"} \cup AfterCleanup,
         dep'.pc \in PerRole => dep'.at = 1 \/ (dep.pc \in PerRole /\ dep'.at = dep.at),
         dep'.pc \in AllAudited => dep.pc \in AllAudited
  PROVE  BootstrapInv'
<1>1. TokensInv /\ TokenTypes /\ WayInCovered /\ DeploymentSane /\ AuditsStand  BY DEF BootstrapInv, TokensInv
<1>2. UNCHANGED <<attempts, inodes, live, issued, aliases, nodes, attesting, audited, helper>>
  BY DEF tokenVars
<1>3. helper["run"] = NoProcess  BY <1>1 DEF DeploymentSane
<1>4. NoProcess \in HelperRecords /\ NoProcess.pc = "idle"  BY DEF NoProcess, HelperRecords
<1>5. helper' = [helper EXCEPT !["run"] = NoProcess]  BY <1>1, <1>2, <1>3 DEF TokenTypes, Slots
<1>6. NoProcess.pc \notin Holding /\ NoProcess.pc \notin {"open", "lock"}  BY <1>4 DEF Holding
<1>7. TokensInv' /\ Forward /\ EscrowKept  BY <1>1, <1>2, <1>4, <1>5, <1>6, RunChanges
<1>8. tokenFile' \in [Roles -> Tokens \cup {NoToken}]  BY <1>1 DEF WayInCovered
<1>9. \A r \in Roles : Admitted(r) => Admitted(r)'  BY <1>2 DEF Admitted
<1>10. dep'.pc \in PerRole => \A i \in 1 .. (dep'.at - 1) : Admitted(RoleOrder[i])'
  <2>1. CASE dep'.at = 1  BY <2>1
  <2>2. CASE dep.pc \in PerRole /\ dep'.at = dep.at
    <3>1. \A i \in 1 .. (dep.at - 1) : RoleOrder[i] \in Roles
      BY <1>1, RoleIsRole, Positions DEF DeploymentSane
    <3> QED BY <1>1, <1>9, <2>2, <3>1 DEF AuditsStand
  <2> QED BY <2>1, <2>2
<1>11. dep'.pc \in AllAudited => \A r \in Roles : Admitted(r)'  BY <1>1, <1>9 DEF AuditsStand
<1> QED BY <1>2, <1>3, <1>7, <1>8, <1>10, <1>11, DeployStep

\* The deployment ends without a helper.
LEMMA PlainEnd ==
  ASSUME BootstrapInv, AsksKnown, UNCHANGED <<tokenVars, tokenFile, svid>>, dep.pc \notin Waits, dep' = NoDeployment
  PROVE  BootstrapInv'
<1>1. dep'.pc \notin Waits \cup {"deliver"} \cup AfterCleanup /\ dep'.pc \notin PerRole /\ dep'.pc \notin AllAudited
  BY NoDeploymentFacts DEF Waits, AfterCleanup, PerRole, AllAudited, Registered
<1> QED BY <1>1, NoDeploymentFacts, PlainMove

\* Steps before the bootstrap, and after it.
Plain ==
  \/ CopyBundle \/ CopyInputs \/ CompileDeployment \/ BeginApply \/ LoadArtifacts \/ AllowPlanned
  \/ DeleteStaleRules \/ StartRetained \/ StartAgent \/ FailBlock \/ PruneEntries \/ ReconcileEntries \/ AuditEntries
  \/ StartService \/ FinishApply \/ ProbeInitial \/ RestartService \/ SignProbe

\* Everything that leaves the server, the tokens and the identities alone.
LEMMA PlainFrame ==
  ASSUME Plain \/ (\E c : StartDeployment(c)) \/ VerifyProbe \/ StopDeployment \/ FailRestart
  PROVE  UNCHANGED <<tokenVars, tokenFile, svid>>
BY DEF Plain, CopyBundle, CopyInputs, CompileDeployment, BeginApply, LoadArtifacts, AllowPlanned,
       DeleteStaleRules, StartRetained, StartAgent, FailBlock, PruneEntries, ReconcileEntries, AuditEntries,
       StartService, FinishApply, ProbeInitial, RestartService, SignProbe, StartDeployment,
       VerifyProbe, StopDeployment, FailRestart, HostsKeep, hostVars

\* The deployment ends there.
LEMMA PlainEndStep ==
  ASSUME BootstrapInv, AsksKnown, VerifyProbe \/ StopDeployment \/ FailRestart
  PROVE  BootstrapInv'
<1>1. UNCHANGED <<tokenVars, tokenFile, svid>>  BY PlainFrame
<1>2. dep.pc \notin Waits /\ dep' = NoDeployment  BY DEF VerifyProbe, StopDeployment, FailRestart, Waits
<1> QED BY <1>1, <1>2, PlainEnd

\* The deployment goes on there.
LEMMA PlainStep ==
  ASSUME BootstrapInv, AsksKnown, Plain
  PROVE  BootstrapInv'
<1>1. UNCHANGED <<tokenVars, tokenFile, svid>>  BY PlainFrame
<1>2. DOMAIN dep = DepFields /\ dep.at \in DOMAIN RoleOrder /\ dep.verified \in BOOLEAN
  BY DEF BootstrapInv, DeploymentSane
<1>3. dep.pc \notin Waits
  BY DEF Plain, CopyBundle, CopyInputs, CompileDeployment, BeginApply, LoadArtifacts, AllowPlanned,
         DeleteStaleRules, StartRetained, StartAgent, FailBlock, PruneEntries, ReconcileEntries, AuditEntries,
         StartService, FinishApply, ProbeInitial, RestartService, SignProbe, Waits
<1>4. ASSUME NEW p, Goto(p), p \notin Waits \cup {"deliver"} \cup AfterCleanup,
             p \in PerRole => dep.pc \in PerRole, p \in AllAudited => dep.pc \in AllAudited
      PROVE  BootstrapInv'
  BY <1>1, <1>2, <1>3, <1>4, GotoFacts, PlainMove
<1>5. ASSUME NEW p, NEW q, NextRole(p, q), {p, q} \cap (Waits \cup {"deliver"} \cup AfterCleanup) = {},
             p \notin PerRole, {p, q} \cap AllAudited # {} => dep.pc \in AllAudited
      PROVE  BootstrapInv'
  BY <1>1, <1>2, <1>3, <1>5, NextRoleFacts, PlainMove
<1> USE DEF Waits, AfterCleanup, PerRole, AllAudited, Registered
<1>6. CASE CopyBundle
  <2>1. dep' = [dep EXCEPT !.pc = "inputs", !.bundle = bundle]  BY <1>6 DEF CopyBundle
  <2>2. DOMAIN dep' = DepFields /\ dep'.pc = "inputs" /\ dep'.at = dep.at /\ dep'.verified = dep.verified
    BY <1>2, <2>1 DEF DepFields
  <2> QED BY <1>1, <1>2, <1>3, <2>2, PlainMove
<1>7. CASE CopyInputs
  <2>1. dep' = [dep EXCEPT !.pc = "compile", !.runtime = runtime, !.secrets = secrets]
    BY <1>7 DEF CopyInputs
  <2>2. DOMAIN dep' = DepFields /\ dep'.pc = "compile" /\ dep'.at = dep.at /\ dep'.verified = dep.verified
    BY <1>2, <2>1 DEF DepFields
  <2> QED BY <1>1, <1>2, <1>3, <2>2, PlainMove
<1>8. CASE CompileDeployment
  <2>1. dep' = [dep EXCEPT !.pc = "apply", !.plan = CompiledPlan]  BY <1>8 DEF CompileDeployment
  <2>2. DOMAIN dep' = DepFields /\ dep'.pc = "apply" /\ dep'.at = dep.at /\ dep'.verified = dep.verified
    BY <1>2, <2>1 DEF DepFields
  <2> QED BY <1>1, <1>2, <1>3, <2>2, PlainMove
<1>9. CASE FailBlock
  <2>1. dep' = [dep EXCEPT !.pc = "quiesce", !.clean = FALSE] /\ dep.pc \in PerRole
    BY <1>9 DEF FailBlock
  <2>2. DOMAIN dep' = DepFields /\ dep'.pc = "quiesce" /\ dep'.at = dep.at /\ dep'.verified = dep.verified
    BY <1>2, <2>1 DEF DepFields
  <2> QED BY <1>1, <1>2, <1>3, <2>1, <2>2, PlainMove
<1>10. CASE BeginApply  BY <1>4, <1>10 DEF BeginApply
<1>11. CASE LoadArtifacts  BY <1>5, <1>11 DEF LoadArtifacts
<1>12. CASE AllowPlanned  BY <1>4, <1>12 DEF AllowPlanned
<1>13. CASE DeleteStaleRules  BY <1>5, <1>13 DEF DeleteStaleRules
<1>14. CASE StartAgent \/ StartRetained  BY <1>4, <1>14 DEF StartAgent, StartRetained
<1>15. CASE PruneEntries  BY <1>4, <1>15 DEF PruneEntries
<1>16. CASE ReconcileEntries  BY <1>4, <1>16 DEF ReconcileEntries
<1>17. CASE AuditEntries  BY <1>4, <1>17 DEF AuditEntries
<1>18. CASE StartService  BY <1>5, <1>18 DEF StartService
<1>19. CASE FinishApply  BY <1>4, <1>19 DEF FinishApply
<1>20. CASE ProbeInitial  BY <1>4, <1>20 DEF ProbeInitial
<1>21. CASE RestartService  BY <1>5, <1>21 DEF RestartService
<1>22. CASE SignProbe  BY <1>4, <1>22 DEF SignProbe
<1> QED BY <1>6, <1>7, <1>8, <1>9, <1>10, <1>11, <1>12, <1>13, <1>14, <1>15, <1>16, <1>17, <1>18, <1>19,
           <1>20, <1>21, <1>22 DEF Plain

\* A helper the deployment has just called.
Called(op, r, v) == [NoProcess EXCEPT !.op = op, !.role = r, !.pc = "open", !.verified = v]

\* It works for the role it was called for, and knows no token yet.
LEMMA CalledFacts ==
  ASSUME NEW op \in {"arm", "generate", "cleanup"}, NEW r \in Roles, NEW v \in BOOLEAN
  PROVE  /\ Called(op, r, v) \in HelperRecords /\ Called(op, r, v).pc = "open"
         /\ Called(op, r, v).op = op /\ Called(op, r, v).role = r
         /\ Called(op, r, v).reads = 0 /\ Called(op, r, v).token = NoToken
BY DEF Called, NoProcess, HelperRecords

\* No process is one that works.
LEMMA NoProcessFacts ==
  NoProcess \in HelperRecords /\ NoProcess.pc = "idle"
BY DEF NoProcess, HelperRecords

\* A step of the bootstrap of one role.
LEMMA BootstrapMove ==
  ASSUME BootstrapInv, AsksKnown, dep.pc \in PerRole,
         UNCHANGED <<attempts, inodes, live, issued, aliases, nodes, attesting, svid>>,
         audited \subseteq audited',
         NEW h \in HelperRecords, helper' = [helper EXCEPT !["run"] = h],
         dep'.pc \notin Waits => h = NoProcess,
         dep'.pc \in Waits => /\ h.pc = "open" /\ h.op = WaitsFor(dep'.pc) /\ h.role = Role
                              /\ h.reads = 0 /\ h.token = NoToken,
         DOMAIN dep' = DepFields, dep'.at = dep.at, dep'.verified \in BOOLEAN, dep'.pc \notin AllAudited,
         tokenFile' \in [Roles -> Tokens \cup {NoToken}],
         \A r \in Roles : tokenFile'[r] # tokenFile[r] => Covered(r, tokenFile[r])',
         dep'.pc = "deliver" => Covered(Role, dep.token)',
         dep'.pc \in AfterCleanup => Unissued(Role)
  PROVE  BootstrapInv'
<1>1. TokensInv /\ TokenTypes /\ WayInCovered /\ DeploymentSane /\ AuditsStand  BY DEF BootstrapInv, TokensInv
<1>2. Role' = Role /\ Role \in Roles /\ dep.at \in DOMAIN RoleOrder
  BY <1>1, RoleIsRole DEF Role, DeploymentSane
<1>3. h.pc \notin Holding  BY NoProcessFacts DEF Holding
<1>4. h.pc \in {"open", "lock"} => h.role \in Roles /\ h.op # "none" /\ h.reads = 0 /\ h.token = NoToken
  BY <1>2, NoProcessFacts DEF WaitsFor
<1>5. TokensInv' /\ Forward /\ EscrowKept  BY <1>1, <1>3, <1>4, RunChanges
<1>6. helper'["run"] = h /\ helper'["orphan"] = helper["orphan"]  BY <1>1 DEF TokenTypes, Slots
<1>7. \A r \in Roles : Admitted(r) => Admitted(r)'  BY DEF Admitted
<1>8. \A i \in 1 .. (dep'.at - 1) : Admitted(RoleOrder[i])'
  <2>1. \A i \in 1 .. (dep.at - 1) : RoleOrder[i] \in Roles
    BY <1>2, RoleIsRole, Positions
  <2> QED BY <1>1, <1>7, <2>1 DEF AuditsStand
<1>9. dep'.pc \in AfterCleanup => Unissued(Role')  BY <1>2
<1>10. dep'.at \in DOMAIN RoleOrder  BY <1>2
<1>11. dep'.pc \notin Waits => helper'["run"] = NoProcess  BY <1>6
<1>12. dep'.pc \in Waits =>
         helper'["run"].pc = "open" /\ helper'["run"].op = WaitsFor(dep'.pc) /\ helper'["run"].role = Role'
  BY <1>2, <1>6
<1> QED BY <1>5, <1>6, <1>8, <1>9, <1>10, <1>11, <1>12, DeployStep

\* Which helper a role needs.
LEMMA CheckHealthStep ==
  ASSUME BootstrapInv, AsksKnown, CheckHealth
  PROVE  BootstrapInv'
<1>1. TokenTypes /\ WayInCovered /\ DeploymentSane  BY DEF BootstrapInv, TokensInv
<1>2. Role \in Roles /\ DOMAIN dep = DepFields /\ dep.verified \in BOOLEAN
  BY <1>1, RoleIsRole DEF Role, DeploymentSane
<1>3. /\ UNCHANGED <<attempts, inodes, live, issued, aliases, nodes, attesting, audited, svid, tokenFile>>
      /\ dep.pc = "health"
  BY DEF CheckHealth, HostsKeep, hostVars
<1>4. dep.pc \in PerRole  BY <1>3 DEF PerRole
<1>5. tokenFile' \in [Roles -> Tokens \cup {NoToken}]  BY <1>1, <1>3 DEF WayInCovered
<1>6. CASE AgentHealthy(Role)
  <2>1. helper' = [helper EXCEPT !["run"] = Called("cleanup", Role, TRUE)] /\ Goto("retained")
    BY <1>6 DEF CheckHealth, CallHelper, Called
  <2>2. PICK h : h = Called("cleanup", Role, TRUE)  OBVIOUS
  <2>3. h \in HelperRecords /\ h.pc = "open" /\ h.op = "cleanup" /\ h.role = Role /\ h.reads = 0 /\ h.token = NoToken
    BY <1>2, <2>2, CalledFacts
  <2>4. DOMAIN dep' = DepFields /\ dep'.pc = "retained" /\ dep'.at = dep.at /\ dep'.verified = dep.verified
    BY <1>2, <2>1, GotoFacts
  <2>5. dep'.pc \in Waits /\ WaitsFor(dep'.pc) = "cleanup" /\ dep'.pc \notin AllAudited
    BY <2>4 DEF Waits, WaitsFor, AfterCleanup, AllAudited, Registered
  <2>6. helper' = [helper EXCEPT !["run"] = h]  BY <2>1, <2>2
  <2> QED BY <1>2, <1>3, <1>4, <1>5, <2>3, <2>4, <2>5, <2>6, BootstrapMove DEF AfterCleanup
<1>7. CASE ~AgentHealthy(Role)
  <2>1. /\ helper' = [helper EXCEPT !["run"] = Called("arm", Role, FALSE)]
        /\ dep' = [dep EXCEPT !.pc = "armed", !.verified = FALSE]
    BY <1>7 DEF CheckHealth, CallHelper, Called
  <2>2. PICK h : h = Called("arm", Role, FALSE)  OBVIOUS
  <2>3. h \in HelperRecords /\ h.pc = "open" /\ h.op = "arm" /\ h.role = Role /\ h.reads = 0 /\ h.token = NoToken
    BY <1>2, <2>2, CalledFacts
  <2>4. DOMAIN dep' = DepFields /\ dep'.pc = "armed" /\ dep'.at = dep.at /\ dep'.verified = FALSE
    BY <1>2, <2>1 DEF DepFields
  <2>5. dep'.pc \in Waits /\ WaitsFor(dep'.pc) = "arm" /\ dep'.pc \notin AllAudited
    BY <2>4 DEF Waits, WaitsFor, AfterCleanup, AllAudited, Registered
  <2>6. helper' = [helper EXCEPT !["run"] = h]  BY <2>1, <2>2
  <2> QED BY <1>2, <1>3, <1>4, <1>5, <2>3, <2>4, <2>5, <2>6, BootstrapMove DEF AfterCleanup
<1> QED BY <1>6, <1>7

\* The answer of arm.
LEMMA ArmedStep ==
  ASSUME BootstrapInv, AsksKnown, Armed
  PROVE  BootstrapInv'
<1>1. TokenTypes /\ WayInCovered /\ DeploymentSane  BY DEF BootstrapInv, TokensInv
<1>2. Role \in Roles /\ DOMAIN dep = DepFields /\ dep.verified \in BOOLEAN
  BY <1>1, RoleIsRole DEF Role, DeploymentSane
<1>3. /\ UNCHANGED <<attempts, inodes, live, issued, aliases, nodes, attesting, audited, svid, tokenFile>>
      /\ dep.pc = "armed"
  BY DEF Armed, HostsKeep, hostVars
<1>4. dep.pc \in PerRole  BY <1>3 DEF PerRole, Waits, AfterCleanup
<1>5. tokenFile' \in [Roles -> Tokens \cup {NoToken}]  BY <1>1, <1>3 DEF WayInCovered
<1>6. CASE helper["run"].pc = "done"
  <2>1. /\ helper' = [helper EXCEPT !["run"] = [NoProcess EXCEPT !.op = "generate", !.role = Role, !.pc = "open"]]
        /\ Goto("generated")
    BY <1>6 DEF Armed
  <2>2. PICK h : h = [NoProcess EXCEPT !.op = "generate", !.role = Role, !.pc = "open"]  OBVIOUS
  <2>3. h \in HelperRecords  BY <1>2, <2>2 DEF NoProcess, HelperRecords
  <2>4. h \in HelperRecords /\ h.pc = "open" /\ h.op = "generate" /\ h.role = Role /\ h.reads = 0 /\ h.token = NoToken
    BY <2>2, <2>3 DEF NoProcess
  <2>5. DOMAIN dep' = DepFields /\ dep'.pc = "generated" /\ dep'.at = dep.at /\ dep'.verified = dep.verified
    BY <1>2, <2>1, GotoFacts
  <2>6. dep'.pc \in Waits /\ WaitsFor(dep'.pc) = "generate" /\ dep'.pc \notin AllAudited
    BY <2>5 DEF Waits, WaitsFor, AfterCleanup, AllAudited, Registered
  <2>7. helper' = [helper EXCEPT !["run"] = h]  BY <2>1, <2>2
  <2> QED BY <1>2, <1>3, <1>4, <1>5, <2>4, <2>5, <2>6, <2>7, BootstrapMove DEF AfterCleanup
<1>7. CASE helper["run"].pc # "done"
  <2>1. helper' = [helper EXCEPT !["run"] = NoProcess] /\ dep' = [dep EXCEPT !.pc = "quiesce", !.clean = FALSE]
    BY <1>7 DEF Armed, ReapHelper
  <2>2. DOMAIN dep' = DepFields /\ dep'.pc = "quiesce" /\ dep'.at = dep.at /\ dep'.verified = dep.verified
    BY <1>2, <2>1 DEF DepFields
  <2>3. dep'.pc \notin Waits /\ dep'.pc \notin AllAudited  BY <2>2 DEF Waits, AfterCleanup, AllAudited, Registered
  <2> QED BY <1>2, <1>3, <1>4, <1>5, <2>1, <2>2, <2>3, NoProcessFacts, BootstrapMove DEF AfterCleanup
<1> QED BY <1>6, <1>7

\* The answer of generate: the token is in escrow.
LEMMA GeneratedStep ==
  ASSUME BootstrapInv, AsksKnown, Generated
  PROVE  BootstrapInv'
<1>1. TokensInv /\ TokenTypes /\ WayInCovered /\ DeploymentSane  BY DEF BootstrapInv, TokensInv
<1>2. Role \in Roles /\ DOMAIN dep = DepFields /\ dep.verified \in BOOLEAN
  BY <1>1, RoleIsRole DEF Role, DeploymentSane
<1>3. /\ UNCHANGED <<attempts, inodes, live, issued, aliases, nodes, attesting, audited, svid, tokenFile>>
      /\ dep.pc = "generated" /\ helper' = [helper EXCEPT !["run"] = NoProcess]
  BY DEF Generated, ReapHelper, HostsKeep, hostVars
<1>4. dep.pc \in PerRole  BY <1>3 DEF PerRole, Waits, AfterCleanup
<1>5. tokenFile' \in [Roles -> Tokens \cup {NoToken}]  BY <1>1, <1>3 DEF WayInCovered
<1>6. CASE helper["run"].pc = "done"
  <2>1. PICK t : t = helper["run"].token  OBVIOUS
  <2>2. dep' = [dep EXCEPT !.pc = "deliver", !.token = t]  BY <1>6, <2>1 DEF Generated
  <2>3. DOMAIN dep' = DepFields /\ dep'.pc = "deliver" /\ dep'.at = dep.at /\ dep'.verified = dep.verified
        /\ dep'.token = t
    BY <1>2, <2>2 DEF DepFields
  <2>4. Role' = Role  BY <2>3 DEF Role
  <2>5. Covered(Role, t)  BY <1>1, <1>3, <1>6, <2>1 DEF WayInCovered
  <2>6. Covered(Role, dep.token)'
    BY <1>3, <2>3, <2>4, <2>5 DEF Covered, Retired, Issued
  <2>7. dep'.pc \notin Waits /\ dep'.pc \notin AllAudited  BY <2>3 DEF Waits, AfterCleanup, AllAudited, Registered
  <2> QED BY <1>2, <1>3, <1>4, <1>5, <2>3, <2>6, <2>7, NoProcessFacts, BootstrapMove DEF AfterCleanup
<1>7. CASE helper["run"].pc # "done"
  <2>1. dep' = [dep EXCEPT !.pc = "quiesce", !.clean = FALSE]  BY <1>7 DEF Generated
  <2>2. DOMAIN dep' = DepFields /\ dep'.pc = "quiesce" /\ dep'.at = dep.at /\ dep'.verified = dep.verified
    BY <1>2, <2>1 DEF DepFields
  <2>3. dep'.pc \notin Waits /\ dep'.pc \notin AllAudited  BY <2>2 DEF Waits, AfterCleanup, AllAudited, Registered
  <2> QED BY <1>2, <1>3, <1>4, <1>5, <2>2, <2>3, NoProcessFacts, BootstrapMove DEF AfterCleanup
<1> QED BY <1>6, <1>7

\* The escrowed token is delivered.
LEMMA DeliverTokenStep ==
  ASSUME BootstrapInv, AsksKnown, DeliverToken
  PROVE  BootstrapInv'
<1>1. TokensInv /\ TokenTypes /\ WayInCovered /\ DeploymentSane  BY DEF BootstrapInv, TokensInv
<1>2. Role \in Roles /\ DOMAIN dep = DepFields /\ dep.verified \in BOOLEAN
  BY <1>1, RoleIsRole DEF Role, DeploymentSane
<1>3. PICK t : t = dep.token  OBVIOUS
<1>4. /\ UNCHANGED <<attempts, inodes, live, issued, aliases, nodes, attesting, audited, svid, helper>>
      /\ dep.pc = "deliver" /\ Goto("start") /\ tokenFile' = [tokenFile EXCEPT ![Role] = t]
  BY <1>3 DEF DeliverToken, tokenVars
<1>5. dep.pc \in PerRole /\ dep.pc \notin Waits  BY <1>4 DEF PerRole, Waits, AfterCleanup
<1>6. helper["run"] = NoProcess /\ helper' = [helper EXCEPT !["run"] = NoProcess]
  BY <1>1, <1>4, <1>5 DEF DeploymentSane, TokenTypes, Slots
<1>7. Covered(Role, t)  BY <1>1, <1>3, <1>4 DEF WayInCovered
<1>8. t \in Tokens \cup {NoToken}  BY <1>1, <1>7, IssuedTokens DEF Covered
<1>9. tokenFile' \in [Roles -> Tokens \cup {NoToken}]  BY <1>1, <1>4, <1>8 DEF WayInCovered
<1>10. \A r \in Roles : tokenFile'[r] # tokenFile[r] => Covered(r, tokenFile[r])'
  <2> SUFFICES ASSUME NEW r \in Roles, tokenFile'[r] # tokenFile[r] PROVE Covered(r, tokenFile[r])'
    OBVIOUS
  <2>1. r = Role /\ tokenFile'[r] = t  BY <1>1, <1>4 DEF WayInCovered
  <2> QED BY <1>4, <1>7, <2>1 DEF Covered, Retired, Issued
<1>11. DOMAIN dep' = DepFields /\ dep'.pc = "start" /\ dep'.at = dep.at /\ dep'.verified = dep.verified
  BY <1>2, <1>4, GotoFacts
<1>12. dep'.pc \notin Waits /\ dep'.pc \notin AllAudited  BY <1>11 DEF Waits, AfterCleanup, AllAudited, Registered
<1> QED BY <1>2, <1>4, <1>5, <1>6, <1>9, <1>10, <1>11, <1>12, NoProcessFacts, BootstrapMove DEF AfterCleanup

\* The bootstrap is verified.
LEMMA AuditAgentStep ==
  ASSUME BootstrapInv, AsksKnown, AuditAgent
  PROVE  BootstrapInv'
<1>1. TokensInv /\ TokenTypes /\ WayInCovered /\ DeploymentSane  BY DEF BootstrapInv, TokensInv
<1>2. Role \in Roles /\ DOMAIN dep = DepFields  BY <1>1, RoleIsRole DEF Role, DeploymentSane
<1>3. /\ UNCHANGED <<attempts, inodes, live, issued, aliases, nodes, attesting, svid, helper, tokenFile>>
      /\ dep.pc = "audit" /\ audited \subseteq audited'
      /\ dep' = [dep EXCEPT !.pc = "quiesce", !.verified = TRUE]
  BY DEF AuditAgent, HostsKeep, hostVars
<1>4. dep.pc \in PerRole /\ dep.pc \notin Waits  BY <1>3 DEF PerRole, Waits, AfterCleanup
<1>5. helper["run"] = NoProcess /\ helper' = [helper EXCEPT !["run"] = NoProcess]
  BY <1>1, <1>3, <1>4 DEF DeploymentSane, TokenTypes, Slots
<1>6. tokenFile' \in [Roles -> Tokens \cup {NoToken}]  BY <1>1, <1>3 DEF WayInCovered
<1>7. DOMAIN dep' = DepFields /\ dep'.pc = "quiesce" /\ dep'.at = dep.at /\ dep'.verified = TRUE
  BY <1>2, <1>3 DEF DepFields
<1>8. dep'.pc \notin Waits /\ dep'.pc \notin AllAudited  BY <1>7 DEF Waits, AfterCleanup, AllAudited, Registered
<1> QED BY <1>2, <1>3, <1>4, <1>5, <1>6, <1>7, <1>8, NoProcessFacts, BootstrapMove DEF AfterCleanup

\* The always section: cleanup is called.
LEMMA QuiesceStep ==
  ASSUME BootstrapInv, AsksKnown, Quiesce
  PROVE  BootstrapInv'
<1>1. TokensInv /\ TokenTypes /\ WayInCovered /\ DeploymentSane  BY DEF BootstrapInv, TokensInv
<1>2. Role \in Roles /\ DOMAIN dep = DepFields /\ dep.verified \in BOOLEAN
  BY <1>1, RoleIsRole DEF Role, DeploymentSane
<1>3. /\ UNCHANGED <<attempts, inodes, live, issued, aliases, nodes, attesting, audited, svid, tokenFile>>
      /\ dep.pc = "quiesce" /\ Goto("cleaned")
      /\ helper' = [helper EXCEPT !["run"] = Called("cleanup", Role, dep.verified)]
  BY DEF Quiesce, CallHelper, Called
<1>4. dep.pc \in PerRole  BY <1>3 DEF PerRole
<1>5. tokenFile' \in [Roles -> Tokens \cup {NoToken}]  BY <1>1, <1>3 DEF WayInCovered
<1>6. PICK h : h = Called("cleanup", Role, dep.verified)  OBVIOUS
<1>7. h \in HelperRecords /\ h.pc = "open" /\ h.op = "cleanup" /\ h.role = Role /\ h.reads = 0 /\ h.token = NoToken
  BY <1>2, <1>6, CalledFacts
<1>8. DOMAIN dep' = DepFields /\ dep'.pc = "cleaned" /\ dep'.at = dep.at /\ dep'.verified = dep.verified
  BY <1>2, <1>3, GotoFacts
<1>9. dep'.pc \in Waits /\ WaitsFor(dep'.pc) = "cleanup" /\ dep'.pc \notin AllAudited
  BY <1>8 DEF Waits, WaitsFor, AfterCleanup, AllAudited, Registered
<1>10. helper' = [helper EXCEPT !["run"] = h]  BY <1>3, <1>6
<1> QED BY <1>2, <1>3, <1>4, <1>5, <1>7, <1>8, <1>9, <1>10, BootstrapMove DEF AfterCleanup

\* A deployment that ends inside the bootstrap takes no audit with it.
LEMMA BootstrapEnd ==
  ASSUME BootstrapInv, AsksKnown, UNCHANGED <<attempts, aliases, nodes, attesting, svid>>,
         helper'["run"] = NoProcess, TokensInv', Forward, EscrowKept, dep' = NoDeployment,
         tokenFile' \in [Roles -> Tokens \cup {NoToken}],
         \A r \in Roles : tokenFile'[r] # tokenFile[r] => Covered(r, tokenFile[r])'
  PROVE  BootstrapInv'
<1>1. dep'.pc = "idle" /\ DOMAIN dep' = DepFields /\ dep'.at \in DOMAIN RoleOrder /\ dep'.verified \in BOOLEAN
  BY NoDeploymentFacts
<1>2. /\ dep'.pc \notin Waits /\ dep'.pc # "deliver" /\ dep'.pc \notin AfterCleanup
      /\ dep'.pc \notin PerRole /\ dep'.pc \notin AllAudited
  BY <1>1 DEF Waits, AfterCleanup, PerRole, AllAudited, Registered
<1> QED BY <1>1, <1>2, DeployStep

\* The answer of cleanup, in the always section.
LEMMA CleanedStep ==
  ASSUME BootstrapInv, AsksKnown, Cleaned
  PROVE  BootstrapInv'
<1>1. TokensInv /\ TokenTypes /\ WayInCovered /\ DeploymentSane  BY DEF BootstrapInv, TokensInv
<1>2. Role \in Roles /\ DOMAIN dep = DepFields /\ dep.verified \in BOOLEAN
  BY <1>1, RoleIsRole DEF Role, DeploymentSane
<1>3. /\ UNCHANGED <<attempts, inodes, live, issued, aliases, nodes, attesting, audited, svid>>
      /\ dep.pc = "cleaned" /\ helper' = [helper EXCEPT !["run"] = NoProcess]
      /\ tokenFile' \in {tokenFile, [tokenFile EXCEPT ![Role] = NoToken]}
  BY DEF Cleaned, ReapHelper
<1>4. dep.pc \in PerRole  BY <1>3 DEF PerRole, Waits, AfterCleanup
<1>5. tokenFile' \in [Roles -> Tokens \cup {NoToken}]  BY <1>1, <1>3 DEF WayInCovered
<1>6. \A r \in Roles : tokenFile'[r] # tokenFile[r] => Covered(r, tokenFile[r])'
  <2> SUFFICES ASSUME NEW r \in Roles, tokenFile'[r] # tokenFile[r] PROVE Covered(r, tokenFile[r])'
    OBVIOUS
  <2>1. tokenFile'[r] = NoToken  BY <1>1, <1>3 DEF WayInCovered
  <2> QED BY <2>1 DEF Covered
<1>7. \/ dep' = NoDeployment
      \/ helper["run"].pc = "done" /\ dep' = [dep EXCEPT !.pc = "resume", !.token = NoToken]
  BY DEF Cleaned
<1>8. CASE dep' = NoDeployment
  <2>1. NoProcess.pc \notin Holding /\ NoProcess.pc \notin {"open", "lock"}  BY NoProcessFacts DEF Holding
  <2>2. TokensInv' /\ Forward /\ EscrowKept  BY <1>1, <1>3, <2>1, NoProcessFacts, RunChanges
  <2>3. helper'["run"] = NoProcess /\ helper'["orphan"] = helper["orphan"]
    BY <1>1, <1>3 DEF TokenTypes, Slots
  <2> QED BY <1>3, <1>5, <1>6, <1>8, <2>2, <2>3, BootstrapEnd
<1>9. CASE helper["run"].pc = "done" /\ dep' = [dep EXCEPT !.pc = "resume", !.token = NoToken]
  <2>1. DOMAIN dep' = DepFields /\ dep'.pc = "resume" /\ dep'.at = dep.at /\ dep'.verified = dep.verified
    BY <1>2, <1>9 DEF DepFields
  <2>2. Unissued(Role)  BY <1>1, <1>3, <1>9 DEF DeploymentSane
  <2>3. dep'.pc \notin Waits /\ dep'.pc \notin AllAudited  BY <2>1 DEF Waits, AfterCleanup, AllAudited, Registered
  <2> QED BY <1>2, <1>3, <1>4, <1>5, <1>6, <2>1, <2>2, <2>3, NoProcessFacts, BootstrapMove
<1> QED BY <1>7, <1>8, <1>9

\* What an earlier attempt left on the host is removed.
LEMMA RemoveStaleTokenStep ==
  ASSUME BootstrapInv, AsksKnown, RemoveStaleToken
  PROVE  BootstrapInv'
<1>1. TokensInv /\ TokenTypes /\ WayInCovered /\ DeploymentSane  BY DEF BootstrapInv, TokensInv
<1>2. Role \in Roles /\ DOMAIN dep = DepFields /\ dep.verified \in BOOLEAN
  BY <1>1, RoleIsRole DEF Role, DeploymentSane
<1>3. /\ UNCHANGED <<attempts, inodes, live, issued, aliases, nodes, attesting, audited, svid, helper>>
      /\ dep.pc = "stale" /\ Goto("retain") /\ tokenFile' = [tokenFile EXCEPT ![Role] = NoToken]
  BY DEF RemoveStaleToken, tokenVars
<1>4. dep.pc \in PerRole /\ dep.pc \notin Waits  BY <1>3 DEF PerRole, Waits
<1>5. helper["run"] = NoProcess /\ helper' = [helper EXCEPT !["run"] = NoProcess]
  BY <1>1, <1>3, <1>4 DEF DeploymentSane, TokenTypes, Slots
<1>6. tokenFile' \in [Roles -> Tokens \cup {NoToken}]  BY <1>1, <1>3 DEF WayInCovered
<1>7. \A r \in Roles : tokenFile'[r] # tokenFile[r] => Covered(r, tokenFile[r])'
  <2> SUFFICES ASSUME NEW r \in Roles, tokenFile'[r] # tokenFile[r] PROVE Covered(r, tokenFile[r])'
    OBVIOUS
  <2>1. tokenFile'[r] = NoToken  BY <1>1, <1>3 DEF WayInCovered
  <2> QED BY <2>1 DEF Covered
<1>8. DOMAIN dep' = DepFields /\ dep'.pc = "retain" /\ dep'.at = dep.at /\ dep'.verified = dep.verified
  BY <1>2, <1>3, GotoFacts
<1>9. dep'.pc \notin Waits /\ dep'.pc \notin AllAudited /\ dep'.pc \notin AfterCleanup
  BY <1>8 DEF Waits, AfterCleanup, AllAudited, Registered
<1> QED BY <1>2, <1>3, <1>4, <1>5, <1>6, <1>7, <1>8, <1>9, NoProcessFacts, BootstrapMove

\* The new agent is restarted, and waited for.
LEMMA ResumeStep ==
  ASSUME BootstrapInv, AsksKnown, ResumeAgent \/ AwaitResumed
  PROVE  BootstrapInv'
<1>1. TokensInv /\ TokenTypes /\ WayInCovered /\ DeploymentSane  BY DEF BootstrapInv, TokensInv
<1>2. Role \in Roles /\ DOMAIN dep = DepFields /\ dep.verified \in BOOLEAN
  BY <1>1, RoleIsRole DEF Role, DeploymentSane
<1>3. UNCHANGED <<tokenVars, tokenFile, svid>> /\ dep.pc \in {"resume", "await"}
  BY DEF ResumeAgent, AwaitResumed, HostsKeep, hostVars
<1>4. dep.pc \in PerRole /\ dep.pc \notin Waits /\ dep.pc \in AfterCleanup  BY <1>3 DEF PerRole, Waits, AfterCleanup
<1>5. dep' = NoDeployment \/ Goto("await") \/ Goto("alias")  BY DEF ResumeAgent, AwaitResumed, Goto
<1>6. CASE dep' = NoDeployment  BY <1>3, <1>4, <1>6, PlainEnd
<1>7. CASE Goto("await") \/ Goto("alias")
  <2>1. UNCHANGED <<attempts, inodes, live, issued, aliases, nodes, attesting, audited, helper>>
    BY <1>3 DEF tokenVars
  <2>2. helper["run"] = NoProcess /\ helper' = [helper EXCEPT !["run"] = NoProcess]
    BY <1>1, <1>4, <2>1 DEF DeploymentSane, TokenTypes, Slots
  <2>3. tokenFile' \in [Roles -> Tokens \cup {NoToken}]  BY <1>1, <1>3 DEF WayInCovered
  <2>4. /\ DOMAIN dep' = DepFields /\ dep'.pc \in {"await", "alias"}
        /\ dep'.at = dep.at /\ dep'.verified = dep.verified
    BY <1>2, <1>7, GotoFacts
  <2>5. dep'.pc \notin Waits /\ dep'.pc \notin AllAudited /\ dep'.pc # "deliver"
    BY <2>4 DEF Waits, AfterCleanup, AllAudited, Registered
  <2>6. Unissued(Role)  BY <1>1, <1>4 DEF DeploymentSane
  <2> QED BY <1>2, <1>3, <1>4, <2>1, <2>2, <2>3, <2>4, <2>5, <2>6, NoProcessFacts, BootstrapMove
<1> QED BY <1>5, <1>6, <1>7

\* The answer of cleanup, for an agent that was healthy.
LEMMA RetainedStep ==
  ASSUME BootstrapInv, AsksKnown, Retained
  PROVE  BootstrapInv'
<1>1. TokensInv /\ TokenTypes /\ WayInCovered /\ DeploymentSane  BY DEF BootstrapInv, TokensInv
<1>2. Role \in Roles /\ DOMAIN dep = DepFields /\ dep.verified \in BOOLEAN
  BY <1>1, RoleIsRole DEF Role, DeploymentSane
<1>3. /\ UNCHANGED <<attempts, inodes, live, issued, aliases, nodes, attesting, audited, svid, tokenFile>>
      /\ dep.pc = "retained" /\ helper' = [helper EXCEPT !["run"] = NoProcess]
  BY DEF Retained, ReapHelper, HostsKeep, hostVars
<1>4. dep.pc \in PerRole  BY <1>3 DEF PerRole, Waits, AfterCleanup
<1>5. tokenFile' \in [Roles -> Tokens \cup {NoToken}]  BY <1>1, <1>3 DEF WayInCovered
<1>6. CASE helper["run"].pc = "done"
  <2>1. Goto("alias")  BY <1>6 DEF Retained, Goto
  <2>2. DOMAIN dep' = DepFields /\ dep'.pc = "alias" /\ dep'.at = dep.at /\ dep'.verified = dep.verified
    BY <1>2, <2>1, GotoFacts
  <2>3. Unissued(Role)  BY <1>1, <1>3, <1>6 DEF DeploymentSane
  <2>4. dep'.pc \notin Waits /\ dep'.pc \notin AllAudited  BY <2>2 DEF Waits, AfterCleanup, AllAudited, Registered
  <2> QED BY <1>2, <1>3, <1>4, <1>5, <2>2, <2>3, <2>4, NoProcessFacts, BootstrapMove
<1>7. CASE helper["run"].pc # "done"
  <2>1. dep' = NoDeployment  BY <1>7 DEF Retained
  <2>2. NoProcess.pc \notin Holding /\ NoProcess.pc \notin {"open", "lock"}  BY NoProcessFacts DEF Holding
  <2>3. TokensInv' /\ Forward /\ EscrowKept  BY <1>1, <1>3, <2>2, NoProcessFacts, RunChanges
  <2>4. helper'["run"] = NoProcess /\ helper'["orphan"] = helper["orphan"]
    BY <1>1, <1>3 DEF TokenTypes, Slots
  <2> QED BY <1>3, <1>5, <2>1, <2>3, <2>4, BootstrapEnd
<1> QED BY <1>6, <1>7

\* The role's alias is audited: its attempt is gone, so nothing touches it any more.
LEMMA AuditAliasStep ==
  ASSUME BootstrapInv, AsksKnown, AuditAlias
  PROVE  BootstrapInv'
<1>1. TokensInv /\ TokenTypes /\ ServerSane /\ WayInCovered /\ DeploymentSane /\ AuditsStand
  BY DEF BootstrapInv, TokensInv
<1>2. PICK n, r : n = dep.at /\ r = RoleOrder[n]  OBVIOUS
<1>3. Role = r /\ r \in Roles /\ n \in 1 .. Len(RoleOrder) /\ Len(RoleOrder) \in Nat
  BY <1>1, <1>2, RoleIsRole, Positions DEF Role, DeploymentSane
<1>4. /\ UNCHANGED <<attempts, inodes, live, issued, aliases, nodes, attesting, svid, helper, tokenFile>>
      /\ dep.pc = "alias" /\ aliases[r] \in nodes /\ audited' = audited \cup {aliases[r]}
      /\ NextRole("stale", "prune")
  BY <1>3 DEF AuditAlias, HostsKeep, hostVars
<1>5. dep.pc \in PerRole /\ dep.pc \notin Waits  BY <1>4 DEF PerRole, Waits, AfterCleanup
<1>6. helper["run"] = NoProcess /\ helper' = [helper EXCEPT !["run"] = NoProcess]
  BY <1>1, <1>4, <1>5 DEF DeploymentSane, TokenTypes, Slots
<1>7. tokenFile' \in [Roles -> Tokens \cup {NoToken}]  BY <1>1, <1>4 DEF WayInCovered
<1>8. NoProcess.pc \notin Holding /\ NoProcess.pc \notin {"open", "lock"}  BY NoProcessFacts DEF Holding
<1>9. TokensInv' /\ Forward /\ EscrowKept  BY <1>1, <1>4, <1>6, <1>8, NoProcessFacts, RunChanges
<1>10. attempts[r].state = "absent"
  <2>1. aliases[r] # NoToken  BY <1>1, <1>4, IssuedTokens DEF ServerSane
  <2> QED BY <1>1, <1>3, <1>4, <2>1 DEF DeploymentSane, Unissued, AfterCleanup
<1>11. \A i \in 1 .. n : Admitted(RoleOrder[i])'
  <2> SUFFICES ASSUME NEW i \in 1 .. n PROVE Admitted(RoleOrder[i])'  OBVIOUS
  <2>1. CASE i = n  BY <1>2, <1>3, <1>4, <1>10, <2>1 DEF Admitted
  <2>2. CASE i # n
    <3>1. i \in 1 .. (dep.at - 1)  BY <1>2, <1>3, <2>2
    <3>2. Admitted(RoleOrder[i])  BY <1>1, <1>5, <3>1 DEF AuditsStand
    <3> QED BY <1>4, <3>2 DEF Admitted
  <2> QED BY <2>1, <2>2
<1>12. /\ DOMAIN dep' = DepFields /\ dep'.verified \in BOOLEAN /\ dep'.at \in DOMAIN RoleOrder
       /\ \/ dep'.pc = "stale" /\ dep'.at = n + 1
          \/ dep'.pc = "prune" /\ n = Len(RoleOrder)
  BY <1>1, <1>2, <1>4, NextRoleFacts DEF DeploymentSane
<1>13. dep'.pc \notin Waits /\ dep'.pc # "deliver" /\ dep'.pc \notin AfterCleanup  BY <1>12 DEF Waits, AfterCleanup
<1>14. dep'.pc \in PerRole => \A i \in 1 .. (dep'.at - 1) : Admitted(RoleOrder[i])'
  <2>1. dep'.pc \in PerRole => dep'.at = n + 1  BY <1>12 DEF PerRole, Waits, AfterCleanup
  <2>2. (n + 1) - 1 = n  BY <1>3
  <2> QED BY <1>11, <2>1, <2>2
<1>15. dep'.pc \in AllAudited => \A q \in Roles : Admitted(q)'
  <2> SUFFICES ASSUME dep'.pc \in AllAudited, NEW q \in Roles PROVE Admitted(q)'  OBVIOUS
  <2>1. n = Len(RoleOrder)  BY <1>12 DEF AllAudited, Registered
  <2>2. PICK i \in DOMAIN RoleOrder : RoleOrder[i] = q  BY Positions
  <2>3. i \in 1 .. n  BY <2>1, <2>2, Positions
  <2>4. Admitted(RoleOrder[i])'  BY <1>11, <2>3
  <2> QED BY <2>2, <2>4
<1> QED BY <1>4, <1>6, <1>7, <1>9, <1>12, <1>13, <1>14, <1>15, DeployStep

\* A new deployment.
LEMMA StartDeploymentStep ==
  ASSUME BootstrapInv, AsksKnown, NEW c, StartDeployment(c)
  PROVE  BootstrapInv'
<1>1. UNCHANGED <<tokenVars, tokenFile, svid>>  BY PlainFrame
<1>2. dep.pc = "idle" /\ dep' = [NoDeployment EXCEPT !.pc = "bundle", !.commit = c]  BY DEF StartDeployment
<1>3. DOMAIN dep' = DepFields /\ dep'.pc = "bundle" /\ dep'.at = 1 /\ dep'.verified = FALSE
  BY <1>2 DEF NoDeployment, DepFields
<1>4. /\ dep.pc \notin Waits /\ dep'.pc \notin Waits \cup {"deliver"} \cup AfterCleanup
      /\ dep'.pc \notin PerRole /\ dep'.pc \notin AllAudited
  BY <1>2, <1>3 DEF Waits, AfterCleanup, PerRole, AllAudited, Registered
<1>5. dep'.at \in DOMAIN RoleOrder  BY <1>3, Positions
<1> QED BY <1>1, <1>3, <1>4, <1>5, PlainMove

\* A kill: the helper goes on without its deployment.
LEMMA KillDeploymentStep ==
  ASSUME BootstrapInv, AsksKnown, KillDeployment
  PROVE  BootstrapInv'
<1>1. TokensInv /\ TokenTypes /\ WayInCovered  BY DEF BootstrapInv, TokensInv
<1>2. /\ UNCHANGED <<attempts, inodes, live, issued, aliases, nodes, attesting, audited, svid, tokenFile>>
      /\ dep' = NoDeployment /\ OrphanHelper
  BY DEF KillDeployment, HostsKeep, hostVars
<1>3. tokenFile' \in [Roles -> Tokens \cup {NoToken}]  BY <1>1, <1>2 DEF WayInCovered
<1>4. CASE helper["run"].pc \in {"idle", "done", "failed"}
  <2>1. helper' = [helper EXCEPT !["run"] = NoProcess]  BY <1>2, <1>4 DEF OrphanHelper
  <2>2. NoProcess.pc \notin Holding /\ NoProcess.pc \notin {"open", "lock"}  BY NoProcessFacts DEF Holding
  <2>3. TokensInv' /\ Forward /\ EscrowKept  BY <1>1, <1>2, <2>1, <2>2, NoProcessFacts, RunChanges
  <2>4. helper'["run"] = NoProcess  BY <1>1, <2>1 DEF TokenTypes, Slots
  <2> QED BY <1>2, <1>3, <2>3, <2>4, BootstrapEnd
<1>5. CASE helper["run"].pc \notin {"idle", "done", "failed"}
  <2>1. PICK h : h = helper["run"]  OBVIOUS
  <2>2. h \in HelperRecords  BY <1>1, <2>1 DEF TokenTypes, Slots
  <2>3. helper' = [s \in Slots |-> IF s = "run" THEN NoProcess ELSE h]  BY <1>2, <1>5, <2>1 DEF OrphanHelper
  <2>4. helper'["run"] = NoProcess /\ helper'["orphan"] = h /\ helper' \in [Slots -> HelperRecords]
    BY <2>2, <2>3, NoProcessFacts DEF Slots
  <2>5. Forward /\ EscrowKept  BY <1>1, <1>2 DEF Forward, TokenTypes, EscrowKept
  <2>6. TokenTypes' /\ ServerSane' /\ EscrowSane'
    BY <1>1, <1>2, <2>4 DEF TokensInv, TokenTypes, ServerSane, EscrowSane, Issued
  <2>7. ~Working("run")' /\ helper'["run"].pc \notin Holding \cup {"open", "lock"}
    BY <2>4, NoProcessFacts DEF Working, Holding
  <2>8. HeldByOne'  BY <2>7 DEF HeldByOne
  <2>9. HelperSane("run")'  BY <2>7 DEF HelperSane, Holding
  <2>10. HelperSane("orphan")'
    <3>1. HelperSane("run")  BY <1>1 DEF TokensInv, Slots
    <3>2. Working("orphan")' = Working("run")  BY <2>1, <2>4 DEF Working
    <3>3. h.pc \in Holding => HolderSane(h, attempts[h.role])  BY <2>1, <3>1 DEF HelperSane
    <3>4. h.pc \in Holding => HolderSane(helper["orphan"], attempts[helper["orphan"].role])'
      BY <1>2, <2>4, <3>3
         DEF HolderSane, ArmHolds, GenerateHolds, CleanupHolds, Retired, Issued
    <3> QED BY <2>1, <2>4, <3>1, <3>2, <3>4 DEF HelperSane
  <2>11. \A r \in Roles : OwnTokens(r)' \subseteq OwnTokens(r)
    <3> SUFFICES ASSUME NEW r \in Roles, NEW t \in OwnTokens(r)' PROVE t \in OwnTokens(r)  OBVIOUS
    <3>1. t # NoToken /\ (t \in {aliases[r], attempts[r].token}
                           \/ \E s \in Slots : Working(s)' /\ helper'[s].role = r /\ t = helper'[s].token)
      BY <1>2 DEF OwnTokens
    <3>2. ASSUME NEW s \in Slots, Working(s)', helper'[s].role = r, t = helper'[s].token
          PROVE  t \in OwnTokens(r)
      <4>1. s = "orphan"  BY <2>7, <3>2 DEF Slots
      <4>2. Working("run") /\ helper["run"].role = r /\ t = helper["run"].token
        BY <2>1, <2>4, <3>2, <4>1 DEF Working
      <4> QED BY <3>1, <4>2 DEF OwnTokens, Slots
    <3> QED BY <3>1, <3>2 DEF OwnTokens
  <2>12. OwnersApart'
    <3>1. Issued' = Issued /\ OwnersApart  BY <1>1, <1>2 DEF Issued, TokensInv
    <3>2. \A r \in Roles : OwnTokens(r)' \subseteq Issued'  BY <2>11, <3>1 DEF OwnersApart
    <3>3. \A r, q \in Roles : r # q => OwnTokens(r)' \cap OwnTokens(q)' = {}
      BY <2>11, <3>1 DEF OwnersApart
    <3> QED BY <3>2, <3>3 DEF OwnersApart
  <2>13. TokensInv'  BY <2>6, <2>8, <2>9, <2>10, <2>12 DEF TokensInv, Slots
  <2> QED BY <1>2, <1>3, <2>4, <2>5, <2>13, BootstrapEnd
<1> QED BY <1>4, <1>5

\* Everything else leaves the bootstrap alone.
LEMMA BootstrapLeft ==
  ASSUME BootstrapInv, AsksKnown, UNCHANGED <<tokenVars, tokenFile, svid, dep>>
  PROVE  BootstrapInv'
<1>1. TokensInv /\ TokenTypes /\ ServerSane /\ WayInCovered  BY DEF BootstrapInv, TokensInv
<1>2. UNCHANGED <<attempts, inodes, live, issued, aliases, nodes, attesting, audited, helper>>
  BY DEF tokenVars
<1>3. ServerSane' /\ Forward /\ attesting' \in [role : Roles \cup {NoToken}, token : Tokens \cup {NoToken}, delay : Nat]
  BY <1>1, <1>2 DEF ServerSane, Forward, Issued, TokenTypes
<1>4. TokensInv' /\ EscrowKept  BY <1>1, <1>2, <1>3, ServerStep
<1>5. svid' \in [Roles -> Tokens \cup {NoToken}]  BY <1>1 DEF WayInCovered
<1>6. attesting' # NoAttestation => Covered(attesting.role, attesting.token)'
  BY <1>1, <1>2 DEF WayInCovered, Covered, Retired, Issued
<1> QED BY <1>2, <1>3, <1>4, <1>5, <1>6, BesideDeployment

\* Nobody hands an agent a token that was not on its host.
LEMMA AsksNext ==
  ASSUME BootstrapInv, PipelineNext
  PROVE  AsksKnown
<1>1. WayInCovered /\ DeploymentSane  BY DEF BootstrapInv
<1>2. Role \in Roles  BY <1>1, RoleIsRole DEF Role, DeploymentSane
<1>3. /\ asking \in [Roles -> Tokens \cup {NoToken}] /\ tokenFile \in [Roles -> Tokens \cup {NoToken}]
  BY <1>1 DEF WayInCovered
<1>4. ASSUME asking' = asking PROVE AsksKnown  BY <1>3, <1>4 DEF AsksKnown
<1>5. ASSUME NEW r \in Roles, NEW t \in {asking[r], tokenFile[r], NoToken}, asking' = [asking EXCEPT ![r] = t]
      PROVE  AsksKnown
  BY <1>3, <1>5 DEF AsksKnown
<1>6. CASE Build \/ Prepare  BY <1>4, <1>6 DEF Build, Prepare, OutsideBuild, OutsidePlan, depVars, hostVars
<1>7. CASE Deploy
  <2>1. CASE StartRetained \/ ResumeAgent
    <3>1. asking' = asking \/ asking' = [asking EXCEPT ![Role] = NoToken]
      BY <2>1 DEF StartRetained, ResumeAgent
    <3> QED BY <1>2, <1>4, <1>5, <3>1
  <2>2. CASE StartAgent
    <3>1. asking' = [asking EXCEPT ![Role] = tokenFile[Role]]  BY <2>2 DEF StartAgent
    <3> QED BY <1>2, <1>5, <3>1
  <2>3. CASE Quiesce
    <3>1. PICK t : t = IF agentUp'[Role] THEN asking[Role] ELSE NoToken  OBVIOUS
    <3>2. asking' = [asking EXCEPT ![Role] = t]  BY <2>3, <3>1 DEF Quiesce
    <3> QED BY <1>2, <1>5, <3>1, <3>2
  <2>4. CASE ~(StartRetained \/ ResumeAgent \/ StartAgent \/ Quiesce)
    BY <1>4, <1>7, <2>4
       DEF Deploy, StartDeployment, CopyBundle, CopyInputs, CompileDeployment, BeginApply, LoadArtifacts,
           AllowPlanned, DeleteStaleRules, RemoveStaleToken, CheckHealth, Armed, Generated, DeliverToken,
           AuditAgent, FailBlock, Cleaned, AwaitResumed, Retained, AuditAlias, PruneEntries,
           ReconcileEntries, AuditEntries, StartService, FinishApply, ProbeInitial, RestartService,
           SignProbe, VerifyProbe, StopDeployment, FailRestart, HostsKeep, hostVars
  <2> QED BY <2>1, <2>2, <2>3, <2>4
<1>8. CASE Remote
  BY <1>4, <1>8 DEF Remote, HelperRuns, Attest, FinishAttestation, HostsKeep, hostVars
<1>9. CASE Accept \/ KillAcceptance
  <2>1. DeploymentKeeps
    BY <1>9 DEF Accept, BeginAcceptance, CollectBefore, Baseline, InstallPartition, InstallTimesOut,
                CheckDenial, FailPartition, CheckAbsence, ReadFails, CheckRestored, CollectAfter,
                WriteReport, AbortAcceptance, LateInsertion, KillAcceptance
  <2> QED BY <1>4, <2>1 DEF DeploymentKeeps, depVars, hostVars
<1>10. CASE Disturb
  <2>1. \/ OutsideCheckout \/ OutsideBuild \/ OutsidePlan \/ KillDeployment
        \/ (\E r \in Roles : DriftFirewall(r)) \/ (\E r \in Roles : AgentRestarts(r)) \/ KillAcceptance
    BY <1>10 DEF Disturb
  <2>2. CASE \E r \in Roles : AgentRestarts(r)
    <3>1. PICK r \in Roles : AgentRestarts(r)  BY <2>2
    <3>2. asking' = [asking EXCEPT ![r] = tokenFile[r]]  BY <3>1 DEF AgentRestarts
    <3> QED BY <1>5, <3>1, <3>2
  <2>3. CASE OutsideCheckout \/ OutsideBuild \/ OutsidePlan \/ KillDeployment \/ \E r \in Roles : DriftFirewall(r)
    BY <1>4, <2>3 DEF OutsideCheckout, OutsideBuild, OutsidePlan, KillDeployment, DriftFirewall, HostsKeep,
                      depVars, hostVars
  <2> QED BY <1>9, <2>1, <2>2, <2>3
<1> QED BY <1>6, <1>7, <1>8, <1>9, <1>10 DEF PipelineNext

\* Every step preserves what the bootstrap rests on.
LEMMA BootstrapNext ==
  ASSUME BootstrapInv, PipelineNext
  PROVE  BootstrapInv'
<1>0. AsksKnown  BY AsksNext
<1>1. CASE Build
  <2>1. UNCHANGED <<tokenVars, tokenFile, svid, dep>>  BY <1>1 DEF Build, OutsideBuild, depVars, hostVars
  <2> QED BY <1>0, <2>1, BootstrapLeft
<1>2. CASE Prepare
  <2>1. UNCHANGED <<tokenVars, tokenFile, svid, dep>>  BY <1>2 DEF Prepare, OutsidePlan, depVars, hostVars
  <2> QED BY <1>0, <2>1, BootstrapLeft
<1>3. CASE Deploy
  <2>1. \/ \E c \in Commits : StartDeployment(c)
        \/ Plain \/ VerifyProbe \/ StopDeployment \/ FailRestart
        \/ RemoveStaleToken \/ CheckHealth \/ Armed \/ Generated \/ DeliverToken \/ AuditAgent \/ Quiesce \/ Cleaned \/ Retained
        \/ ResumeAgent \/ AwaitResumed \/ AuditAlias
    BY <1>3 DEF Deploy, Plain
  <2> QED BY <1>0, <2>1, StartDeploymentStep, PlainStep, PlainEndStep, CheckHealthStep, ArmedStep, GeneratedStep,
             DeliverTokenStep, AuditAgentStep, QuiesceStep, CleanedStep, RetainedStep, AuditAliasStep,
             RemoveStaleTokenStep, ResumeStep
<1>4. CASE Remote
  BY <1>0, <1>4, HelperRunsStep, AttestStep, FinishAttestationStep DEF Remote
<1>5. CASE Accept \/ KillAcceptance
  <2>1. DeploymentKeeps
    BY <1>5 DEF Accept, BeginAcceptance, CollectBefore, Baseline, InstallPartition, InstallTimesOut,
                CheckDenial, FailPartition, CheckAbsence, ReadFails, CheckRestored, CollectAfter,
                WriteReport, AbortAcceptance, LateInsertion, KillAcceptance
  <2>2. UNCHANGED <<tokenVars, tokenFile, svid, dep>>  BY <2>1 DEF DeploymentKeeps, depVars, hostVars
  <2> QED BY <1>0, <2>2, BootstrapLeft
<1>6. CASE Disturb
  <2>1. \/ OutsideCheckout \/ OutsideBuild \/ OutsidePlan
        \/ KillDeployment \/ (\E r \in Roles : DriftFirewall(r) \/ AgentRestarts(r)) \/ KillAcceptance
    BY <1>6 DEF Disturb
  <2>2. CASE OutsideCheckout \/ OutsideBuild \/ OutsidePlan
    <3>1. UNCHANGED <<tokenVars, tokenFile, svid, dep>>
      BY <2>2 DEF OutsideCheckout, OutsideBuild, OutsidePlan, depVars, hostVars
    <3> QED BY <1>0, <3>1, BootstrapLeft
  <2>3. CASE KillDeployment  BY <1>0, <2>3, KillDeploymentStep
  <2>4. CASE \E r \in Roles : DriftFirewall(r) \/ AgentRestarts(r)
    <3>1. UNCHANGED <<tokenVars, tokenFile, svid, dep>>  BY <2>4 DEF DriftFirewall, AgentRestarts
    <3> QED BY <1>0, <3>1, BootstrapLeft
  <2>5. CASE KillAcceptance  BY <1>5, <2>5
  <2> QED BY <2>1, <2>2, <2>3, <2>4, <2>5
<1> QED BY <1>1, <1>2, <1>3, <1>4, <1>5, <1>6 DEF PipelineNext

----------------------------------------------------------------------------
(***************************************************************************)
(* The bundle, the plan and the hosts.                                     *)
(***************************************************************************)
\* What others do to the builder's daemon and path.
DisturbBuild ==
  \/ ReplaceDaemon \/ PruneImages \/ KillBuild \/ (\E i \in store : TagImage(i))
  \/ \E b \in ForeignBundles \cup {Nothing} : SwapBundle(b)

\* The invocation's own steps.
BuildSteps ==
  \/ \E c, key, expected : StartBuild(c, FALSE, key, expected)
  \/ \E c : StartBuild(c, TRUE, Nothing, Nothing)
  \/ OpenBoundary \/ ExportSource \/ BuildImage \/ (\E payload : SaveImage(payload))
  \/ VerifyArchive \/ RecheckBuilder \/ PublishBundle \/ FinishBuild \/ FailBuild

\* A step of the invocation from one place to the next.
LEMMA BuildGoto ==
  ASSUME DOMAIN build = BuildFields, NEW p, build' = [build EXCEPT !.pc = p]
  PROVE  /\ DOMAIN build' = BuildFields /\ build'.pc = p /\ build'.planOnly = build.planOnly
         /\ build'.image = build.image /\ build'.archive = build.archive /\ build'.expected = build.expected
BY DEF BuildFields

\* An invocation that has ended.
LEMMA NoBuildFacts ==
  DOMAIN NoBuild = BuildFields /\ NoBuild.pc = "idle"
BY DEF NoBuild, BuildFields

\* A bundle the trusted key signs for the reviewed profile holds the files of its commit.
LEMMA BuilderStep ==
  ASSUME BuildSane, FaithfulBundle(bundle), BuildSteps \/ DisturbBuild
  PROVE  BuildSane' /\ FaithfulBundle(bundle)'
<1>1. CASE \E c, planOnly, key, expected : StartBuild(c, planOnly, key, expected)
  <2>1. PICK c, planOnly, key, expected : StartBuild(c, planOnly, key, expected)  BY <1>1
  <2>2. PICK p : p = IF planOnly THEN "export" ELSE "boundary"  OBVIOUS
  <2>3. build' = [pc |-> p, planOnly |-> planOnly, commit |-> c, key |-> key, expected |-> expected,
                  image |-> Nothing, archive |-> Nothing] /\ bundle' = bundle
    BY <2>1, <2>2 DEF StartBuild
  <2>4. DOMAIN build' = BuildFields /\ build'.pc = p  BY <2>3 DEF BuildFields
  <2>5. p \in {"export", "boundary"}  BY <2>2
  <2> QED BY <2>3, <2>4, <2>5 DEF BuildSane, FaithfulBundle
<1>2. CASE OpenBoundary
  <2>1. build' = [build EXCEPT !.pc = "export"] /\ bundle' = bundle  BY <1>2 DEF OpenBoundary
  <2>2. DOMAIN build' = BuildFields /\ build'.pc = "export"  BY <2>1, BuildGoto DEF BuildSane
  <2> QED BY <2>1, <2>2 DEF BuildSane, FaithfulBundle
<1>3. CASE ExportSource
  <2>1. PICK p : p = IF build.planOnly THEN "publish" ELSE "build"  OBVIOUS
  <2>2. build' = [build EXCEPT !.pc = p] /\ bundle' = bundle  BY <1>3, <2>1 DEF ExportSource
  <2>3. DOMAIN build' = BuildFields /\ build'.pc = p /\ build'.planOnly = build.planOnly
    BY <2>2, BuildGoto DEF BuildSane
  <2>4. (p = "publish" /\ build.planOnly) \/ (p = "build" /\ ~build.planOnly)  BY <2>1
  <2> QED BY <2>2, <2>3, <2>4 DEF BuildSane, FaithfulBundle
<1>4. CASE BuildImage
  <2>1. PICK i : i = BuiltImage  OBVIOUS
  <2>2. build' = [build EXCEPT !.pc = "save", !.image = i] /\ bundle' = bundle /\ profile' = profile
        /\ build.pc = "build"
    BY <1>4, <2>1 DEF BuildImage
  <2>3. DOMAIN build' = BuildFields /\ build'.pc = "save" /\ build'.planOnly = build.planOnly /\ build'.image = i
    BY <2>2 DEF BuildSane, BuildFields
  <2>4. profile = ReviewedProfile => FaithfulImage(i)  BY <2>1 DEF BuiltImage, FaithfulImage
  <2> QED BY <2>2, <2>3, <2>4 DEF BuildSane, FaithfulBundle, FaithfulImage
<1>5. CASE \E payload : SaveImage(payload)
  <2>1. PICK payload : SaveImage(payload)  BY <1>5
  <2>2. PICK a : a = [index |-> build.image, payload |-> payload]  OBVIOUS
  <2>3. build' = [build EXCEPT !.pc = "verify", !.archive = a] /\ bundle' = bundle /\ profile' = profile
        /\ build.pc = "save" /\ a.index = build.image
    BY <2>1, <2>2 DEF SaveImage
  <2>4. DOMAIN build' = BuildFields /\ build'.pc = "verify" /\ build'.planOnly = build.planOnly
        /\ build'.image = build.image /\ build'.archive = a
    BY <2>3 DEF BuildSane, BuildFields
  <2> QED BY <2>3, <2>4 DEF BuildSane, FaithfulBundle, FaithfulImage
<1>6. CASE VerifyArchive
  <2>1. build' = [build EXCEPT !.pc = "recheck"] /\ bundle' = bundle /\ profile' = profile /\ build.pc = "verify"
    BY <1>6 DEF VerifyArchive
  <2>2. DOMAIN build' = BuildFields /\ build'.pc = "recheck" /\ build'.planOnly = build.planOnly
        /\ build'.image = build.image /\ build'.archive = build.archive
    BY <2>1, BuildGoto DEF BuildSane
  <2> QED BY <2>1, <2>2 DEF BuildSane, FaithfulBundle, FaithfulImage
<1>7. CASE RecheckBuilder
  <2>1. build' = [build EXCEPT !.pc = "publish"] /\ bundle' = bundle /\ build.pc = "recheck"
        /\ profile = build.expected
    BY <1>7 DEF RecheckBuilder, TrustUnchanged, BoundaryUnchanged, ProfileIs
  <2>2. DOMAIN build' = BuildFields /\ build'.pc = "publish" /\ build'.planOnly = build.planOnly
        /\ build'.image = build.image /\ build'.archive = build.archive /\ build'.expected = build.expected
    BY <2>1, BuildGoto DEF BuildSane
  <2> QED BY <2>1, <2>2 DEF BuildSane, FaithfulBundle, FaithfulImage
<1>8. CASE PublishBundle
  <2>1. bundle' = BundleOf(build) /\ build' = [build EXCEPT !.pc = "sync"] /\ build.pc = "publish"
    BY <1>8 DEF PublishBundle
  <2>2. DOMAIN build' = BuildFields /\ build'.pc = "sync"  BY <2>1, BuildGoto DEF BuildSane
  <2>3. BuildSane'  BY <2>2 DEF BuildSane
  <2>4. BundleOf(build).accepted = ~build.planOnly /\ BundleOf(build).image = build.archive
        /\ BundleOf(build).profile = IF build.planOnly THEN Nothing ELSE build.expected
    BY DEF BundleOf
  <2>5. FaithfulBundle(BundleOf(build))
    BY <2>1, <2>4 DEF BuildSane, FaithfulBundle, FaithfulImage
  <2> QED BY <2>1, <2>3, <2>5 DEF FaithfulBundle
<1>9. CASE FinishBuild \/ FailBuild \/ KillBuild
  <2>1. build' = NoBuild /\ bundle' = bundle  BY <1>9 DEF FinishBuild, FailBuild, KillBuild
  <2> QED BY <2>1, NoBuildFacts DEF BuildSane, FaithfulBundle
<1>10. CASE ReplaceDaemon
  <2>1. build' = build /\ bundle' = bundle /\ profile' = OtherProfile  BY <1>10 DEF ReplaceDaemon
  <2> QED BY <2>1, BuilderAssumption DEF BuildSane, FaithfulBundle, FaithfulImage
<1>11. CASE PruneImages \/ \E i \in store : TagImage(i)
  <2>1. build' = build /\ bundle' = bundle /\ profile' = profile  BY <1>11 DEF PruneImages, TagImage
  <2> QED BY <2>1 DEF BuildSane, FaithfulBundle, FaithfulImage
<1>12. CASE \E b \in ForeignBundles \cup {Nothing} : SwapBundle(b)
  <2>1. PICK b \in ForeignBundles \cup {Nothing} : SwapBundle(b)  BY <1>12
  <2>2. build' = build /\ bundle' = b /\ profile' = profile  BY <2>1 DEF SwapBundle
  <2>3. FaithfulBundle(b)  BY <2>1, ForeignAssumption DEF FaithfulBundle
  <2> QED BY <2>2, <2>3 DEF BuildSane, FaithfulBundle, FaithfulImage
<1> QED BY <1>1, <1>2, <1>3, <1>4, <1>5, <1>6, <1>7, <1>8, <1>9, <1>10, <1>11, <1>12 DEF BuildSteps, DisturbBuild

\* A step that leaves the deployment and the hosts alone.
LEMMA PlanLeft ==
  ASSUME PlanSane, UNCHANGED <<host, entries, dep>>, FaithfulBundle(bundle)'
  PROVE  PlanSane'
BY DEF PlanSane, HostSane, Serves, FaithfulBundle

\* A deployment that has not compiled its plan, or is over.
LEMMA PlanOut ==
  ASSUME HostSane', FaithfulBundle(bundle)', dep'.pc \in {"idle", "bundle", "verify"}
  PROVE  PlanSane'
BY DEF PlanSane, Compiled, PerRole, AfterCleanup, Waits, AllAudited, Registered

\* A step along the compiled plan that leaves hosts and entries alone.
LEMMA PlanMove ==
  ASSUME PlanSane, UNCHANGED <<host, entries, bundle>>, PlanKept,
         dep.pc \in Compiled, dep'.pc \notin {"inputs", "compile"},
         dep'.pc \in {"prune", "entries", "managed"} => dep'.at = 1,
         dep'.pc \in Registered => dep.pc \in Registered \ {"services"} /\ dep'.pc # "services"
  PROVE  PlanSane'
<1>1. HostSane' /\ FaithfulBundle(bundle)'  BY DEF PlanSane, HostSane, FaithfulBundle
<1>2. dep'.plan.image.content = dep'.commit /\ dep'.secrets = dep'.commit  BY DEF PlanSane, PlanKept
<1>3. dep'.pc \in Registered => entries' = {Planned} /\ \A r \in Roles : Serves(r)'
  BY DEF PlanSane, Serves, PlanKept
<1>4. dep'.pc # "services"  BY DEF Registered
<1> QED BY <1>1, <1>2, <1>3, <1>4 DEF PlanSane

\* The bootstrap leaves the hosts, the entries and the plan alone.
BootstrapSteps ==
  \/ RemoveStaleToken \/ StartRetained
  \/ CheckHealth \/ Armed \/ Generated \/ DeliverToken \/ StartAgent \/ AuditAgent \/ FailBlock
  \/ Quiesce \/ Cleaned \/ ResumeAgent \/ AwaitResumed \/ Retained

\* They go on inside the bootstrap, or end the deployment.
LEMMA BootstrapPlan ==
  ASSUME DOMAIN dep = DepFields, PlanSane, BootstrapSteps
  PROVE  PlanSane'
<1>1. UNCHANGED <<host, entries, bundle>>
  BY DEF BootstrapSteps, CheckHealth, Armed, Generated, DeliverToken, StartAgent, AuditAgent, FailBlock,
         Quiesce, Cleaned, Retained, RemoveStaleToken, StartRetained, ResumeAgent, AwaitResumed, HostsKeep, hostVars, RestKeeps, OthersKeep, builderVars
<1>2. dep.pc \in Compiled
  BY DEF BootstrapSteps, CheckHealth, Armed, Generated, DeliverToken, StartAgent, AuditAgent, FailBlock,
         Quiesce, Cleaned, Retained, RemoveStaleToken, StartRetained, ResumeAgent, AwaitResumed, Compiled, PerRole, AfterCleanup, Waits
<1>3. CASE dep' = NoDeployment
  <2>1. HostSane' /\ FaithfulBundle(bundle)'  BY <1>1 DEF PlanSane, HostSane, FaithfulBundle
  <2> QED BY <1>3, <2>1, NoDeploymentFacts, PlanOut
<1>4. ASSUME dep'.pc \in PerRole, PlanKept PROVE PlanSane'
  <2>1. dep'.pc \notin {"inputs", "compile", "prune", "entries", "managed"} /\ dep'.pc \notin Registered
    BY <1>4 DEF PerRole, AfterCleanup, Waits, Registered
  <2> QED BY <1>1, <1>2, <1>4, <2>1, PlanMove
<1>5. ASSUME NEW p \in PerRole, Goto(p) PROVE PlanSane'  BY <1>4, <1>5, GotoFacts
<1>6. ASSUME NEW p \in PerRole, NEW v, dep' = [dep EXCEPT !.pc = p, !.verified = v] PROVE PlanSane'
  <2>1. dep'.pc = p /\ PlanKept  BY <1>6 DEF DepFields, PlanKept
  <2> QED BY <1>4, <1>6, <2>1
<1>7. ASSUME NEW p \in PerRole, NEW v, dep' = [dep EXCEPT !.pc = p, !.token = v] PROVE PlanSane'
  <2>1. dep'.pc = p /\ PlanKept  BY <1>7 DEF DepFields, PlanKept
  <2> QED BY <1>4, <1>7, <2>1
<1>8. ASSUME NEW p \in PerRole, NEW v, dep' = [dep EXCEPT !.pc = p, !.clean = v] PROVE PlanSane'
  <2>1. dep'.pc = p /\ PlanKept  BY <1>8 DEF DepFields, PlanKept
  <2> QED BY <1>4, <1>8, <2>1
<1>9. {"retain", "health", "retained", "armed", "generated", "cleaned", "deliver", "start", "audit", "quiesce",
       "resume", "await", "alias"} \subseteq PerRole
  BY DEF PerRole, AfterCleanup, Waits
<1>10. CASE CheckHealth  BY <1>5, <1>6, <1>9, <1>10 DEF CheckHealth
<1>11. CASE Armed  BY <1>5, <1>8, <1>9, <1>11 DEF Armed
<1>12. CASE Generated  BY <1>7, <1>8, <1>9, <1>12 DEF Generated
<1>13. CASE RemoveStaleToken \/ StartRetained \/ DeliverToken \/ StartAgent \/ Quiesce \/ AwaitResumed
  BY <1>5, <1>9, <1>13 DEF RemoveStaleToken, StartRetained, DeliverToken, StartAgent, Quiesce, AwaitResumed
<1>14. CASE AuditAgent  BY <1>6, <1>9, <1>14 DEF AuditAgent
<1>15. CASE FailBlock  BY <1>8, <1>9, <1>15 DEF FailBlock
<1>16. CASE Cleaned  BY <1>3, <1>7, <1>9, <1>16 DEF Cleaned
<1>17. CASE Retained  BY <1>3, <1>5, <1>9, <1>17 DEF Retained, Goto
<1>18. CASE ResumeAgent  BY <1>3, <1>5, <1>9, <1>18 DEF ResumeAgent, Goto
<1> QED BY <1>18, <1>10, <1>11, <1>12, <1>13, <1>14, <1>15, <1>16, <1>17 DEF BootstrapSteps

\* The plan names the image of the commit, and the secrets made for it.
LEMMA CompilePlan ==
  ASSUME DOMAIN dep = DepFields, PlanSane, CompileDeployment
  PROVE  PlanSane'
<1>1. PICK b, c : b = dep.bundle /\ c = dep.commit  OBVIOUS
<1>2. /\ dep.pc = "compile" /\ UNCHANGED <<host, entries, bundle>>
      /\ dep' = [dep EXCEPT !.pc = "apply", !.plan = CompiledPlan]
      /\ BundleHolds(b, c) /\ dep.secrets = c
  BY <1>1 DEF CompileDeployment, HostsKeep, hostVars, RestKeeps, OthersKeep, builderVars,
              SnapshotCompiles, Compiles, DeployedBundle, SecretsHold
<1>3. b # Nothing /\ b.accepted /\ b.signer = TrustedKey /\ b.profile = ReviewedProfile
  BY <1>2 DEF BundleHolds, ManifestHolds, AttestationHolds, ProfileExpected
<1>4. b.image.index.revision = c
  BY <1>2 DEF BundleHolds, ArchivesHold, ArchiveHolds, LabelsHold
<1>5. b.image.index.content = c  BY <1>1, <1>2, <1>3, <1>4 DEF PlanSane, FaithfulBundle
<1>6. CompiledPlan.image = b.image.index  BY <1>1 DEF CompiledPlan, PlanOf, DeployedBundle
<1>7. PICK p : p = CompiledPlan  OBVIOUS
<1>8. /\ dep'.pc = "apply" /\ dep'.plan = p /\ dep'.commit = dep.commit /\ dep'.secrets = dep.secrets
  BY <1>2, <1>7 DEF DepFields
<1>9. HostSane' /\ FaithfulBundle(bundle)'  BY <1>2 DEF PlanSane, HostSane, FaithfulBundle
<1>10. dep'.plan.image.content = dep'.commit /\ dep'.secrets = dep'.commit
  BY <1>1, <1>2, <1>5, <1>6, <1>7, <1>8
<1>11. dep'.pc \notin Registered /\ dep'.pc \notin {"inputs", "compile", "prune", "entries", "managed"}
  BY <1>8 DEF Registered
<1>12. dep'.pc # "services"  BY <1>8
<1> QED BY <1>9, <1>10, <1>11, <1>12 DEF PlanSane

\* The private copies are taken.
LEMMA CopyPlan ==
  ASSUME DOMAIN dep = DepFields, PlanSane, CopyBundle \/ CopyInputs
  PROVE  PlanSane'
<1>1. UNCHANGED <<host, entries, bundle>>
  BY DEF CopyBundle, CopyInputs, HostsKeep, hostVars, RestKeeps, OthersKeep, builderVars
<1>2. HostSane' /\ FaithfulBundle(bundle)'  BY <1>1 DEF PlanSane, HostSane, FaithfulBundle
<1>3. dep'.pc \in {"inputs", "compile"} /\ FaithfulBundle(dep'.bundle)
  <2>1. CASE CopyBundle
    <3>1. dep' = [dep EXCEPT !.pc = "inputs", !.bundle = bundle]  BY <2>1 DEF CopyBundle
    <3>2. dep'.pc = "inputs" /\ dep'.bundle = bundle  BY <3>1 DEF DepFields
    <3> QED BY <3>2 DEF PlanSane
  <2>2. CASE CopyInputs
    <3>1. dep' = [dep EXCEPT !.pc = "compile", !.runtime = runtime, !.secrets = secrets] /\ dep.pc = "inputs"
      BY <2>2 DEF CopyInputs
    <3>2. dep'.pc = "compile" /\ dep'.bundle = dep.bundle  BY <3>1 DEF DepFields
    <3> QED BY <3>1, <3>2 DEF PlanSane
  <2> QED BY <2>1, <2>2
<1>4. FaithfulBundle(dep.bundle)'  BY <1>3 DEF FaithfulBundle
<1>5. dep'.pc \notin Compiled /\ dep'.pc \notin Registered /\ dep'.pc \notin {"prune", "entries", "managed"}
  BY <1>3 DEF Compiled, PerRole, AfterCleanup, Waits, AllAudited, Registered
<1>6. dep'.pc # "services"  BY <1>3
<1> QED BY <1>2, <1>4, <1>5, <1>6 DEF PlanSane

\* The plays before the services, and what follows them.
LEMMA PlayPlan ==
  ASSUME DOMAIN dep = DepFields, dep.at \in DOMAIN RoleOrder, PlanSane,
         BeginApply \/ AllowPlanned \/ DeleteStaleRules \/ AuditAlias \/ FinishApply \/ ProbeInitial \/ RestartService
  PROVE  PlanSane'
<1>1. UNCHANGED <<host, entries, bundle>>
  BY DEF BeginApply, AllowPlanned, DeleteStaleRules, AuditAlias, FinishApply, ProbeInitial, RestartService,
         HostsKeep, hostVars, RestKeeps, OthersKeep, builderVars
<1> USE DEF Compiled, PerRole, AfterCleanup, Waits, AllAudited, Registered
<1>2. ASSUME NEW p, Goto(p), dep.pc \in Compiled, p \notin {"inputs", "compile", "prune", "entries", "managed"},
             p \in Registered => dep.pc \in Registered \ {"services"} /\ p # "services"
      PROVE  PlanSane'
  BY <1>1, <1>2, GotoFacts, PlanMove
<1>3. ASSUME NEW p, NEW q, NextRole(p, q), dep.pc \in Compiled,
             p \notin {"inputs", "compile", "prune", "entries", "managed"}, q \notin {"inputs", "compile"},
             {p, q} \cap Registered # {} => dep.pc \in Registered \ {"services"} /\ {p, q} \cap {"services"} = {}
      PROVE  PlanSane'
  BY <1>1, <1>3, NextRoleFacts, PlanMove
<1>4. CASE BeginApply  BY <1>2, <1>4 DEF BeginApply
<1>5. CASE AllowPlanned  BY <1>2, <1>5 DEF AllowPlanned
<1>6. CASE DeleteStaleRules  BY <1>3, <1>6 DEF DeleteStaleRules
<1>7. CASE AuditAlias  BY <1>3, <1>7 DEF AuditAlias
<1>8. CASE FinishApply  BY <1>2, <1>8 DEF FinishApply
<1>9. CASE ProbeInitial  BY <1>2, <1>9 DEF ProbeInitial
<1>10. CASE RestartService  BY <1>3, <1>10 DEF RestartService
<1> QED BY <1>4, <1>5, <1>6, <1>7, <1>8, <1>9, <1>10

\* The archive is loaded.
LEMMA LoadPlan ==
  ASSUME DOMAIN dep = DepFields, dep.at \in DOMAIN RoleOrder, PlanSane, LoadArtifacts
  PROVE  PlanSane'
<1>1. PICK i, r : i = DeployedBundle.image.index /\ r = Role  OBVIOUS
<1>2. /\ host' = [host EXCEPT ![r].image = i] /\ UNCHANGED <<entries, bundle>>
      /\ NextRole("artifacts", "allow") /\ dep.pc = "artifacts"
  BY <1>1 DEF LoadArtifacts, RestKeeps, OthersKeep, builderVars
<1>3. r \in Roles  BY <1>1, RoleIsRole DEF Role
<1>4. HostSane'
  <2>1. PICK x : x = [host[r] EXCEPT !.image = i]  OBVIOUS
  <2>2. host' = [host EXCEPT ![r] = x] /\ DOMAIN x = DOMAIN host[r]  BY <1>2, <2>1
  <2> QED BY <1>3, <2>2 DEF PlanSane, HostSane
<1>5. FaithfulBundle(bundle)'  BY <1>2 DEF PlanSane, FaithfulBundle
<1>6. PlanKept /\ dep'.pc \in {"artifacts", "allow"}  BY <1>2, NextRoleFacts
<1>7. dep'.plan.image.content = dep'.commit /\ dep'.secrets = dep'.commit
  BY <1>2, <1>6 DEF PlanSane, PlanKept, Compiled
<1>8. dep'.pc \notin Registered /\ dep'.pc \notin {"inputs", "compile", "prune", "entries", "managed"}
  BY <1>6 DEF Registered
<1>9. dep'.pc # "services"  BY <1>6
<1> QED BY <1>4, <1>5, <1>7, <1>8, <1>9 DEF PlanSane

\* The entries become the planned ones.
LEMMA EntriesPlan ==
  ASSUME DOMAIN dep = DepFields, dep.at \in DOMAIN RoleOrder, PlanSane,
         PruneEntries \/ ReconcileEntries \/ AuditEntries
  PROVE  PlanSane'
<1>1. UNCHANGED <<host, bundle>>
  BY DEF PruneEntries, ReconcileEntries, AuditEntries, HostsKeep, hostVars, RestKeeps, OthersKeep, builderVars
<1>2. HostSane' /\ FaithfulBundle(bundle)'  BY <1>1 DEF PlanSane, HostSane, FaithfulBundle
<1>3. dep.pc \in {"prune", "entries", "managed"}  BY DEF PruneEntries, ReconcileEntries, AuditEntries
<1>4. \/ Goto("entries") \/ Goto("managed")
      \/ Goto("services") /\ entries' = {Planned}
  BY DEF PruneEntries, ReconcileEntries, AuditEntries, ExactlyManaged, HostsKeep, hostVars
<1>5. PlanKept /\ dep'.at = dep.at /\ dep'.pc \in {"entries", "managed", "services"}
  BY <1>4, GotoFacts
<1>6. dep'.pc = "services" => entries' = {Planned}  BY <1>4, GotoFacts
<1>7. dep'.at = 1  BY <1>3, <1>5 DEF PlanSane
<1>8. dep'.plan.image.content = dep'.commit /\ dep'.secrets = dep'.commit
  BY <1>3, <1>5 DEF PlanSane, PlanKept, Compiled, AllAudited
<1>9. dep'.pc \notin {"inputs", "compile"} /\ dep'.pc \notin Registered \ {"services"}
  BY <1>5 DEF Registered
<1>10. dep'.pc \in Registered => entries' = {Planned}  BY <1>6, <1>9
<1>11. \A j \in 1 .. (dep'.at - 1) : Serves(RoleOrder[j])'  BY <1>7
<1> QED BY <1>2, <1>7, <1>8, <1>9, <1>10, <1>11 DEF PlanSane

\* One service is started from the plan.
LEMMA ServicePlan ==
  ASSUME DOMAIN dep = DepFields, dep.at \in DOMAIN RoleOrder, PlanSane, StartService
  PROVE  PlanSane'
<1>1. PICK n, r : n = dep.at /\ r = RoleOrder[n]  OBVIOUS
<1>2. r = Role /\ r \in Roles /\ n \in 1 .. Len(RoleOrder) /\ Len(RoleOrder) \in Nat
  BY <1>1, RoleIsRole, Positions DEF Role
<1>3. PICK x : x = [host[r] EXCEPT !.secrets = dep.secrets, !.running = dep.plan.image]  OBVIOUS
<1>4. /\ host' = [host EXCEPT ![r] = x] /\ UNCHANGED <<entries, bundle>>
      /\ NextRole("services", "applied") /\ dep.pc = "services"
  BY <1>2, <1>3 DEF StartService, RestKeeps, OthersKeep, builderVars
<1>5. HostSane /\ DOMAIN host[r] = {"image", "secrets", "running"}  BY <1>2 DEF PlanSane, HostSane
<1>6. DOMAIN x = {"image", "secrets", "running"} /\ x.secrets = dep.secrets /\ x.running = dep.plan.image
  BY <1>3, <1>5
<1>7. host'[r] = x /\ \A q \in Roles \ {r} : host'[q] = host[q]  BY <1>2, <1>4, <1>5 DEF HostSane
<1>8. HostSane'  BY <1>4, <1>5, <1>6, <1>7 DEF HostSane
<1>9. FaithfulBundle(bundle)'  BY <1>4 DEF PlanSane, FaithfulBundle
<1>10. /\ PlanKept
       /\ \/ dep'.pc = "services" /\ dep'.at = n + 1
          \/ dep'.pc = "applied" /\ n = Len(RoleOrder)
  BY <1>1, <1>4, NextRoleFacts
<1>11. dep.plan.image.content = dep.commit /\ dep.secrets = dep.commit /\ entries = {Planned}
  BY <1>4 DEF PlanSane, Compiled, AllAudited, Registered
<1>12. dep'.plan.image.content = dep'.commit /\ dep'.secrets = dep'.commit  BY <1>10, <1>11 DEF PlanKept
<1>13. Serves(r)'  BY <1>6, <1>7, <1>10, <1>11 DEF Serves, PlanKept
<1>14. \A q \in Roles : Serves(q) => Serves(q)'
  <2> SUFFICES ASSUME NEW q \in Roles, Serves(q) PROVE Serves(q)'  OBVIOUS
  <2>1. CASE q = r  BY <1>13, <2>1
  <2>2. CASE q # r  BY <1>7, <1>10, <2>2 DEF Serves, PlanKept
  <2> QED BY <2>1, <2>2
<1>15. \A i \in 1 .. n : Serves(RoleOrder[i])'
  <2> SUFFICES ASSUME NEW i \in 1 .. n PROVE Serves(RoleOrder[i])'  OBVIOUS
  <2>1. CASE i = n  BY <1>1, <1>13, <2>1
  <2>2. CASE i # n
    <3>1. i \in 1 .. (dep.at - 1) /\ i \in DOMAIN RoleOrder  BY <1>1, <1>2, <2>2, Positions
    <3>2. Serves(RoleOrder[i])  BY <1>4, <3>1 DEF PlanSane
    <3>3. RoleOrder[i] \in Roles  BY <3>1, RoleIsRole
    <3> QED BY <1>14, <3>2, <3>3
  <2> QED BY <2>1, <2>2
<1>16. dep'.pc = "services" => \A i \in 1 .. (dep'.at - 1) : Serves(RoleOrder[i])'
  <2>1. (n + 1) - 1 = n  BY <1>2
  <2> QED BY <1>10, <1>15, <2>1
<1>17. dep'.pc = "applied" => \A q \in Roles : Serves(q)'
  <2> SUFFICES ASSUME dep'.pc = "applied", NEW q \in Roles PROVE Serves(q)'  OBVIOUS
  <2>1. n = Len(RoleOrder)  BY <1>10
  <2>2. PICK i \in DOMAIN RoleOrder : RoleOrder[i] = q  BY Positions
  <2>3. i \in 1 .. n  BY <2>1, <2>2, Positions
  <2>4. Serves(RoleOrder[i])'  BY <1>15, <2>3
  <2> QED BY <2>2, <2>4
<1>18. dep'.pc \in {"services", "applied"}  BY <1>10
<1>19. entries' = {Planned}  BY <1>4, <1>11
<1>20. dep'.pc \notin {"inputs", "compile", "prune", "entries", "managed"}  BY <1>18
<1>21. dep'.pc \in Registered \ {"services"} => \A q \in Roles : Serves(q)'  BY <1>17, <1>18
<1> QED BY <1>8, <1>9, <1>12, <1>16, <1>19, <1>20, <1>21 DEF PlanSane

\* A deployment starts, signs its record, or ends.
LEMMA EdgePlan ==
  ASSUME DOMAIN dep = DepFields, dep.at \in DOMAIN RoleOrder, PlanSane,
         (\E c : StartDeployment(c)) \/ SignProbe \/ VerifyProbe \/ StopDeployment \/ FailRestart \/ KillDeployment
  PROVE  PlanSane'
<1>1. bundle' = bundle
  BY DEF StartDeployment, SignProbe, VerifyProbe, StopDeployment, FailRestart, KillDeployment,
         RestKeeps, OthersKeep, builderVars
<1>2. FaithfulBundle(bundle)'  BY <1>1 DEF PlanSane, FaithfulBundle
<1>3. HostSane'
  <2>1. CASE FailRestart
    <3>1. PICK r : r = Role  OBVIOUS
    <3>2. r \in Roles  BY <3>1, RoleIsRole DEF Role
    <3>3. PICK x : x = [host[r] EXCEPT !.running = Nothing]  OBVIOUS
    <3>4. host' = [host EXCEPT ![r] = x] /\ DOMAIN x = DOMAIN host[r]  BY <2>1, <3>1, <3>3 DEF FailRestart
    <3> QED BY <3>2, <3>4 DEF PlanSane, HostSane
  <2>2. CASE ~FailRestart
    <3>1. host' = host
      BY <2>2 DEF StartDeployment, SignProbe, VerifyProbe, StopDeployment, KillDeployment, HostsKeep, hostVars
    <3> QED BY <3>1 DEF PlanSane, HostSane
  <2> QED BY <2>1, <2>2
<1>4. dep'.pc \in {"idle", "bundle", "verify"}
  <2>1. CASE \E c : StartDeployment(c)
    <3>1. PICK c : StartDeployment(c)  BY <2>1
    <3>2. dep' = [NoDeployment EXCEPT !.pc = "bundle", !.commit = c]  BY <3>1 DEF StartDeployment
    <3> QED BY <3>2 DEF NoDeployment
  <2>2. CASE SignProbe  BY <2>2, GotoFacts DEF SignProbe
  <2>3. CASE VerifyProbe \/ StopDeployment \/ FailRestart \/ KillDeployment
    BY <2>3, NoDeploymentFacts DEF VerifyProbe, StopDeployment, FailRestart, KillDeployment
  <2> QED BY <2>1, <2>2, <2>3
<1> QED BY <1>2, <1>3, <1>4, PlanOut

\* Every step preserves what the evidence rests on.
LEMMA PlanNext ==
  ASSUME BootstrapInv, BuildSane, PlanSane, PipelineNext
  PROVE  BuildSane' /\ PlanSane'
<1>1. DOMAIN dep = DepFields /\ dep.at \in DOMAIN RoleOrder  BY DEF BootstrapInv, DeploymentSane
<1>2. FaithfulBundle(bundle)  BY DEF PlanSane
<1>3. ASSUME UNCHANGED <<profile, build>> PROVE BuildSane'  BY <1>3 DEF BuildSane, FaithfulImage
<1>4. ASSUME UNCHANGED <<bundle, host, entries, dep>> PROVE PlanSane'
  BY <1>2, <1>4, PlanLeft DEF FaithfulBundle
<1>5. ASSUME BuildSteps \/ DisturbBuild, OutsideBuild PROVE BuildSane' /\ PlanSane'
  <2>1. UNCHANGED <<host, entries, dep>>  BY <1>5 DEF OutsideBuild, depVars, hostVars
  <2> QED BY <1>2, <1>5, <2>1, BuilderStep, PlanLeft
<1>6. ASSUME OutsidePlan \/ OutsideCheckout \/ DeploymentKeeps PROVE BuildSane' /\ PlanSane'
  <2>1. UNCHANGED <<profile, build, bundle, host, entries, dep>>
    BY <1>6 DEF OutsidePlan, OutsideCheckout, DeploymentKeeps, builderVars, depVars, hostVars
  <2> QED BY <1>3, <1>4, <2>1
<1>7. CASE Build  BY <1>5, <1>7 DEF Build, BuildSteps
<1>8. CASE Prepare  BY <1>6, <1>8 DEF Prepare
<1>9. CASE Deploy
  <2>1. UNCHANGED <<profile, build>>
    BY <1>9 DEF Deploy, StartDeployment, CopyBundle, CopyInputs, CompileDeployment, BeginApply, LoadArtifacts,
                AllowPlanned, DeleteStaleRules, RemoveStaleToken, StartRetained, CheckHealth, Armed, Generated, DeliverToken, StartAgent,
                AuditAgent, FailBlock, Quiesce, Cleaned, ResumeAgent, AwaitResumed, Retained, AuditAlias, PruneEntries,
                ReconcileEntries, AuditEntries, StartService, FinishApply, ProbeInitial, RestartService,
                SignProbe, VerifyProbe, StopDeployment, FailRestart, RestKeeps, OthersKeep, builderVars
  <2>2. \/ (\E c : StartDeployment(c)) \/ SignProbe \/ VerifyProbe \/ StopDeployment \/ FailRestart
        \/ CopyBundle \/ CopyInputs \/ CompileDeployment \/ LoadArtifacts \/ BootstrapSteps \/ StartService
        \/ BeginApply \/ AllowPlanned \/ DeleteStaleRules \/ AuditAlias \/ FinishApply \/ ProbeInitial
        \/ RestartService \/ PruneEntries \/ ReconcileEntries \/ AuditEntries
    BY <1>9 DEF Deploy, BootstrapSteps
  <2>3. PlanSane'
    BY <1>1, <2>2, EdgePlan, CopyPlan, CompilePlan, LoadPlan, BootstrapPlan, ServicePlan, PlayPlan, EntriesPlan
  <2> QED BY <1>3, <2>1, <2>3
<1>10. CASE Remote
  <2>1. UNCHANGED <<profile, build, bundle, host, entries, dep>>
    BY <1>10 DEF Remote, HelperRuns, Attest, FinishAttestation, HostsKeep, hostVars, RestKeeps, OthersKeep, builderVars
  <2> QED BY <1>3, <1>4, <2>1
<1>11. CASE Accept \/ KillAcceptance
  <2>1. DeploymentKeeps
    BY <1>11 DEF Accept, BeginAcceptance, CollectBefore, Baseline, InstallPartition, InstallTimesOut,
                 CheckDenial, FailPartition, CheckAbsence, ReadFails, CheckRestored, CollectAfter,
                 WriteReport, AbortAcceptance, LateInsertion, KillAcceptance
  <2> QED BY <1>6, <2>1
<1>12. CASE Disturb
  <2>1. \/ OutsideCheckout \/ (DisturbBuild /\ OutsideBuild) \/ OutsidePlan
        \/ KillDeployment \/ (\E r \in Roles : DriftFirewall(r) \/ AgentRestarts(r)) \/ KillAcceptance
    BY <1>12 DEF Disturb, DisturbBuild
  <2>2. CASE KillDeployment
    <3>1. UNCHANGED <<profile, build>>  BY <2>2 DEF KillDeployment, RestKeeps, OthersKeep, builderVars
    <3> QED BY <1>1, <1>3, <2>2, <3>1, EdgePlan
  <2>3. CASE \E r \in Roles : DriftFirewall(r) \/ AgentRestarts(r)
    <3>1. UNCHANGED <<profile, build, bundle, host, entries, dep>>
      BY <2>3 DEF DriftFirewall, AgentRestarts, OthersKeep, builderVars
    <3> QED BY <1>3, <1>4, <3>1
  <2> QED BY <1>5, <1>6, <1>11, <2>1, <2>2, <2>3
<1> QED BY <1>7, <1>8, <1>9, <1>10, <1>11, <1>12 DEF PipelineNext

----------------------------------------------------------------------------
(***************************************************************************)
(* The campaign's partition.                                               *)
(***************************************************************************)
AccFields == {"pc", "commit", "at", "reads", "denied"}

\* A step of the campaign to another place.
LEMMA AccGotoFacts ==
  ASSUME DOMAIN acc = AccFields, NEW p, AccGoto(p)
  PROVE  DOMAIN acc' = AccFields /\ acc'.pc = p /\ acc'.reads = acc.reads
BY DEF AccGoto, AccFields

\* The campaign reads the next role's facts, or is through with them.
LEMMA AccNextRoleFacts ==
  ASSUME DOMAIN acc = AccFields, NEW p, NEW q, AccNextRole(p, q)
  PROVE  DOMAIN acc' = AccFields /\ acc'.pc \in {acc.pc, q} /\ acc'.reads = acc.reads
<1>1. CASE acc.at < Len(RoleOrder)
  <2>1. PICK n : n = acc.at + 1  OBVIOUS
  <2>2. acc' = [acc EXCEPT !.at = n]  BY <1>1, <2>1 DEF AccNextRole
  <2> QED BY <2>2 DEF AccFields
<1>2. CASE ~(acc.at < Len(RoleOrder))
  <2>1. acc' = [acc EXCEPT !.pc = q, !.at = 1]  BY <1>2 DEF AccNextRole
  <2> QED BY <2>1 DEF AccFields
<1> QED BY <1>1, <1>2

\* A campaign that has ended.
LEMMA NoCampaignFacts ==
  DOMAIN NoCampaign = AccFields /\ NoCampaign.pc = "idle" /\ NoCampaign.reads = 0
BY DEF NoCampaign, AccFields

\* A read of the reconciliation: while an insertion may still happen, the reads that are
\* enough cannot have been made.
LEMMA CheckAbsenceStep ==
  ASSUME PartitionSane, CheckAbsence
  PROVE  /\ PartitionSane'
         /\ acc'.pc = "restored" => campaigns \notin partition' /\ inserting' = NoInsertion
<1>1. PICK n : n = AbsenceCount(campaigns \in partition)  OBVIOUS
<1>2. PICK m, p : /\ m = IF n >= PartitionReads THEN 0 ELSE n
                  /\ p = IF n >= PartitionReads THEN "restored" ELSE "cleanup"
  OBVIOUS
<1>3. /\ acc.pc = "cleanup" /\ (inserting # NoInsertion => inserting.delay > 0)
      /\ acc' = [acc EXCEPT !.reads = m, !.pc = p] /\ partition' = partition \ {campaigns}
  BY <1>1, <1>2 DEF CheckAbsence, EnoughAbsences
<1>4. inserting' = IF inserting = NoInsertion THEN inserting ELSE [inserting EXCEPT !.delay = @ - 1]
  BY DEF CheckAbsence
<1>5. DOMAIN acc = AccFields /\ acc.reads \in Nat /\ DOMAIN inserting = {"campaign", "delay"} /\ inserting.delay \in Nat
  BY DEF PartitionSane, AccFields
<1>6. DOMAIN acc' = AccFields /\ acc'.pc = p /\ acc'.reads = m  BY <1>3, <1>5 DEF AccFields
<1>7. PartitionReads \in Nat \ {0}  BY AcceptanceAssumption
<1>8. n \in {0, acc.reads + 1}  BY <1>1 DEF AbsenceCount
<1>9. m \in Nat  BY <1>2, <1>5, <1>8
<1>10. CASE inserting = NoInsertion
  <2>1. inserting' = NoInsertion  BY <1>4, <1>10
  <2>2. p \in {"restored", "cleanup"} /\ (p # "cleanup" => m = 0)  BY <1>2
  <2>3. DOMAIN inserting' = {"campaign", "delay"} /\ inserting'.delay \in Nat  BY <2>1 DEF NoInsertion
  <2>4. PartitionSane'  BY <1>6, <1>9, <2>1, <2>2, <2>3 DEF PartitionSane, AccFields
  <2> QED BY <1>3, <2>1, <2>4
<1>11. CASE inserting # NoInsertion
  <2>1. PICK d : d = inserting.delay  OBVIOUS
  <2>2. d \in Nat /\ d > 0 /\ acc.reads + d <= PartitionReads - 1
    BY <1>3, <1>5, <1>11, <2>1 DEF PartitionSane
  <2>3. inserting' = [inserting EXCEPT !.delay = d - 1]  BY <1>4, <1>11, <2>1
  <2>4. DOMAIN inserting' = {"campaign", "delay"} /\ inserting'.delay = d - 1  BY <1>5, <2>3
  <2>5. d - 1 \in Nat /\ ~(n >= PartitionReads) /\ n + (d - 1) <= PartitionReads - 1
    BY <1>5, <1>7, <1>8, <2>2
  <2>6. m = n /\ p = "cleanup"  BY <1>2, <2>5
  <2>7. PartitionSane'  BY <1>6, <1>9, <2>4, <2>5, <2>6 DEF PartitionSane, AccFields
  <2> QED BY <1>6, <2>6, <2>7
<1> QED BY <1>10, <1>11

\* Every step keeps the count of the reads behind the insertion, and a partition that is
\* declared over is over.
LEMMA PartitionNext ==
  ASSUME PartitionSane, PipelineNext
  PROVE  PartitionSane' /\ PartitionIsOver
<1>1. DOMAIN acc = AccFields  BY DEF PartitionSane, AccFields
<1>2. ASSUME UNCHANGED <<acc, inserting>> PROVE PartitionSane' /\ PartitionIsOver
  BY <1>2 DEF PartitionSane, PartitionIsOver
<1>3. ASSUME UNCHANGED accVars PROVE PartitionSane' /\ PartitionIsOver  BY <1>2, <1>3 DEF accVars
<1>4. ASSUME acc' = NoCampaign, inserting' = inserting PROVE PartitionSane' /\ PartitionIsOver
  BY <1>4, NoCampaignFacts DEF PartitionSane, PartitionIsOver, AccFields
<1>5. CASE Build  BY <1>3, <1>5 DEF Build, OutsideBuild
<1>6. CASE Prepare  BY <1>3, <1>6 DEF Prepare, OutsidePlan
<1>7. CASE Deploy  BY <1>3, <1>7 DEF Deploy
<1>8. CASE Remote  BY <1>3, <1>8 DEF Remote
<1>9. CASE Accept
  <2>1. CASE \E c \in Commits : BeginAcceptance(c)
    <3>1. PICK c : BeginAcceptance(c)  BY <2>1
    <3>2. acc' = [NoCampaign EXCEPT !.pc = "before", !.commit = c] /\ inserting' = inserting
          /\ inserting = NoInsertion /\ acc.pc = "idle"
      BY <3>1 DEF BeginAcceptance
    <3>3. DOMAIN acc' = AccFields /\ acc'.pc = "before" /\ acc'.reads = 0
      BY <3>2 DEF NoCampaign, AccFields
    <3> QED BY <3>2, <3>3 DEF PartitionSane, PartitionIsOver, AccFields
  <2>2. CASE CollectBefore
    <3>1. AccNextRole("before", "baseline") /\ inserting' = inserting /\ acc.pc = "before"
      BY <2>2 DEF CollectBefore
    <3>2. DOMAIN acc' = AccFields /\ acc'.pc \in {"before", "baseline"} /\ acc'.reads = acc.reads
      BY <1>1, <3>1, AccNextRoleFacts
    <3> QED BY <3>1, <3>2 DEF PartitionSane, PartitionIsOver, AccFields
  <2>3. CASE Baseline
    <3>1. AccGoto("install") /\ inserting' = inserting /\ acc.pc = "baseline"  BY <2>3 DEF Baseline
    <3>2. DOMAIN acc' = AccFields /\ acc'.pc = "install" /\ acc'.reads = acc.reads
      BY <1>1, <3>1, AccGotoFacts
    <3> QED BY <3>1, <3>2 DEF PartitionSane, PartitionIsOver, AccFields
  <2>4. CASE InstallPartition
    <3>1. AccGoto("present") /\ inserting' = inserting /\ acc.pc = "install"  BY <2>4 DEF InstallPartition
    <3>2. DOMAIN acc' = AccFields /\ acc'.pc = "present" /\ acc'.reads = acc.reads
      BY <1>1, <3>1, AccGotoFacts
    <3> QED BY <3>1, <3>2 DEF PartitionSane, PartitionIsOver, AccFields
  <2>5. CASE InstallTimesOut
    <3>1. PICK d : d = PartitionReads - 1  OBVIOUS
    <3>2. AccGoto("cleanup") /\ inserting' = [campaign |-> campaigns, delay |-> d] /\ acc.pc = "install"
      BY <2>5, <3>1 DEF InstallTimesOut
    <3>3. DOMAIN acc' = AccFields /\ acc'.pc = "cleanup" /\ acc'.reads = acc.reads
      BY <1>1, <3>2, AccGotoFacts
    <3>4. acc.reads = 0 /\ d \in Nat  BY <3>1, <3>2, AcceptanceAssumption DEF PartitionSane
    <3>5. DOMAIN inserting' = {"campaign", "delay"} /\ inserting'.delay = d  BY <3>2
    <3> QED BY <3>1, <3>2, <3>3, <3>4, <3>5 DEF PartitionSane, PartitionIsOver, AccFields
  <2>6. CASE CheckDenial
    <3>1. acc' = [acc EXCEPT !.pc = "cleanup", !.denied = TRUE] /\ inserting' = inserting /\ acc.pc = "present"
      BY <2>6 DEF CheckDenial
    <3>2. DOMAIN acc' = AccFields /\ acc'.pc = "cleanup" /\ acc'.reads = acc.reads
      BY <1>1, <3>1 DEF AccFields
    <3> QED BY <3>1, <3>2 DEF PartitionSane, PartitionIsOver, AccFields
  <2>7. CASE FailPartition
    <3>1. AccGoto("cleanup") /\ inserting' = inserting /\ acc.pc \in {"install", "present"}
      BY <2>7 DEF FailPartition
    <3>2. DOMAIN acc' = AccFields /\ acc'.pc = "cleanup" /\ acc'.reads = acc.reads
      BY <1>1, <3>1, AccGotoFacts
    <3> QED BY <3>1, <3>2 DEF PartitionSane, PartitionIsOver, AccFields
  <2>8. CASE CheckAbsence  BY <2>8, CheckAbsenceStep DEF PartitionIsOver
  <2>9. CASE ReadFails
    <3>1. acc' = [acc EXCEPT !.reads = 0] /\ inserting' = inserting /\ acc.pc = "cleanup"
      BY <2>9 DEF ReadFails
    <3>2. DOMAIN acc' = AccFields /\ acc'.pc = "cleanup" /\ acc'.reads = 0
      BY <1>1, <3>1 DEF AccFields
    <3>3. inserting # NoInsertion => 0 + inserting.delay <= PartitionReads - 1
      BY <3>1, AcceptanceAssumption DEF PartitionSane
    <3> QED BY <3>1, <3>2, <3>3 DEF PartitionSane, PartitionIsOver, AccFields
  <2>10. CASE CheckRestored
    <3>1. AccGoto("after") /\ inserting' = inserting /\ acc.pc = "restored"  BY <2>10 DEF CheckRestored
    <3>2. DOMAIN acc' = AccFields /\ acc'.pc = "after" /\ acc'.reads = acc.reads
      BY <1>1, <3>1, AccGotoFacts
    <3> QED BY <3>1, <3>2 DEF PartitionSane, PartitionIsOver, AccFields
  <2>11. CASE CollectAfter
    <3>1. AccNextRole("after", "write") /\ inserting' = inserting /\ acc.pc = "after"
      BY <2>11 DEF CollectAfter
    <3>2. DOMAIN acc' = AccFields /\ acc'.pc \in {"after", "write"} /\ acc'.reads = acc.reads
      BY <1>1, <3>1, AccNextRoleFacts
    <3> QED BY <3>1, <3>2 DEF PartitionSane, PartitionIsOver, AccFields
  <2>12. CASE WriteReport \/ AbortAcceptance  BY <1>4, <2>12 DEF WriteReport, AbortAcceptance
  <2>13. CASE LateInsertion
    <3>1. acc' = acc /\ inserting' = NoInsertion  BY <2>13 DEF LateInsertion
    <3>2. DOMAIN inserting' = {"campaign", "delay"} /\ inserting'.delay = 0  BY <3>1 DEF NoInsertion
    <3> QED BY <3>1, <3>2 DEF PartitionSane, PartitionIsOver
  <2> QED BY <1>9, <2>1, <2>2, <2>3, <2>4, <2>5, <2>6, <2>7, <2>8, <2>9, <2>10, <2>11, <2>12, <2>13 DEF Accept
<1>10. CASE Disturb
  <2>1. UNCHANGED accVars \/ KillAcceptance
    BY <1>10 DEF Disturb, OutsideCheckout, OutsideBuild, OutsidePlan
  <2>2. CASE KillAcceptance  BY <1>4, <2>2 DEF KillAcceptance
  <2> QED BY <1>3, <2>1, <2>2
<1> QED BY <1>5, <1>6, <1>7, <1>8, <1>9, <1>10 DEF PipelineNext

----------------------------------------------------------------------------
(***************************************************************************)
(* The theorems.                                                           *)
(***************************************************************************)
\* Nothing is built, armed or deployed.
LEMMA PipelineBegins ==
  ASSUME PipelineInit
  PROVE  PipelineInv
<1>1. TokenInit /\ DeploymentInit /\ BuilderInit /\ AcceptanceInit  BY DEF PipelineInit
<1>2. NoAttempt \in AttemptRecords /\ NoAttempt.state = "absent" /\ NoAttempt.token = NoToken
  BY DEF NoAttempt, AttemptRecords
<1>3. \A s \in Slots : helper[s] = NoProcess  BY <1>1 DEF TokenInit
<1>4. \A r \in Roles : attempts[r] = NoAttempt /\ aliases[r] = NoToken /\ tokenFile[r] = NoToken
                        /\ svid[r] = NoToken /\ asking[r] = NoToken
  BY <1>1 DEF TokenInit, DeploymentInit
<1>5. attesting = NoAttestation /\ live = {} /\ nodes = {} /\ issued = 0 /\ inodes = 0
  BY <1>1 DEF TokenInit
<1>6. NoAttestation \in [role : Roles \cup {NoToken}, token : Tokens \cup {NoToken}, delay : Nat]
  BY DEF NoAttestation
<1>7. TokenTypes
  <2>1. attempts \in [Roles -> AttemptRecords]  BY <1>1, <1>2 DEF TokenInit
  <2>2. aliases \in [Roles -> Issued \cup {NoToken}]  BY <1>1 DEF TokenInit
  <2>3. helper \in [Slots -> HelperRecords]  BY <1>1, NoProcessFacts DEF TokenInit
  <2> QED BY <1>5, <1>6, <2>1, <2>2, <2>3, TokenFacts DEF TokenTypes
<1>8. ServerSane  BY <1>5 DEF ServerSane
<1>9. EscrowSane  BY <1>2, <1>4 DEF EscrowSane
<1>10. \A s \in Slots : ~Working(s) /\ helper[s].pc \notin Holding \cup {"open", "lock"}
  BY <1>3, NoProcessFacts DEF Working, Holding
<1>11. HeldByOne /\ \A s \in Slots : HelperSane(s)  BY <1>10 DEF HeldByOne, HelperSane, Slots, Holding
<1>12. OwnersApart
  <2>1. \A r \in Roles : OwnTokens(r) = {}  BY <1>2, <1>4, <1>10 DEF OwnTokens
  <2> QED BY <2>1 DEF OwnersApart
<1>13. TokensInv  BY <1>7, <1>8, <1>9, <1>11, <1>12 DEF TokensInv
<1>14. dep = NoDeployment /\ dep.pc = "idle"  BY <1>1, NoDeploymentFacts DEF DeploymentInit
<1>15. dep.pc \notin Waits \cup PerRole \cup AllAudited \cup Registered \cup Compiled
  BY <1>14 DEF Waits, AfterCleanup, PerRole, AllAudited, Registered, Compiled
<1>16. WayInCovered
  <2>1. /\ tokenFile \in [Roles -> Tokens \cup {NoToken}] /\ svid \in [Roles -> Tokens \cup {NoToken}]
        /\ asking \in [Roles -> Tokens \cup {NoToken}]
    BY <1>1 DEF DeploymentInit
  <2> QED BY <1>4, <1>5, <1>14, <2>1 DEF WayInCovered, Covered
<1>17. DeploymentSane
  BY <1>3, <1>14, <1>15, NoDeploymentFacts DEF DeploymentSane, Slots, AfterCleanup
<1>18. AuditsStand  BY <1>15 DEF AuditsStand
<1>19. BuildSane  BY <1>1, NoBuildFacts DEF BuilderInit, BuildSane
<1>20. PlanSane
  <2>1. HostSane  BY <1>1 DEF DeploymentInit, NoService, HostSane
  <2>2. FaithfulBundle(bundle)  BY <1>1 DEF BuilderInit, FaithfulBundle
  <2> QED BY <1>14, <1>15, <2>1, <2>2 DEF PlanSane
<1>21. PartitionSane
  BY <1>1, NoCampaignFacts DEF AcceptanceInit, PartitionSane, NoInsertion, AccFields
<1> QED BY <1>13, <1>16, <1>17, <1>18, <1>19, <1>20, <1>21 DEF PipelineInv, BootstrapInv

\* A step of nobody.
LEMMA PipelineStutters ==
  ASSUME PipelineInv, UNCHANGED pipelineVars
  PROVE  PipelineInv' /\ ProbeIsTrue /\ PartitionIsOver
<1>1. UNCHANGED <<tokenVars, tokenFile, svid, asking, dep, profile, build, bundle, host, entries, probe, acc, inserting>>
  BY DEF pipelineVars, builderVars, depVars, hostVars, accVars
<1>2. BootstrapInv'
  <2>1. BootstrapInv /\ WayInCovered  BY DEF PipelineInv, BootstrapInv
  <2>2. AsksKnown  BY <1>1, <2>1 DEF AsksKnown, WayInCovered
  <2> QED BY <1>1, <2>1, <2>2, BootstrapLeft
<1>3. BuildSane'  BY <1>1 DEF PipelineInv, BuildSane, FaithfulImage
<1>4. PlanSane'
  <2>1. PlanSane /\ FaithfulBundle(bundle)  BY DEF PipelineInv, PlanSane
  <2>2. FaithfulBundle(bundle)'  BY <1>1, <2>1 DEF FaithfulBundle
  <2> QED BY <1>1, <2>1, <2>2, PlanLeft
<1>5. PartitionSane'  BY <1>1 DEF PipelineInv, PartitionSane
<1> QED BY <1>1, <1>2, <1>3, <1>4, <1>5 DEF PipelineInv, ProbeIsTrue, PartitionIsOver

\* The one step that signs a record finds every role served and admitted.
LEMMA ProbeNext ==
  ASSUME PipelineInv, PipelineNext
  PROVE  ProbeIsTrue
<1>1. CASE SignProbe
  <2>1. dep.pc = "again" /\ probe' = [commit |-> dep.commit, image |-> dep.plan.image]
    BY <1>1 DEF SignProbe
  <2>2. PICK i : i = dep.plan.image  OBVIOUS
  <2>3. probe'.commit = dep.commit /\ probe'.image = i  BY <2>1, <2>2
  <2>4. dep.pc \in Compiled /\ dep.pc \in AllAudited /\ dep.pc \in Registered \ {"services"}
    BY <2>1 DEF Compiled, AllAudited, Registered
  <2>5. PlanSane /\ AuditsStand  BY DEF PipelineInv, BootstrapInv
  <2>6. i.content = dep.commit /\ entries = {Planned}  BY <2>2, <2>4, <2>5 DEF PlanSane
  <2>7. \A r \in Roles : Serves(r) /\ Admitted(r)  BY <2>4, <2>5 DEF PlanSane, AuditsStand
  <2>8. \A r \in Roles : host[r].running = i /\ host[r].secrets = dep.commit /\ aliases[r] \in nodes \cap audited
    BY <2>2, <2>7 DEF Serves, Admitted
  <2> QED BY <2>3, <2>6, <2>8 DEF ProbeIsTrue
<1>2. CASE ~SignProbe
  <2>1. CASE Deploy
    BY <1>2, <2>1 DEF Deploy, StartDeployment, CopyBundle, CopyInputs, CompileDeployment, BeginApply,
         LoadArtifacts, AllowPlanned, DeleteStaleRules, RemoveStaleToken, StartRetained, CheckHealth, Armed, Generated, DeliverToken,
         StartAgent, AuditAgent, FailBlock, Quiesce, Cleaned, ResumeAgent, AwaitResumed, Retained, AuditAlias, PruneEntries,
         ReconcileEntries, AuditEntries, StartService, FinishApply, ProbeInitial, RestartService,
         VerifyProbe, StopDeployment, FailRestart, RestKeeps, ProbeIsTrue
  <2>2. CASE Build \/ Prepare
    BY <2>2 DEF Build, Prepare, OutsideBuild, OutsidePlan, depVars, ProbeIsTrue
  <2>3. CASE Remote
    BY <2>3 DEF Remote, HelperRuns, Attest, FinishAttestation, RestKeeps, ProbeIsTrue
  <2>4. CASE Accept \/ KillAcceptance
    <3>1. DeploymentKeeps
      BY <2>4 DEF Accept, BeginAcceptance, CollectBefore, Baseline, InstallPartition, InstallTimesOut,
                  CheckDenial, FailPartition, CheckAbsence, ReadFails, CheckRestored, CollectAfter,
                  WriteReport, AbortAcceptance, LateInsertion, KillAcceptance
    <3> QED BY <3>1 DEF DeploymentKeeps, depVars, ProbeIsTrue
  <2>5. CASE Disturb
    <3>1. \/ OutsideCheckout \/ OutsideBuild \/ OutsidePlan
          \/ KillDeployment \/ (\E r \in Roles : DriftFirewall(r) \/ AgentRestarts(r)) \/ KillAcceptance
      BY <2>5 DEF Disturb
    <3>2. CASE ~KillAcceptance
      BY <3>1, <3>2 DEF OutsideCheckout, OutsideBuild, OutsidePlan, depVars, KillDeployment, DriftFirewall, AgentRestarts,
                        RestKeeps, ProbeIsTrue
    <3> QED BY <2>4, <3>2
  <2> QED BY <2>1, <2>2, <2>3, <2>4, <2>5 DEF PipelineNext
<1> QED BY <1>1, <1>2

\* Every step keeps the invariant, and what it concludes is true.
LEMMA PipelineStep ==
  ASSUME PipelineInv, [PipelineNext]_pipelineVars
  PROVE  PipelineInv' /\ ProbeIsTrue /\ PartitionIsOver
<1>1. CASE UNCHANGED pipelineVars  BY <1>1, PipelineStutters
<1>2. CASE PipelineNext
  <2>1. BootstrapInv' /\ BuildSane' /\ PlanSane'  BY <1>2, BootstrapNext, PlanNext DEF PipelineInv
  <2>2. PartitionSane' /\ PartitionIsOver  BY <1>2, PartitionNext DEF PipelineInv
  <2> QED BY <1>2, <2>1, <2>2, ProbeNext DEF PipelineInv
<1> QED BY <1>1, <1>2

\* The join tokens, the attempts and the helpers that share them, the roles a deployment has
\* audited, the bundles the trusted key signs, the compiled plan and the partition of the
\* acceptance campaign stay consistent, whatever is killed or disturbed.
THEOREM PipelineInvariant == PipelineSpec => []PipelineInv
<1>1. PipelineInit => PipelineInv  BY PipelineBegins
<1>2. PipelineInv /\ [PipelineNext]_pipelineVars => PipelineInv'  BY PipelineStep
<1> QED BY <1>1, <1>2, PTL DEF PipelineSpec

\* Once a role's bootstrap attempt is gone, however revoke_m4j_spire_join_token's helper or
\* its deployment ended, and although the play goes on past an agent it could not stop and a
\* token file it could not delete, no token that was delivered to the role lets an agent in
\* that was not audited.
THEOREM NoWayIn == PipelineSpec => []BootstrapLeavesNoWayIn
<1>1. PipelineInv => BootstrapLeavesNoWayIn
  <2> SUFFICES ASSUME PipelineInv, NEW r \in Roles, attempts[r].state = "absent"
               PROVE  /\ tokenFile[r] \notin live /\ asking[r] \notin live
                      /\ attesting.role = r => attesting.token \in audited
                      /\ svid[r] \in nodes => svid[r] \in audited
    BY DEF BootstrapLeavesNoWayIn
  <2>1. TokenTypes /\ ServerSane /\ WayInCovered  BY DEF PipelineInv, BootstrapInv, TokensInv
  <2>2. ASSUME NEW t, Covered(r, t), t # NoToken PROVE Retired(t)  BY <2>2 DEF Covered
  <2>3. NoToken \notin live /\ NoToken \notin nodes  BY <2>1, IssuedTokens DEF ServerSane
  <2>4. Covered(r, tokenFile[r]) /\ Covered(r, svid[r]) /\ Covered(r, asking[r])  BY <2>1 DEF WayInCovered
  <2>5. tokenFile[r] \notin live /\ asking[r] \notin live  BY <2>2, <2>3, <2>4 DEF Retired
  <2>6. svid[r] \in nodes => svid[r] \in audited  BY <2>2, <2>3, <2>4 DEF Retired
  <2>7. attesting.role # r
    <3> SUFFICES ASSUME attesting.role = r PROVE FALSE  OBVIOUS
    <3>1. attesting # NoAttestation  BY TokenFacts DEF NoAttestation
    <3>2. Covered(r, attesting.token)  BY <2>1, <3>1 DEF WayInCovered
    <3>3. attesting.token # NoToken  BY <2>1, <3>1, IssuedTokens DEF ServerSane
    <3>4. Retired(attesting.token)  BY <2>2, <3>2, <3>3
    <3> QED BY <3>4 DEF Retired
  <2> QED BY <2>5, <2>6, <2>7
<1> QED BY <1>1, PipelineInvariant, PTL

\* What run_m4j_workload_probe.run_live_probe signs and what
\* run_m4j_acceptance._reconcile_gateway_partition_absence concludes is true when it is
\* concluded, though the daemon, the checkout, the directories and the gateway moved meanwhile.
THEOREM ConclusionsAreTrue == PipelineSpec => EvidenceIsTrue
<1>1. PipelineInv /\ [PipelineNext]_pipelineVars => [ProbeIsTrue /\ PartitionIsOver]_pipelineVars
  BY PipelineStep
<1> QED BY <1>1, PipelineInvariant, PTL DEF PipelineSpec, EvidenceIsTrue
=============================================================================
