------------------------------- MODULE SpireMtls -------------------------------
(***************************************************************************)
(* Mutual TLS between the services (spire_mtls.py,                         *)
(* spire_workload_identity.py).  A service takes its X.509 identity from   *)
(* the SPIRE agent, serves under it, and lets a thread fetch it again      *)
(* every refresh period; a fetch that fails or does not verify ends the    *)
(* service.  A caller fetches its identity afresh for each exchange and    *)
(* accepts one server identity.  The agent and its authority are external: *)
(* they rotate, stop offering an identity, and replace their signing key.  *)
(***************************************************************************)
EXTENDS Naturals, FiniteSets

CONSTANTS
    Callers,        \* workloads that call the service
    Allowed,        \* those on its allow list
    Lifetimes,      \* lifetimes the authority may sign for
    MaxTtl,         \* max_svid_ttl
    MinRemaining,   \* minimum_remaining_lifetime
    RefreshPeriod,  \* refresh_seconds
    FetchTimeout,   \* fetch_timeout_seconds
    MaxInstant,     \* bound on the clock
    MaxUpsets,      \* bound on what the agent and its authority change
    Nobody          \* no identity, and no instant

ASSUME MtlsAssumption ==
    /\ Allowed \subseteq Callers /\ Lifetimes \subseteq Nat
    /\ MaxTtl \in Nat /\ MinRemaining \in Nat /\ RefreshPeriod \in Nat \ {0} /\ FetchTimeout \in Nat
    /\ MaxInstant \in Nat /\ MaxUpsets \in Nat

\* The SPIFFE IDs of the service and of some other server of the trust domain.
ServiceId == "service"
OtherId == "other"

Workloads == Callers \cup {ServiceId}

VARIABLES
    instant,      \* the clock
    offers,       \* the X.509-SVIDs the agent offers each workload
    authorities,  \* the trust bundle the agent hands out with them
    withdrawn,    \* when the agent stopped offering the service its identity
    upsets,       \* changes of the agent so far
    service,      \* the service process
    refresher,    \* its refresh thread
    exchange      \* the exchange of each caller

mtlsVars == <<instant, offers, authorities, withdrawn, upsets, service, refresher, exchange>>

Newest == CHOOSE a \in authorities : \A b \in authorities : b <= a

Svid(id, until) == [id |-> id, from |-> instant, until |-> until, signer |-> Newest]

\* What fetch_x509_context returns.
ContextOf(w) == [svids |-> offers[w], bundle |-> authorities]

\* _verify_trust_path: the leaf chains to an authority of the bundle.
TrustPath(svid, bundle) == svid.signer \in bundle

\* _verify_leaf_profile: one URI name, the expected one, on an end-entity key.
LeafProfile(svid, expected) == svid.id = expected

\* What verify_context measures of the leaf's validity.
LifetimeHolds(svid, now) ==
    /\ svid.from <= now /\ now < svid.until
    /\ svid.until - svid.from <= MaxTtl
    /\ svid.until - now >= MinRemaining

\* verify_context: exactly one SVID, for this workload, from a usable bundle.
ContextHolds(context, expected, now) ==
    /\ Cardinality(context.svids) = 1
    /\ context.bundle # {}
    /\ \A svid \in context.svids :
         /\ LifetimeHolds(svid, now) /\ LeafProfile(svid, expected) /\ TrustPath(svid, context.bundle)

\* VerifiedWorkloadIdentity
VerifiedIdentity(context) == [svid |-> CHOOSE s \in context.svids : TRUE, bundle |-> context.bundle]

(***************************************************************************)
(* The agent and the authority behind it.                                  *)
(***************************************************************************)
Upset == upsets < MaxUpsets /\ upsets' = upsets + 1

\* A rotation, or a new registration.
Rotate(w, life) ==
    /\ Upset
    /\ offers' = [offers EXCEPT ![w] = {Svid(w, instant + life)}]
    /\ withdrawn' = IF w = ServiceId THEN Nobody ELSE withdrawn
    /\ UNCHANGED <<instant, authorities, service, refresher, exchange>>

\* The registration is gone, or the agent is.
Withdraw(w) ==
    /\ Upset /\ offers[w] # {}
    /\ offers' = [offers EXCEPT ![w] = {}]
    /\ withdrawn' = IF w = ServiceId THEN instant ELSE withdrawn
    /\ UNCHANGED <<instant, authorities, service, refresher, exchange>>

\* A second registration matches the workload.
OfferSecond(w) ==
    /\ Upset /\ Cardinality(offers[w]) = 1
    /\ offers' = [offers EXCEPT ![w] = @ \cup {Svid(OtherId, instant + MaxTtl)}]
    /\ withdrawn' = IF w = ServiceId THEN instant ELSE withdrawn
    /\ UNCHANGED <<instant, authorities, service, refresher, exchange>>

\* A new signing key is announced beside the old one, which is dropped later.
AnnounceAuthority ==
    /\ Upset /\ Cardinality(authorities) = 1
    /\ authorities' = authorities \cup {Newest + 1}
    /\ UNCHANGED <<instant, offers, withdrawn, service, refresher, exchange>>

DropAuthority ==
    /\ Upset /\ Cardinality(authorities) = 2
    /\ authorities' = {Newest}
    /\ withdrawn' = IF withdrawn = Nobody /\ \E s \in offers[ServiceId] : s.signer # Newest
                    THEN instant ELSE withdrawn
    /\ UNCHANGED <<instant, offers, service, refresher, exchange>>

(***************************************************************************)
(* The service.                                                            *)
(***************************************************************************)
StoppedService == [phase |-> "stopped", current |-> Nobody, fatal |-> FALSE, lost |-> Nobody]
NoRefresher == [stage |-> "none", since |-> 0, context |-> Nobody]

\* initialize; a context that does not verify ends run_server with status 2.
Initialize ==
    /\ service.phase = "stopped" /\ ContextHolds(ContextOf(ServiceId), ServiceId, instant)
    /\ service' = [StoppedService EXCEPT !.phase = "initialized", !.current = VerifiedIdentity(ContextOf(ServiceId))]
    /\ UNCHANGED <<instant, offers, authorities, withdrawn, upsets, refresher, exchange>>

\* set_fatal_callback and start, in this order; the server listens.
StartServing ==
    /\ service.phase = "initialized"
    /\ service' = [service EXCEPT !.phase = "serving"]
    /\ refresher' = [NoRefresher EXCEPT !.stage = "waiting", !.since = instant]
    /\ UNCHANGED <<instant, offers, authorities, withdrawn, upsets, exchange>>

RefreshDue == refresher.stage = "waiting" /\ instant >= refresher.since + RefreshPeriod

\* _refresh_loop asks the agent.
RefreshBegins ==
    /\ RefreshDue
    /\ refresher' = [refresher EXCEPT !.stage = "asking", !.since = instant]
    /\ UNCHANGED <<instant, offers, authorities, withdrawn, upsets, service, exchange>>

\* The agent reads its cache; the answer may still take its time.
AgentAnswers ==
    /\ refresher.stage = "asking"
    /\ refresher' = [refresher EXCEPT !.stage = "answered", !.context = ContextOf(ServiceId)]
    /\ UNCHANGED <<instant, offers, authorities, withdrawn, upsets, service, exchange>>

\* server_ssl_context over the verified identity; new handshakes use it.
RefreshInstalls ==
    /\ refresher.stage = "answered" /\ ContextHolds(refresher.context, ServiceId, instant)
    /\ service' = [service EXCEPT !.current = VerifiedIdentity(refresher.context)]
    /\ refresher' = [NoRefresher EXCEPT !.stage = "waiting", !.since = instant]
    /\ UNCHANGED <<instant, offers, authorities, withdrawn, upsets, exchange>>

\* Faulty variant: the failure is recorded, the old identity stays in place.
InvalidateKeeping == [service EXCEPT !.lost = instant]

\* _invalidate: no identity is current any more.
Invalidated == [service EXCEPT !.fatal = TRUE, !.current = Nobody, !.lost = instant]

\* The fetch fails, what came does not verify, or no context can be built from
\* it, the key directory being gone.
RefreshFails ==
    /\ refresher.stage \in {"asking", "answered"}
    /\ service' = Invalidated
    /\ refresher' = [NoRefresher EXCEPT !.stage = "lost"]
    /\ UNCHANGED <<instant, offers, authorities, withdrawn, upsets, exchange>>

\* The callback asks the server to exit.
FatalCallback ==
    /\ refresher.stage = "lost"
    /\ service' = [service EXCEPT !.phase = "exiting"]
    /\ refresher' = [refresher EXCEPT !.stage = "ended"]
    /\ UNCHANGED <<instant, offers, authorities, withdrawn, upsets, exchange>>

InService(c) == exchange[c].stage = "served"

\* The requests under way are finished, the refresher is joined, the process
\* ends and is started again.
ServiceExits ==
    /\ service.phase = "exiting" /\ \A c \in Callers : ~InService(c)
    /\ service' = StoppedService /\ refresher' = NoRefresher
    /\ UNCHANGED <<instant, offers, authorities, withdrawn, upsets, exchange>>

(***************************************************************************)
(* An exchange.                                                            *)
(***************************************************************************)
NoExchange == [stage |-> "none", mine |-> Nobody, peer |-> Nobody, at |-> 0]

Moves(c, x) ==
    /\ exchange' = [exchange EXCEPT ![c] = x]
    /\ UNCHANGED <<instant, offers, authorities, withdrawn, upsets, service, refresher>>

\* SpireMtlsHttpExchange.__call__ fetches the caller's identity first.  Exchanges
\* share nothing they write, so one at a time is followed.
CallerFetches(c) ==
    /\ \A d \in Callers : exchange[d] = NoExchange
    /\ ContextHolds(ContextOf(c), c, instant)
    /\ Moves(c, [stage |-> "ready", mine |-> VerifiedIdentity(ContextOf(c)), peer |-> Nobody, at |-> 0])

\* _select_context: the identity a handshake is answered with.
Selectable ==
    /\ service.current # Nobody /\ ~service.fatal
    /\ service.current.svid.from <= instant /\ instant < service.current.svid.until

SelectContext(c) ==
    /\ exchange[c].stage = "ready" /\ service.phase \in {"serving", "exiting"} /\ Selectable
    /\ Moves(c, [stage |-> "hello", mine |-> exchange[c].mine, peer |-> service.current, at |-> instant])

\* The name leads to another server of the trust domain.
Misrouted(c) ==
    /\ exchange[c].stage = "ready"
    /\ Moves(c, [stage |-> "hello", mine |-> exchange[c].mine, at |-> instant,
                 peer |-> [svid |-> Svid(OtherId, instant + MaxTtl), bundle |-> authorities]])

\* OpenSSL: the peer's chain and validity, under one's own bundle.
ChainHolds(svid, bundle) == TrustPath(svid, bundle) /\ svid.from <= instant /\ instant < svid.until

\* require_peer_spiffe_id
PeerAllowed(svid, ids) == svid.id \in ids

\* _IdentityVerifyingHttpsConnection.connect, before anything is sent.
CallerAccepts(c) ==
    /\ exchange[c].stage = "hello"
    /\ ChainHolds(exchange[c].peer.svid, exchange[c].mine.bundle)
    /\ PeerAllowed(exchange[c].peer.svid, {ServiceId})
    /\ Moves(c, [exchange[c] EXCEPT !.stage = "sent"])

\* connection_made: the request reaches the application.
ServiceAccepts(c) ==
    /\ exchange[c].stage = "sent" /\ service.phase \in {"serving", "exiting"}
    /\ ChainHolds(exchange[c].mine.svid, exchange[c].peer.bundle)
    /\ PeerAllowed(exchange[c].mine.svid, Allowed)
    /\ Moves(c, [exchange[c] EXCEPT !.stage = "served"])

\* An answer, a refusal on either side, or a timeout.
ExchangeEnds(c) == exchange[c] # NoExchange /\ Moves(c, NoExchange)

\* The service starts serving at once; its refresh thread runs when it is due
\* and its fetch ends in time.
Urgent ==
    \/ service.phase = "initialized" \/ RefreshDue
    \/ refresher.stage \in {"asking", "answered"} /\ instant >= refresher.since + FetchTimeout

InstantPasses ==
    /\ instant < MaxInstant /\ ~Urgent
    /\ instant' = instant + 1
    /\ UNCHANGED <<offers, authorities, withdrawn, upsets, service, refresher, exchange>>

MtlsInit ==
    /\ instant = 0 /\ authorities = {1} /\ withdrawn = Nobody /\ upsets = 0
    /\ offers = [w \in Workloads |-> {[id |-> w, from |-> 0, until |-> MaxTtl, signer |-> 1]}]
    /\ service = StoppedService /\ refresher = NoRefresher
    /\ exchange = [c \in Callers |-> NoExchange]

MtlsNext ==
    \/ InstantPasses \/ AnnounceAuthority \/ DropAuthority
    \/ \E w \in Workloads : Withdraw(w) \/ OfferSecond(w) \/ \E n \in Lifetimes : Rotate(w, n)
    \/ Initialize \/ StartServing \/ ServiceExits
    \/ RefreshBegins \/ AgentAnswers \/ RefreshInstalls \/ RefreshFails \/ FatalCallback
    \/ \E c \in Callers :
         \/ CallerFetches(c) \/ SelectContext(c) \/ Misrouted(c)
         \/ CallerAccepts(c) \/ ServiceAccepts(c) \/ ExchangeEnds(c)

MtlsSpec == MtlsInit /\ [][MtlsNext]_mtlsVars

(***************************************************************************)
(* Properties                                                              *)
(***************************************************************************)
\* How long an identity that is no longer offered can still be served under:
\* the answer of a fetch that was under way, a period, and one more fetch.
WithdrawalBound == RefreshPeriod + 2 * FetchTimeout

\* A handshake is answered under an identity that was valid then, that the
\* refresher had not lost, and that the agent had not withdrawn longer ago than
\* WithdrawalBound; and a request is served only between the one server its
\* caller meant and a caller on the allow list.  About _select_context,
\* _refresh_loop and the checks of both ends.
HandshakesAreCurrent ==
    \A c \in Callers :
      LET x == exchange[c] IN
      /\ x.stage \in {"hello", "sent", "served"} /\ x.peer.svid.id = ServiceId =>
           /\ x.at < x.peer.svid.until
           /\ service.lost # Nobody => x.at <= service.lost
           /\ withdrawn # Nobody => x.at <= withdrawn + WithdrawalBound
      /\ x.stage = "served" => x.peer.svid.id = ServiceId /\ c \in Allowed
================================================================================
