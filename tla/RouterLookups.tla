---------------------------- MODULE RouterLookups ----------------------------
(* Finding a router's contact (RC) through the DHT: RCLookupHandler
   (router/rc_lookup_handler.cpp) of every participant, the DHT transactions for
   router lookups and exploration (dht/context.cpp, dht/messages, the lookup
   jobs), and the anonymous lookups of a client's endpoint
   (service/endpoint.cpp).  Participants ask one another; messages between them
   are handled in any order, late, or never.

   Every handler runs on the participant's event loop, so it is one step that
   takes the participant's state n = node[p] to a new one; n.out collects the
   messages it sends.  A contact is its router: what matters is who has it.
   Time is abstract: a lookup may time out whenever it is pending.             *)
EXTENDS TxHolder, FiniteSetsExt, Naturals

CONSTANTS
  Routers,           \* master nodes: they answer lookups (AllowTransit)
  Clients,
  PathEnd,           \* the router at the end of each client's path
  Distance(_, _),    \* the XOR metric on the routers' keys
  Bootstrap,         \* the bootstrap routers, whose contacts are never stale
  Requests,          \* calls of GetRC with a callback: [at, target, force]
  Views,             \* the possible contacts of the participants at the start
  MaxIds,            \* bound: DHT transactions of each participant
  MaxChores          \* bound: steps that are no part of a lookup for a request

Participants == Routers \union Clients

VARIABLES
  node,              \* each participant's state:
                     \*   nodedb, nodes: contacts in the node database and the DHT bucket
                     \*   soon: those that expire soon;  allowed: SessionIsAllowed
                     \*   lookups, explores: pendingRouterLookups, pendingExploreLookups
                     \*   ids;  pending: the routers in RCLookupHandler's pendingCallbacks
                     \*   callbacks: the requests whose callbacks are there
                     \*   m_PendingRouters: a client's anonymous lookups, in
                     \*   handled those with a handler;  called: the callbacks called
  net,               \* messages under way
  chores             \* how many such steps were taken
vars == <<node, net, chores>>

Closest(S, t) == CHOOSE r \in S : \A s \in S : Distance(r, t) <= Distance(s, t)

Begin(view) ==
  [nodedb |-> view.nodedb, nodes |-> view.nodes, soon |-> view.soon, allowed |-> Routers,
   lookups |-> EmptyHolder, explores |-> EmptyHolder, ids |-> 0, pending |-> {},
   callbacks |-> {}, m_PendingRouters |-> {}, handled |-> {}, called |-> <<>>, out |-> {}]

Init == /\ \E views \in Views : node = [p \in Participants |-> Begin(views[p])]
        /\ net = {} /\ chores = 0

-----------------------------------------------------------------------------
(* Transactions and messages.                                                  *)

Msg(type, p, to, txid, target, found) ==
  [type |-> type, from |-> p, to |-> to, txid |-> txid, target |-> target, found |-> found]

\* Who is told the outcome of a lookup: RCLookupHandler here, nobody but the
\* node database (a lookup for exploration), a peer that asked, or a path.
Local == [kind |-> "local"]
ForExplore == [kind |-> "explore"]
ForPeer(m) == [kind |-> "peer", peer |-> m.from, txid |-> m.txid]
ForPath(m) == [kind |-> "path", client |-> m.from]

\* LookupRouterRecursive and LookupRouterForPath ask a peer; only the first
\* lookup of a key is sent.
LookupVia(p, n, peer, t, job) ==
  LET owner == [peer |-> peer, txid |-> <<p, n.ids + 1>>]
  IN [n EXCEPT !.ids = @ + 1,
               !.lookups = NewTX(@, owner, t, job),
               !.out = IF Starts(n.lookups, t)
                       THEN @ \union {Msg("FRM", p, peer, owner.txid, t, {})} ELSE @]

LookupRouter(p, n, t, job) == LookupVia(p, n, Closest(n.nodes, t), t, job)

ExploreNetworkVia(p, n, peer) ==
  LET owner == [peer |-> peer, txid |-> <<p, n.ids + 1>>]
  IN [n EXCEPT !.ids = @ + 1,
               !.explores = NewTX(@, owner, peer, ForExplore),
               !.out = IF Starts(n.explores, peer)
                       THEN @ \union {Msg("explore", p, peer, owner.txid, peer, {})} ELSE @]

-----------------------------------------------------------------------------
(* RCLookupHandler.                                                            *)

Call(n, requests) == [n EXCEPT !.called = [q \in DOMAIN @ \union requests |->
   (IF q \in DOMAIN @ THEN @[q] ELSE 0) + (IF q \in requests THEN 1 ELSE 0)]]

\* Mutant: the callbacks stay in pendingCallbacks when they are called.
CallAndKeep(n, t) ==
  LET told == {q \in n.callbacks : q.target = t}
  IN Call([n EXCEPT !.pending = @ \ {t}], told)
FinalizeRequest(n, t) ==
  LET told == {q \in n.callbacks : q.target = t}
  IN Call([n EXCEPT !.pending = @ \ {t}, !.callbacks = @ \ told], told)

\* CheckRC of a valid contact of a public router: it goes to the node database
\* and the bucket, or leaves the bucket if the router is not allowed.
CheckRC(n, t) ==
  IF t \in n.allowed
  THEN [n EXCEPT !.nodedb = @ \union {t}, !.nodes = @ \union {t}, !.soon = @ \ {t}]
  ELSE [n EXCEPT !.nodes = @ \ {t}]

\* Mutant: nothing is told when nothing was found.
SilentIfNotFound(n, t, found) == IF found = {} THEN n ELSE FinalizeRequest(CheckRC(n, t), t)
HandleDHTLookupResult(n, t, found) ==
  FinalizeRequest(IF found # {} /\ t \in n.allowed THEN CheckRC(n, t) ELSE n, t)

\* LookupRouterAnon: a client asks through its path, once per router.
LookupRouterAnon(p, n, t, handler) ==
  [n EXCEPT !.m_PendingRouters = @ \union {t},
            !.handled = IF handler THEN @ \union {t} ELSE @ \ {t},
            !.out = @ \union {Msg("relayed FRM", p, PathEnd[p], <<>>, t, {})}]

\* GetRC; requests holds the request with its callback, or nothing.  A contact
\* that is known answers at once, a lookup under way answers this request too.
GetRC(p, n, t, requests, force) ==
  LET waits == [n EXCEPT !.pending = @ \union {t}, !.callbacks = @ \union requests]
  IN CASE t \in n.nodedb /\ ~force -> FinalizeRequest(Call(n, requests), t)
       [] t \notin n.nodedb \/ force ->
            IF t \in n.pending THEN waits
            ELSE IF p \in Clients /\ t \notin n.m_PendingRouters
            THEN LookupRouterAnon(p, waits, t, TRUE)
            ELSE IF n.nodes # {} THEN LookupRouter(p, waits, t, Local)
            ELSE FinalizeRequest(waits, t)

\* PeriodicUpdate refreshes old contacts and removes stale ones.
PeriodicUpdate(p, n, old, stale) ==
  LET asked == FoldSet(LAMBDA t, s : GetRC(p, s, t, {}, TRUE), n, old \ n.pending)
  IN [asked EXCEPT !.nodedb = @ \ (stale \ Bootstrap)]

-----------------------------------------------------------------------------
(* Informing those who wait for a lookup (TXHolder::Inform and the jobs'
   SendReply).                                                                 *)

\* RecursiveRouterLookup::SendReply: a contact that fails CheckRC becomes a null one.
SendReply(p, n, t, job, found) ==
  LET checked == IF found = {} THEN n ELSE CheckRC(n, t)
      value   == IF found = {} THEN {} ELSE IF t \in n.allowed THEN {t} ELSE {"null"}
  IN CASE job.kind = "local"   -> HandleDHTLookupResult(checked, t, value)
       [] job.kind = "explore" -> checked
       [] job.kind = "peer"    ->
            [checked EXCEPT !.out = @ \union {Msg("GRM", p, job.peer, job.txid, t, value)}]
       [] job.kind = "path"    ->   \* LocalRouterLookup: rc.OtherIsNewer(found) never holds
            [n EXCEPT !.out = @ \union {Msg("relayed GRM", p, job.client, <<>>, t, {})}]

Inform(p, n, t, found) ==
  FoldSet(LAMBDA job, s : SendReply(p, s, t, job, found),
          [n EXCEPT !.lookups = AfterInform(@, t)], Informed(n.lookups, t))

\* ExploreNetworkJob::SendReply looks up the routers it does not have.
InformExplore(p, n, peer, found) ==
  FoldSet(LAMBDA ask, s : LookupRouter(p, s, ask[2], ForExplore),
          [n EXCEPT !.explores = AfterInform(@, peer)],
          IF n.nodes = {} THEN {} ELSE WaitingFor(n.explores, peer) \X (found \ n.nodedb))

-----------------------------------------------------------------------------
(* Handlers of messages.                                                       *)

Reply(n, type, m, found) ==
  [n EXCEPT !.out = @ \union {Msg(type, m.to, m.from, m.txid, m.target, found)}]

\* LookupRouterRelayed, after the checks of FindRouterMessage::HandleMessage.
HandleFRM(n, m) ==
  LET p == m.to  t == m.target  next == Closest(n.nodedb, t)
  IN CASE HasPendingLookupFrom(n.lookups, [peer |-> m.from, txid |-> m.txid]) -> n
       [] t = p -> Reply(n, "GRM", m, {p})
       [] t # p /\ t \notin n.allowed -> Reply(n, "GRM", m, {})
       [] t # p /\ t \in n.allowed ->
            IF next = t /\ t \notin n.soon THEN Reply(n, "GRM", m, {t})
            ELSE IF next = t \/ Distance(next, t) < Distance(p, t)
            THEN LookupVia(p, n, next, t, ForPeer(m))
            ELSE Reply(n, "GRM", m, {})

\* HandleExploritoryRouterLookup: as many routers as we have, at most 4, that
\* are neither us nor the requester, without those that are bad to connect to;
\* no reply if there are fewer.
HandleExplore(n, m, near, bad) ==
  LET others == n.nodes \ {m.to, m.from}
  IN IF n.nodes # {} /\ Cardinality(others) >= Min({Cardinality(n.nodes), 4})
     THEN Reply(n, "GRM", m, near \ bad) ELSE n

\* RelayedFindRouterMessage::HandleMessage.
HandleRelayedFRM(n, m) ==
  LET p == m.to  t == m.target  next == Closest(n.nodedb, t)
  IN CASE t = p -> Reply(n, "relayed GRM", m, {p})
       [] t # p /\ t \notin n.allowed -> Reply(n, "relayed GRM", m, {})
       [] t # p /\ t \in n.allowed ->
            IF next = t THEN Reply(n, "relayed GRM", m, {t})
            ELSE LookupVia(p, n, next, t, ForPath(m))

\* GotRouterMessage::HandleMessage: a null contact is ignored, the contact of an
\* answer nobody waits for any more is kept if it is good.
HandleGRM(n, m) ==
  LET owner == [peer |-> m.from, txid |-> m.txid]
  IN CASE HasPendingLookupFrom(n.explores, owner) -> InformExplore(m.to, n, m.from, m.found)
       [] HasPendingLookupFrom(n.lookups, owner) ->
            IF "null" \in m.found THEN n ELSE Inform(m.to, n, m.target, m.found)
       [] ~HasPendingLookupFrom(n.explores, owner) /\ ~HasPendingLookupFrom(n.lookups, owner) ->
            IF m.found = {m.target} THEN CheckRC(n, m.target) ELSE n

\* The endpoint's answer to an anonymous lookup (HandleGotRouterMessage and
\* HandleVerifyGotRouter).  A lookup keeps another txid than the one it sent, so
\* an answer that nothing was found ends no lookup.
InformResult(n, t, found) ==
  LET ended == [n EXCEPT !.m_PendingRouters = @ \ {t}, !.handled = @ \ {t},
                         !.nodedb = IF found = {} THEN @ \ {t} ELSE @]
  IN IF t \in n.handled THEN HandleDHTLookupResult(ended, t, found) ELSE ended
HandleGotRouterMessage(n, m) ==
  LET kept == [n EXCEPT !.nodedb = @ \union m.found, !.soon = @ \ m.found]
  IN IF m.found # {} /\ m.target \in n.m_PendingRouters
     THEN InformResult(kept, m.target, m.found) ELSE kept

Handle(n, m) ==
  CASE m.type = "FRM"         -> HandleFRM(n, m)
    [] m.type = "GRM"         -> HandleGRM(n, m)
    [] m.type = "relayed FRM" -> HandleRelayedFRM(n, m)
    [] m.type = "relayed GRM" -> HandleGotRouterMessage(n, m)

-----------------------------------------------------------------------------
(* Steps.                                                                      *)

Step(p, n) == /\ n.ids <= MaxIds[p]
              /\ node' = [node EXCEPT ![p] = [n EXCEPT !.out = {}]]

RequestRC(q) ==
  /\ q \notin DOMAIN node[q.at].called \union node[q.at].callbacks
  /\ LET n == GetRC(q.at, node[q.at], q.target, {q}, q.force)
     IN Step(q.at, n) /\ net' = net \union n.out
  /\ UNCHANGED chores

Tick(p) ==
  \E old, stale \in SUBSET node[p].nodedb :
    LET n == PeriodicUpdate(p, node[p], old, stale)
    IN Cardinality(old) <= 1 /\ Step(p, n) /\ net' = net \union n.out

\* The endpoint makes sure it knows the routers of a service's introductions.
EnsureRouterIsKnown(c) ==
  \E t \in Routers \ (node[c].nodedb \union node[c].m_PendingRouters) :
    LET n == LookupRouterAnon(c, node[c], t, FALSE)
    IN Step(c, n) /\ net' = net \union n.out

\* ExploreNetwork: a client asks the routers it is connected to, a router looks
\* up routers of its whitelist that it does not have.
ExploreNetwork(p) ==
  \E asked \in SUBSET Routers :
    LET n == IF p \in Clients
             THEN FoldSet(LAMBDA r, s : ExploreNetworkVia(p, s, r), node[p], asked)
             ELSE FoldSet(LAMBDA r, s : GetRC(p, s, r, {}, TRUE), node[p], asked)
    IN /\ asked # {}
       /\ asked \subseteq (IF p \in Clients THEN node[p].nodedb ELSE Routers \ node[p].nodedb)
       /\ Step(p, n) /\ net' = net \union n.out

Receive(m) ==
  /\ m.type # "explore"
  /\ LET n == Handle(node[m.to], m)
     IN Step(m.to, n) /\ net' = (net \ {m}) \union n.out
  /\ UNCHANGED chores
ReceiveExplore(m) ==
  /\ m.type = "explore"
  /\ \E near \in kSubset(Min({Cardinality(node[m.to].nodes), 4}),
                         node[m.to].nodes \ {m.to, m.from}) \union {{}}, bad \in SUBSET node[m.to].nodes :
       LET n == HandleExplore(node[m.to], m, near, bad)
       IN Step(m.to, n) /\ net' = (net \ {m}) \union n.out
  /\ UNCHANGED chores

\* SetRouterWhitelist: a router is no longer on the list.
SetRouterWhitelist(p) ==
  \E t \in node[p].allowed :
    /\ node' = [node EXCEPT ![p].allowed = @ \ {t}]
    /\ UNCHANGED net

\* The cleaner timer: lookups whose time is up are told that nothing was found.
\* Mutant: only explorations expire.
ExpireExplores(p) ==
  /\ UNCHANGED chores
  /\ \E t \in node[p].explores.timeouts :
       LET n == [node[p] EXCEPT !.explores = AfterInform(@, t)]
       IN Step(p, n) /\ net' = net \union n.out
CleanupTX(p) ==
  /\ UNCHANGED chores
  /\ \E t \in node[p].lookups.timeouts \union node[p].explores.timeouts :
       LET n == [Inform(p, node[p], t, {}) EXCEPT !.explores = AfterInform(@, t)]
       IN Step(p, n) /\ net' = net \union n.out
ExpirePendingRouterLookups(c) ==
  /\ UNCHANGED chores
  /\ \E t \in node[c].m_PendingRouters :
       LET n == InformResult(node[c], t, {})
       IN Step(c, n) /\ net' = net \union n.out

Chore ==
  /\ chores < MaxChores /\ chores' = chores + 1
  /\ \/ \E p \in Participants : Tick(p) \/ ExploreNetwork(p) \/ SetRouterWhitelist(p)
     \/ \E c \in Clients : EnsureRouterIsKnown(c)

Next ==
  \/ Chore
  \/ \E q \in Requests : RequestRC(q)
  \/ \E p \in Participants : CleanupTX(p)
  \/ \E c \in Clients : ExpirePendingRouterLookups(c)
  \/ \E m \in net : Receive(m) \/ ReceiveExplore(m)

\* The cleaner and the endpoint's tick are timers of the event loop: they run
\* again and again.  Nothing is assumed of the network.
Spec == /\ Init /\ [][Next]_vars
        /\ \A p \in Participants : WF_vars(CleanupTX(p))
        /\ \A c \in Clients : WF_vars(ExpirePendingRouterLookups(c))

-----------------------------------------------------------------------------
TypeOK ==
  \A p \in Participants : LET n == node[p] IN
    /\ {n.nodedb, n.nodes, n.soon, n.allowed, n.pending} \subseteq SUBSET Routers
    /\ n.handled \subseteq n.m_PendingRouters /\ n.m_PendingRouters \subseteq Routers
    /\ n.callbacks \subseteq {q \in Requests : q.at = p}
    /\ n.ids \in 0..MaxIds[p] /\ n.out = {}

\* A router whose contact RCLookupHandler waits for is being looked up, by a
\* transaction or by the endpoint, and callbacks wait for nothing else: the
\* entry in pendingCallbacks, which keeps GetRC from asking again, goes away.
PendingIsServed ==
  \A p \in Participants : LET n == node[p] IN
    /\ \A t \in n.pending : Local \in Informed(n.lookups, t) \/ t \in n.handled
    /\ \A q \in n.callbacks : q.target \in n.pending

\* The callback given to GetRC is called at most once, however many lookups for
\* the router run and however late their answers come (FinalizeRequest).
CalledOnce ==
  \A p \in Participants : LET n == node[p] IN
    \A q \in DOMAIN n.called : n.called[q] = 1 /\ q \notin n.callbacks

\* The callbacks of GetRC and the lookups they wait for are kept track of together:
\* each is called at most once and none waits for a lookup that is not under way.
CallbacksTracked == CalledOnce /\ PendingIsServed

\* Every callback given to GetRC is called, whatever happens to the messages
\* and although participants may wait for one another in a circle.
LookupsEnd ==
  \A q \in Requests : q \in node[q.at].callbacks ~> q \in DOMAIN node[q.at].called

\* A path that asked for a router's contact is told the contact the lookup found.
PathIsToldTheResult ==
  [][\A m \in net \ net' :
       m.type = "GRM" /\ m.found = {m.target} =>
         \A job \in Informed(node[m.to].lookups, m.target) :
           job.kind = "path" /\ job \notin Informed(node'[m.to].lookups, m.target) =>
             \E r \in net' : r.type = "relayed GRM" /\ r.to = job.client /\ r.found = m.found]_vars
==============================================================================
