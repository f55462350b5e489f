---------------------------- MODULE RoutePoker ----------------------------
(***************************************************************************)
(* RoutePoker (llarp/router/route_poker.cpp) of a client with the poker    *)
(* enabled: while an exit is used, the traffic of the machine goes through *)
(* the tunnel, except the packets to the first hops, for each of which a   *)
(* route via the real gateway is installed.  The gateway comes, goes and   *)
(* changes; sessions begin and end; the exit is mapped and unmapped.       *)
(* Everything runs on the event loop.                                      *)
(***************************************************************************)
EXTENDS Naturals, FiniteSets

CONSTANTS
  Routers,
  IPOf,        \* the address of a router; two routers may share one
  Gateways,
  NoGateway    \* nullopt, and the address 0 recorded for a route not installed

VARIABLES
  m_up,
  m_CurrentGateway,
  m_PokedRoutes,   \* partial function from addresses to gateways
  routes,          \* of the RouteManager: <<ip, gateway>> added and not deleted
  throughTunnel,   \* the default route is via the tunnel, the rest blackholed
  exitDNS,         \* the DNS server was told to take all queries
  gateway,         \* the system's gateway that is not the tunnel
  hasExit,         \* HasClientExit
  peers,           \* outbound sessions of the link layer
  known            \* routers whose contact is in the nodedb

pokerVars == <<m_up, m_CurrentGateway, m_PokedRoutes>>
systemVars == <<routes, throughTunnel, exitDNS>>
envVars == <<gateway, hasExit, peers, known>>
vars == <<pokerVars, systemVars, envVars>>

\* The two tables as one value.
tables == [poked |-> m_PokedRoutes, routes |-> routes]
SetTables(t) == m_PokedRoutes' = t.poked /\ routes' = t.routes

Init ==
  /\ m_up = FALSE /\ m_CurrentGateway = NoGateway
  /\ m_PokedRoutes = [ip \in {} |-> NoGateway]
  /\ routes = {} /\ throughTunnel = FALSE /\ exitDNS = FALSE
  /\ gateway \in Gateways \cup {NoGateway}
  /\ hasExit = FALSE /\ peers = {} /\ known = Routers

DisableRoute(t, ip, gw) == [t EXCEPT !.routes = @ \ {<<ip, gw>>}]

EnableRoute(t, ip, gw) ==
  [t EXCEPT !.routes = IF gw = NoGateway THEN @ ELSE @ \cup {<<ip, gw>>}]

Record(t, ip, gw) ==
  [t EXCEPT !.poked = [i \in DOMAIN @ \cup {ip} |-> IF i = ip THEN gw ELSE @[i]]]

AddRoute_DisabledLast(t, ip, up, current) ==
  LET added == Record(EnableRoute(t, ip, current), ip, current)
  IN CASE ~up -> t
       [] up /\ current = NoGateway -> Record(t, ip, NoGateway)
       [] OTHER -> IF ip \in DOMAIN t.poked THEN DisableRoute(added, ip, t.poked[ip])
                   ELSE added

\* The mapping that exists is removed and the new one added; without a gateway the
\* address is recorded, and a route that is installed for it stays.
AddRoute(t, ip, up, current) ==
  LET removed == IF ip \in DOMAIN t.poked THEN DisableRoute(t, ip, t.poked[ip]) ELSE t
  IN CASE ~up -> t
       [] up /\ current = NoGateway -> Record(t, ip, NoGateway)
       [] OTHER -> Record(EnableRoute(removed, ip, current), ip, current)

DelRoute(t, ip) ==
  IF ip \notin DOMAIN t.poked THEN t
  ELSE LET disabled == DisableRoute(t, ip, t.poked[ip])
       IN [disabled EXCEPT !.poked = [i \in DOMAIN @ \ {ip} |-> @[i]]]

\* A call for each of a set of addresses.  The calls for different addresses do
\* not touch the same entries, so that their order does not matter.
AddRoutes(t, ips, up, current) ==
  LET of(ip) == AddRoute(t, ip, up, current)
  IN [poked |-> [ip \in DOMAIN t.poked \cup UNION {DOMAIN of(i).poked : i \in ips} |->
                   IF ip \in ips THEN of(ip).poked[ip] ELSE t.poked[ip]],
      routes |-> {e \in t.routes : e[1] \notin ips}
                   \cup UNION {{e \in of(ip).routes : e[1] = ip} : ip \in ips}]

DelRoutes(t, ips) ==
  [poked |-> [ip \in DOMAIN t.poked \ ips |-> t.poked[ip]],
   routes |-> {e \in t.routes : e[1] \in ips => e \in DelRoute(t, e[1]).routes}]

PeerIPs == {IPOf[r] : r \in peers}

\* Up, with the gateway known at that time: a poker that comes up without one
\* adds no route, and is up for the calls that follow.
Up ==
  IF m_up THEN UNCHANGED <<m_up, m_PokedRoutes, systemVars>>
  ELSE /\ m_up' = TRUE /\ exitDNS' = TRUE
       /\ IF m_CurrentGateway = NoGateway
            THEN UNCHANGED <<m_PokedRoutes, routes, throughTunnel>>
            ELSE /\ SetTables(AddRoutes(tables, PeerIPs, TRUE, m_CurrentGateway))
                 /\ throughTunnel' = TRUE

\* The routes of the current peers are removed, with the default route.
Down ==
  /\ SetTables(DelRoutes(tables, PeerIPs))
  /\ throughTunnel' = IF m_up THEN FALSE ELSE throughTunnel
  /\ exitDNS' = IF m_up THEN FALSE ELSE exitDNS
  /\ m_up' = FALSE

-----------------------------------------------------------------------------
(* The handlers.                                                           *)

\* Update, every 100 ms.  When the gateway goes away or changes, the sessions are
\* closed (Freeze, Thaw), which ends them later; a change refreshes the routes
\* that are recorded.
Update ==
  /\ m_CurrentGateway' = gateway
  /\ CASE gateway = m_CurrentGateway ->
            IF hasExit THEN Up ELSE UNCHANGED <<m_up, m_PokedRoutes, systemVars>>
       [] gateway # m_CurrentGateway /\ NoGateway \notin {gateway, m_CurrentGateway} ->
            /\ SetTables(AddRoutes(tables, DOMAIN m_PokedRoutes, m_up, gateway))
            /\ UNCHANGED <<m_up, throughTunnel, exitDNS>>
       [] OTHER -> UNCHANGED <<m_up, m_PokedRoutes, systemVars>>
  /\ UNCHANGED envVars

\* A packet for the exit found a path to it (HandleGotUserPacket).
FlowToExit ==
  /\ hasExit
  /\ Up
  /\ UNCHANGED <<m_CurrentGateway, envVars>>

\* The outbound link begins a session.
StartSession(r) ==
  /\ r \notin peers
  /\ peers' = peers \cup {r}
  /\ SetTables(AddRoute(tables, IPOf[r], m_up, m_CurrentGateway))
  /\ UNCHANGED <<m_up, m_CurrentGateway, throughTunnel, exitDNS, gateway, hasExit, known>>

\* SessionClosed: the addresses are those of the contact in the nodedb.
SessionClosed(r) ==
  /\ r \in peers
  /\ peers' = peers \ {r}
  /\ SetTables(IF r \in known THEN DelRoute(tables, IPOf[r]) ELSE tables)
  /\ UNCHANGED <<m_up, m_CurrentGateway, throughTunnel, exitDNS, gateway, hasExit, known>>

\* The rpc command exit: mapped, or unmapped, or the attempt to use it failed.
MapExit ==
  /\ ~hasExit /\ hasExit' = TRUE
  /\ UNCHANGED <<pokerVars, systemVars, gateway, peers, known>>

UnmapExit ==
  /\ Down
  /\ hasExit' = FALSE
  /\ UNCHANGED <<m_CurrentGateway, gateway, peers, known>>

GatewayChanges ==
  /\ gateway' \in (Gateways \cup {NoGateway}) \ {gateway}
  /\ UNCHANGED <<pokerVars, systemVars, hasExit, peers, known>>

ContactChanges(r) ==
  /\ known' = IF r \in known THEN known \ {r} ELSE known \cup {r}
  /\ UNCHANGED <<pokerVars, systemVars, gateway, hasExit, peers>>

Next ==
  \/ Update \/ FlowToExit \/ MapExit \/ UnmapExit \/ GatewayChanges
  \/ \E r \in Routers : StartSession(r) \/ SessionClosed(r) \/ ContactChanges(r)

-----------------------------------------------------------------------------
(* Properties.                                                             *)

\* The record and the system agree: a gateway that is recorded for an address is
\* the one of a route installed for it, so that DelRoute and the destructor
\* remove it, and that the packets of the session do not go into the tunnel they
\* carry; the default route is via the tunnel, and all queries go to the DNS
\* server of the tunnel, only while the poker is up (AddRoute, RefreshAllRoutes,
\* Up, Down, with the gateway changing in between).
RoutesRecorded ==
  /\ \A ip \in DOMAIN m_PokedRoutes :
       m_PokedRoutes[ip] # NoGateway => <<ip, m_PokedRoutes[ip]>> \in routes
  /\ throughTunnel => m_up
  /\ exitDNS = m_up
=============================================================================
