---------------------------- MODULE LinkSessions ----------------------------
(* The handshake of iwp::Session between a client and a router, and the tables
   of sessions of their link layers.  The client makes attempts one after the
   other, may restart under another identity or address, and the router may
   restart; packets are lost, duplicated and reordered.  An attempt's key is its
   number n: both ends derive it from the nonce of the introduction.  A LIM is a
   message of IwpMessages: handled at most once, and the client's completion
   handler says success only if it was.  Timeouts happen at any time: those of
   sessions that hear nothing have to.                                         *)
EXTENDS Naturals, Sequences, TLAPS

CONSTANTS
  Idents, Addrs,   \* identity keys and addresses the client may have
  NoIdent,         \* no entry
  MaxAttempts,     \* bound: calls of TryEstablishTo that get through
  MaxInbound,      \* bound: inbound sessions the router creates
  MaxRestarts      \* bound: restarts of either side

VARIABLES
  me,              \* the client's identity and address
  attempts,        \* n -> the identity and address that made attempt n
  session,         \* the client's only session: [n, state, table, lim]
  told,            \* n -> what the client's router was told of attempt n
  inbound,         \* token -> the router's session, or NoSession
  m_Pending,       \* address -> token, or 0
  m_AuthedLinks,   \* identity -> token, or 0
  m_AuthedAddrs,   \* address -> identity, or NoIdent
  net,             \* every packet sent so far
  restarts

clientVars == <<me, attempts, session, told>>
routerVars == <<inbound, m_Pending, m_AuthedLinks, m_AuthedAddrs>>
vars == <<clientVars, routerVars, net, restarts>>

Lives == [ident : Idents, addr : Addrs]
NoSession == [n |-> 0, state |-> "none", lim |-> FALSE, clos |-> FALSE]
NoLink == [n |-> 0, state |-> "none", table |-> "none", lim |-> "none"]
FromRouter == {"ack", "router LIM", "MACK", "router CLOS"}

Init ==
  /\ me \in Lives /\ attempts = <<>> /\ session = NoLink /\ told = <<>>
  /\ inbound = <<>>
  /\ m_Pending = [a \in Addrs |-> 0]
  /\ m_AuthedLinks = [i \in Idents |-> 0]
  /\ m_AuthedAddrs = [a \in Addrs |-> NoIdent]
  /\ net = {} /\ restarts = 0

Sent(type, n, t) == [type |-> type, n |-> n, token |-> t]
Send(type, n, t) == net' = net \cup {Sent(type, n, t)}
GenerateAndSendIntro(n) == Send("intro", n, 0)
SendOurLIM(by, n) == Send(by, n, 0)

-----------------------------------------------------------------------------
(* The client                                                               *)

\* A session or a pending one to the router refuses another.
TryEstablishTo ==
  LET n == Len(attempts) + 1 IN
  /\ n <= MaxAttempts /\ session.table = "none"
  /\ attempts' = Append(attempts, me) /\ told' = Append(told, <<>>)
  /\ session' = [n |-> n, state |-> "Introduction", table |-> "pending", lim |-> "none"]
  /\ GenerateAndSendIntro(n)
  /\ UNCHANGED <<me, routerVars, restarts>>

\* During the introduction everything that decrypts is taken for the reply to it.
HandleGotIntroAck(p) ==
  /\ p.type \in FromRouter /\ p.n = session.n /\ session.state = "Introduction"
  /\ session' = [session EXCEPT !.state = "LinkIntro"]
  /\ Send("request", p.n, p.token)
  /\ UNCHANGED <<me, attempts, told, routerVars, restarts>>

\* Session data is handled in every state after the introduction, Closed included.
TakesData(s, p) == p.n = s.n /\ s.state \in {"LinkIntro", "Ready", "Closed"}

GotOutboundLIM(p) ==
  /\ p.type = "router LIM" /\ TakesData(session, p) /\ session.lim = "none"
  /\ session' = [session EXCEPT !.lim = "sent"]
  /\ SendOurLIM("client LIM", p.n)
  /\ UNCHANGED <<me, attempts, told, routerVars, restarts>>

\* The handler of our LIM on success: whatever state the session is in by now, it
\* is ready, moves to m_AuthedLinks (MapAddr) and is announced.
LIMDelivered_Gone(p) ==
  /\ p.type = "MACK" /\ p.n \in DOMAIN attempts
  /\ session' = IF TakesData(session, p)
                  THEN [session EXCEPT !.lim = "done", !.state = "Ready", !.table = "authed"]
                  ELSE session
  /\ told' = [told EXCEPT ![p.n] = Append(@, "established")]
  /\ UNCHANGED <<me, attempts, routerVars, net, restarts>>
LIMDelivered(p) ==
  /\ p.type = "MACK" /\ TakesData(session, p) /\ session.lim = "sent"
  /\ session' = [session EXCEPT !.lim = "done", !.state = "Ready", !.table = "authed"]
  /\ told' = [told EXCEPT ![p.n] = Append(@, "established")]
  /\ UNCHANGED <<me, attempts, routerVars, net, restarts>>

LIMDropped ==
  /\ session.lim = "sent"
  /\ session' = [session EXCEPT !.lim = "done"]
  /\ UNCHANGED <<me, attempts, told, routerVars, net, restarts>>

HandleCLOS(p) ==
  /\ p.type = "router CLOS" /\ TakesData(session, p) /\ session.state # "Closed"
  /\ session' = [session EXCEPT !.state = "Closed"]
  /\ Send("client CLOS", p.n, 0)
  /\ UNCHANGED <<me, attempts, told, routerVars, restarts>>

\* CloseSessionTo, or a session of m_AuthedLinks that timed out: closed, erased
\* and announced.
CloseAuthed ==
  /\ session.table = "authed"
  /\ session' = NoLink /\ told' = [told EXCEPT ![session.n] = Append(@, "closed")]
  /\ Send("client CLOS", session.n, 0)
  /\ UNCHANGED <<me, attempts, routerVars, restarts>>

\* A pending session that timed out is erased and announced, not closed.
PumpPending ==
  /\ session.table = "pending"
  /\ session' = NoLink /\ told' = [told EXCEPT ![session.n] = Append(@, "timeout")]
  /\ UNCHANGED <<me, attempts, routerVars, net, restarts>>

\* The client stops (Stop closes every session) or crashes, and starts again.
RestartClient ==
  /\ restarts < MaxRestarts /\ restarts' = restarts + 1
  /\ me' \in Lives /\ session' = NoLink
  /\ \/ UNCHANGED net
     \/ session.state \notin {"none", "Closed"} /\ Send("client CLOS", session.n, 0)
  /\ UNCHANGED <<attempts, told, routerVars>>

-----------------------------------------------------------------------------
(* The router: its inbound link layer                                       *)

AddrOf(n) == attempts[n].addr
IdentOf(n) == attempts[n].ident

\* RecvFrom: the session a packet from address a goes to, or 0.
SessionAt(a) ==
  IF m_AuthedAddrs[a] # NoIdent THEN m_AuthedLinks[m_AuthedAddrs[a]] ELSE m_Pending[a]

\* The session that can decrypt p gets it.
Receives(t, p) == t # 0 /\ SessionAt(AddrOf(p.n)) = t /\ inbound[t].n = p.n

\* Only the first packet from an address that has no session can be an
\* introduction: any other session fails to decrypt it.
HandleGotIntro(p) ==
  LET t == Len(inbound) + 1
      a == AddrOf(p.n)
  IN /\ p.type = "intro" /\ t <= MaxInbound
     /\ m_AuthedAddrs[a] = NoIdent /\ m_Pending[a] = 0
     /\ inbound' = Append(inbound, [NoSession EXCEPT !.n = p.n, !.state = "Introduction"])
     /\ m_Pending' = [m_Pending EXCEPT ![a] = t]
     /\ Send("ack", p.n, t)
     /\ UNCHANGED <<clientVars, m_AuthedLinks, m_AuthedAddrs, restarts>>

HandleCreateSessionRequest(p) ==
  LET t == p.token IN
  /\ p.type = "request" /\ Receives(t, p) /\ inbound[t].state = "Introduction"
  /\ inbound' = [inbound EXCEPT ![t].state = "LinkIntro"]
  /\ SendOurLIM("router LIM", p.n)
  /\ UNCHANGED <<clientVars, m_Pending, m_AuthedLinks, m_AuthedAddrs, restarts>>

\* MapAddr moves the session from m_Pending to the authenticated ones, or closes
\* it when the router already has one with this identity.
MapAddr_Second(t, a, i) ==
  /\ inbound' = [inbound EXCEPT ![t] = [@ EXCEPT !.state = "Ready", !.lim = TRUE]]
  /\ m_AuthedAddrs' = [m_AuthedAddrs EXCEPT ![a] = i]
  /\ m_AuthedLinks' = [m_AuthedLinks EXCEPT ![i] = t]
  /\ m_Pending' = [m_Pending EXCEPT ![a] = 0]
  /\ net' = net \cup {Sent("MACK", inbound[t].n, 0)}
MapAddr(t, a, i) ==
  IF m_AuthedLinks[i] # 0
    THEN /\ inbound' = [inbound EXCEPT ![t] = [@ EXCEPT !.state = "Closed", !.lim = TRUE]]
         /\ m_AuthedAddrs' = [m_AuthedAddrs EXCEPT ![a] = NoIdent]
         /\ net' = net \cup {Sent("router CLOS", inbound[t].n, 0), Sent("MACK", inbound[t].n, 0)}
         /\ UNCHANGED <<m_AuthedLinks, m_Pending>>
    ELSE /\ inbound' = [inbound EXCEPT ![t] = [@ EXCEPT !.state = "Ready", !.lim = TRUE]]
         /\ m_AuthedAddrs' = [m_AuthedAddrs EXCEPT ![a] = i]
         /\ m_AuthedLinks' = [m_AuthedLinks EXCEPT ![i] = t]
         /\ m_Pending' = [m_Pending EXCEPT ![a] = 0]
         /\ Send("MACK", inbound[t].n, 0)

\* The session is in m_Pending until its LIM came; later ones only update the RC.
GotInboundLIM(p) ==
  LET t == SessionAt(AddrOf(p.n)) IN
  /\ p.type = "client LIM" /\ Receives(t, p) /\ TakesData(inbound[t], p) /\ ~inbound[t].lim
  /\ MapAddr(t, AddrOf(p.n), IdentOf(p.n))
  /\ UNCHANGED <<clientVars, restarts>>

UnmapAddr(a) == m_AuthedAddrs' = [m_AuthedAddrs EXCEPT ![a] = NoIdent]

\* A CLOS waits in the plaintext queue of its session, which is looked at even if
\* the address has been unmapped meanwhile.  (A LIM could wait there too, but no
\* session that has not seen one can lose its address.)
HandleSessionData(p) ==
  LET t == SessionAt(AddrOf(p.n)) IN
  /\ p.type = "client CLOS" /\ Receives(t, p) /\ TakesData(inbound[t], p)
  /\ inbound' = [inbound EXCEPT ![t].clos = TRUE]
  /\ UNCHANGED <<clientVars, m_Pending, m_AuthedLinks, m_AuthedAddrs, net, restarts>>

\* Closed sessions stay in their table until Pump finds them timed out.
RouterHandleCLOS(t) ==
  /\ inbound[t].clos
  /\ inbound' = [inbound EXCEPT ![t] = [@ EXCEPT !.state = "Closed", !.clos = FALSE]]
  /\ IF inbound[t].state = "Closed" THEN UNCHANGED <<m_AuthedAddrs, net>>
       ELSE UnmapAddr(AddrOf(inbound[t].n)) /\ Send("router CLOS", inbound[t].n, 0)
  /\ UNCHANGED <<clientVars, m_Pending, m_AuthedLinks, restarts>>

\* CloseSessionTo: as a timeout, except that the address of a session that is
\* closed already is not unmapped again.
CloseSessionTo(i) ==
  LET t == m_AuthedLinks[i] IN
  /\ t # 0
  /\ m_AuthedLinks' = [m_AuthedLinks EXCEPT ![i] = 0]
  /\ inbound' = [inbound EXCEPT ![t] = NoSession]
  /\ IF inbound[t].state = "Closed" THEN UNCHANGED <<m_AuthedAddrs, net>>
       ELSE UnmapAddr(AddrOf(inbound[t].n)) /\ Send("router CLOS", inbound[t].n, 0)
  /\ UNCHANGED <<clientVars, m_Pending, restarts>>

\* Pump, for a session that timed out.
PumpRouterAuthed(i) ==
  LET t == m_AuthedLinks[i] IN
  /\ t # 0
  /\ m_AuthedLinks' = [m_AuthedLinks EXCEPT ![i] = 0]
  /\ inbound' = [inbound EXCEPT ![t] = NoSession]
  /\ UnmapAddr(AddrOf(inbound[t].n))
  /\ net' = IF inbound[t].state = "Closed" THEN net
              ELSE net \cup {Sent("router CLOS", inbound[t].n, 0)}
  /\ UNCHANGED <<clientVars, m_Pending, restarts>>

PumpRouterPending_Kept(a) ==
  /\ m_Pending[a] # 0 /\ inbound[m_Pending[a]].state # "Closed"
  /\ m_Pending' = [m_Pending EXCEPT ![a] = 0]
  /\ inbound' = [inbound EXCEPT ![m_Pending[a]] = NoSession]
  /\ UnmapAddr(a)
  /\ UNCHANGED <<clientVars, m_AuthedLinks, net, restarts>>
PumpRouterPending(a) ==
  /\ m_Pending[a] # 0
  /\ m_Pending' = [m_Pending EXCEPT ![a] = 0]
  /\ inbound' = [inbound EXCEPT ![m_Pending[a]] = NoSession]
  /\ UnmapAddr(a)
  /\ UNCHANGED <<clientVars, m_AuthedLinks, net, restarts>>

RestartRouter ==
  /\ restarts < MaxRestarts /\ restarts' = restarts + 1
  /\ inbound' = [t \in DOMAIN inbound |-> NoSession]
  /\ m_Pending' = [a \in Addrs |-> 0]
  /\ m_AuthedLinks' = [i \in Idents |-> 0]
  /\ m_AuthedAddrs' = [a \in Addrs |-> NoIdent]
  /\ \/ UNCHANGED net
     \/ net' = net \cup {Sent("router CLOS", inbound[t].n, 0) :
                            t \in {u \in DOMAIN inbound : inbound[u].state \notin {"none", "Closed"}}}
  /\ UNCHANGED clientVars

-----------------------------------------------------------------------------
ClientStep ==
  \/ TryEstablishTo \/ LIMDropped \/ CloseAuthed \/ PumpPending \/ RestartClient
  \/ \E p \in net : HandleGotIntroAck(p) \/ GotOutboundLIM(p) \/ LIMDelivered(p) \/ HandleCLOS(p)
RouterStep ==
  \/ \E p \in net : \/ HandleGotIntro(p) \/ HandleCreateSessionRequest(p) \/ GotInboundLIM(p)
                    \/ HandleSessionData(p)
  \/ \E t \in DOMAIN inbound : RouterHandleCLOS(t)
  \/ \E i \in Idents : CloseSessionTo(i) \/ PumpRouterAuthed(i)
  \/ \E a \in Addrs : PumpRouterPending(a)
  \/ RestartRouter

Next == ClientStep \/ RouterStep

\* The ends hear each other on the client's session.
Linked(t) ==
  /\ session.table = "authed" /\ session.state = "Ready"
  /\ inbound[t].n = session.n /\ inbound[t].state = "Ready" /\ SessionAt(AddrOf(session.n)) = t

\* Both link layers are pumped: a session that is not ready times out by its age,
\* a ready one when it hears nothing from the other end.
Spec ==
  /\ Init /\ [][Next]_vars
  /\ WF_vars(PumpPending)
  /\ WF_vars(~(\E t \in DOMAIN inbound : Linked(t)) /\ CloseAuthed)
  /\ \A i \in Idents :
       WF_vars(m_AuthedLinks[i] # 0 /\ ~Linked(m_AuthedLinks[i]) /\ PumpRouterAuthed(i))
  /\ \A a \in Addrs : WF_vars(PumpRouterPending(a))

-----------------------------------------------------------------------------
States == {"Introduction", "LinkIntro", "Ready", "Closed"}
PacketTypes == FromRouter \cup {"intro", "request", "client LIM", "client CLOS"}

\* What an inbound session may be that is not erased.
Opened == [n : DOMAIN attempts, state : States, lim : BOOLEAN, clos : BOOLEAN]

TypeOK ==
  /\ me \in Lives /\ attempts \in Seq(Lives) /\ Len(attempts) <= MaxAttempts
  /\ session = NoLink
     \/ session \in [n : DOMAIN attempts, state : States, table : {"pending", "authed"},
                     lim : {"none", "sent", "done"}]
  /\ told \in Seq(Seq({"timeout", "established", "closed"})) /\ Len(told) = Len(attempts)
  /\ inbound \in Seq(Opened \cup {NoSession})
  /\ Len(inbound) <= MaxInbound
  /\ m_Pending \in [Addrs -> 0..Len(inbound)]
  /\ m_AuthedLinks \in [Idents -> 0..Len(inbound)]
  /\ m_AuthedAddrs \in [Addrs -> Idents \cup {NoIdent}]
  /\ net \subseteq [type : PacketTypes, n : DOMAIN attempts, token : 0..MaxInbound]
  /\ restarts \in 0..MaxRestarts

\* The client's router hears of an attempt in order and once: it times out, or it
\* is established and perhaps closed later, however late a LIM, its acknowledgement
\* or a CLOS arrives; and an authenticated session is one it was told of.
ToldInOrder ==
  /\ \A n \in DOMAIN told :
       told[n] \in {<<>>, <<"timeout">>, <<"established">>, <<"established", "closed">>}
  /\ session.table = "pending" => told[session.n] = <<>>
  /\ session.table = "authed" => told[session.n] = <<"established">>

\* A router never has two ready sessions with one identity.
OneReadySession ==
  \A t, u \in DOMAIN inbound :
    inbound[t].state = "Ready" /\ inbound[u].state = "Ready"
    /\ IdentOf(inbound[t].n) = IdentOf(inbound[u].n) => t = u

\* Packets reach a ready session, unless another identity has used its address:
\* then Pump may unmap the address for the old session and cut off the new one.
ReadyIsReachable ==
  \A t \in DOMAIN inbound :
    inbound[t].state = "Ready" =>
      \/ SessionAt(AddrOf(inbound[t].n)) = t
      \/ \E n \in DOMAIN attempts :
           AddrOf(n) = AddrOf(inbound[t].n) /\ IdentOf(n) # IdentOf(inbound[t].n)

\* No end keeps a session for ever that the other end has lost, be it closed there,
\* timed out, forgotten in a restart or cut off from its address; and every attempt
\* of the client ends.
HalfOpen(t) == t \in DOMAIN inbound /\ inbound[t] # NoSession /\ ~Linked(t)
HalfOpenEnds ==
  /\ \A t \in 1..MaxInbound : HalfOpen(t) ~> ~HalfOpen(t)
  /\ session # NoLink /\ (\A t \in DOMAIN inbound : ~Linked(t))
       ~> session = NoLink \/ \E t \in DOMAIN inbound : Linked(t)

-----------------------------------------------------------------------------
(* Theorems.                                                                *)

Parameters ==
  NoIdent \notin Idents /\ MaxAttempts \in Nat /\ MaxInbound \in Nat /\ MaxRestarts \in Nat

\* An authenticated session of the client has no LIM that could still be acknowledged.
ToldInv == ToldInOrder /\ (session.table = "authed" => session.lim = "done")

\* The tables of the router's link layer: m_AuthedLinks holds the sessions that got a LIM,
\* under their identity, and every ready one; m_Pending holds others, under their address,
\* and every one that is being introduced.
TablesAgree ==
  /\ \A i \in Idents : m_AuthedLinks[i] # 0 =>
       LET s == inbound[m_AuthedLinks[i]]
       IN s.state \in {"Ready", "Closed"} /\ s.lim = TRUE /\ IdentOf(s.n) = i
  /\ \A a \in Addrs : m_Pending[a] # 0 =>
       LET s == inbound[m_Pending[a]]
       IN s.state \in {"Introduction", "LinkIntro", "Closed"} /\ AddrOf(s.n) = a
  /\ \A a \in Addrs, i \in Idents : m_Pending[a] # 0 => m_Pending[a] # m_AuthedLinks[i]
  /\ \A t \in DOMAIN inbound : inbound[t].state = "Ready" => m_AuthedLinks[IdentOf(inbound[t].n)] = t
  /\ \A t \in DOMAIN inbound :
       inbound[t].state \in {"Introduction", "LinkIntro"} => m_Pending[AddrOf(inbound[t].n)] = t

\* The address of attempt n is mapped to its identity, unless another identity has used it.
Mapped(n) ==
  \/ m_AuthedAddrs[AddrOf(n)] = IdentOf(n)
  \/ \E k \in DOMAIN attempts : AddrOf(k) = AddrOf(n) /\ IdentOf(k) # IdentOf(n)

\* An address with a pending session is not mapped, that of a ready session is.
AddrsAgree ==
  /\ \A a \in Addrs : m_Pending[a] # 0 => m_AuthedAddrs[a] = NoIdent
  /\ \A t \in DOMAIN inbound : inbound[t].state = "Ready" => Mapped(inbound[t].n)

IInv == TypeOK /\ ToldInv /\ TablesAgree /\ AddrsAgree

LEMMA InitInv == ASSUME Parameters, Init PROVE IInv
<1>1. TypeOK
  BY DEF Parameters, Init, TypeOK, NoLink
<1>2. ToldInv
  BY DEF Init, ToldInv, ToldInOrder, NoLink
<1>3. TablesAgree /\ AddrsAgree
  BY DEF Init, TablesAgree, AddrsAgree
<1> QED
  BY <1>1, <1>2, <1>3 DEF IInv

\* An element of inbound: a session that is not erased has an attempt of the client.
LEMMA Inbound ==
  ASSUME TypeOK, NEW t \in DOMAIN inbound
  PROVE  /\ inbound[t] \in Opened \cup {NoSession}
         /\ inbound[t].state # "none" =>
              /\ inbound[t] \in Opened /\ inbound[t].n \in DOMAIN attempts
              /\ AddrOf(inbound[t].n) \in Addrs /\ IdentOf(inbound[t].n) \in Idents
         /\ inbound[t].state = "none" <=> inbound[t] = NoSession
<1>1. inbound[t] \in Opened \cup {NoSession}
  BY DEF TypeOK
<1>2. CASE inbound[t] = NoSession
  BY <1>1, <1>2 DEF NoSession
<1>3. CASE inbound[t] \in Opened
  <2>1. inbound[t].n \in DOMAIN attempts /\ inbound[t].state \in States
    BY <1>3 DEF Opened
  <2>2. attempts[inbound[t].n] \in Lives
    BY <2>1 DEF TypeOK
  <2>3. "none" \notin States /\ NoSession.state = "none"
    BY DEF States, NoSession
  <2> QED
    BY <1>1, <1>3, <2>1, <2>2, <2>3 DEF Lives, AddrOf, IdentOf
<1> QED
  BY <1>1, <1>2, <1>3

\* What the link layer's tables name is a token.
LEMMA Tokens ==
  ASSUME TypeOK
  PROVE  /\ DOMAIN inbound = 1..Len(inbound) /\ Len(inbound) \in Nat
         /\ \A a \in Addrs : m_Pending[a] # 0 => m_Pending[a] \in DOMAIN inbound
         /\ \A i \in Idents : m_AuthedLinks[i] # 0 => m_AuthedLinks[i] \in DOMAIN inbound
         /\ \A a \in Addrs : SessionAt(a) # 0 => SessionAt(a) \in DOMAIN inbound
<1>1. DOMAIN inbound = 1..Len(inbound) /\ Len(inbound) \in Nat
  BY DEF TypeOK
<1>2. \A a \in Addrs : m_Pending[a] # 0 => m_Pending[a] \in DOMAIN inbound
  BY <1>1 DEF TypeOK
<1>3. \A i \in Idents : m_AuthedLinks[i] # 0 => m_AuthedLinks[i] \in DOMAIN inbound
  BY <1>1 DEF TypeOK
<1>4. \A a \in Addrs : m_AuthedAddrs[a] # NoIdent => m_AuthedAddrs[a] \in Idents
  BY DEF TypeOK
<1>5. \A a \in Addrs : SessionAt(a) # 0 => SessionAt(a) \in DOMAIN inbound
  BY <1>2, <1>3, <1>4 DEF SessionAt
<1> QED
  BY <1>1, <1>2, <1>3, <1>5

\* A token's session is replaced.
LEMMA Replaced ==
  ASSUME TypeOK, NEW t \in DOMAIN inbound, NEW s \in Opened \cup {NoSession},
         inbound' = [inbound EXCEPT ![t] = s]
  PROVE  /\ inbound' \in Seq(Opened \cup {NoSession})
         /\ Len(inbound') = Len(inbound) /\ DOMAIN inbound' = DOMAIN inbound
         /\ inbound'[t] = s
         /\ \A u \in DOMAIN inbound : u # t => inbound'[u] = inbound[u]
<1>1. inbound \in Seq(Opened \cup {NoSession})
  BY DEF TypeOK
<1> QED
  BY <1>1

\* A packet is sent on attempt n.
LEMMA PacketSent ==
  ASSUME TypeOK, Parameters, NEW type \in PacketTypes, NEW n \in DOMAIN attempts, NEW t \in 0..MaxInbound
  PROVE  net \cup {Sent(type, n, t)} \subseteq
           [type : PacketTypes, n : DOMAIN attempts, token : 0..MaxInbound]
<1>1. Sent(type, n, t) \in [type : PacketTypes, n : DOMAIN attempts, token : 0..MaxInbound]
  BY DEF Sent
<1> QED
  BY <1>1 DEF TypeOK

LEMMA NoToken == ASSUME Parameters PROVE 0 \in 0..MaxInbound
BY DEF Parameters

\* The packets that carry no token.
LEMMA PlainPacketSent ==
  ASSUME TypeOK, Parameters, NEW n \in DOMAIN attempts,
         NEW type \in {"router LIM", "MACK", "router CLOS", "client LIM", "client CLOS"}
  PROVE  net \cup {Sent(type, n, 0)} \subseteq
           [type : PacketTypes, n : DOMAIN attempts, token : 0..MaxInbound]
<1>1. type \in PacketTypes
  BY DEF PacketTypes, FromRouter
<1>2. 0 \in 0..MaxInbound
  BY NoToken
<1> QED
  BY <1>1, <1>2, PacketSent

-----------------------------------------------------------------------------
(* The client's steps.                                                      *)

\* The router's tables do not change with the client, except for what new attempts may
\* have in common with old ones.
LEMMA TablesKept ==
  ASSUME IInv, UNCHANGED routerVars, attempts' = attempts
  PROVE  TablesAgree' /\ AddrsAgree'
BY DEF IInv, routerVars, TablesAgree, AddrsAgree, Mapped, AddrOf, IdentOf

LEMMA TryEstablishToInv == ASSUME Parameters, IInv, TryEstablishTo PROVE IInv'
<1>0. PICK n : n = Len(attempts) + 1
  OBVIOUS
<1>1. TypeOK /\ ToldInv /\ TablesAgree /\ AddrsAgree
  BY DEF IInv
<1>2. /\ n <= MaxAttempts /\ session.table = "none"
      /\ attempts' = Append(attempts, me) /\ told' = Append(told, <<>>)
      /\ session' = [n |-> n, state |-> "Introduction", table |-> "pending", lim |-> "none"]
      /\ net' = net \cup {Sent("intro", n, 0)}
      /\ UNCHANGED <<me, routerVars, restarts>>
  BY <1>0 DEF TryEstablishTo, GenerateAndSendIntro, Send
<1>3. /\ attempts \in Seq(Lives) /\ me \in Lives /\ told \in Seq(Seq({"timeout", "established", "closed"}))
      /\ Len(told) = Len(attempts) /\ MaxInbound \in Nat /\ MaxAttempts \in Nat
  BY <1>1 DEF TypeOK, Parameters
<1>4. /\ attempts' \in Seq(Lives) /\ Len(attempts') = n /\ DOMAIN attempts = 1..Len(attempts)
      /\ DOMAIN attempts' = 1..n /\ n \in DOMAIN attempts'
      /\ \A k \in DOMAIN attempts : k \in DOMAIN attempts' /\ attempts'[k] = attempts[k]
  BY <1>0, <1>2, <1>3
<1>5. told' \in Seq(Seq({"timeout", "established", "closed"})) /\ Len(told') = n
      /\ DOMAIN told = 1..Len(attempts) /\ DOMAIN told' = 1..n
      /\ told'[n] = <<>> /\ \A k \in DOMAIN told : told'[k] = told[k]
  BY <1>0, <1>2, <1>3
<1>6. Opened \subseteq Opened'
  BY <1>4 DEF Opened
<1>7. inbound' \in Seq(Opened \cup {NoSession})'
  BY <1>1, <1>2, <1>6 DEF TypeOK, routerVars, NoSession
<1>8. Sent("intro", n, 0) \in [type : PacketTypes, n : DOMAIN attempts', token : 0..MaxInbound]
  BY <1>3, <1>4 DEF Sent, PacketTypes
<1>9. net' \subseteq [type : PacketTypes, n : DOMAIN attempts', token : 0..MaxInbound]
  <2>1. net \subseteq [type : PacketTypes, n : DOMAIN attempts, token : 0..MaxInbound]
    BY <1>1 DEF TypeOK
  <2>2. net \subseteq [type : PacketTypes, n : DOMAIN attempts', token : 0..MaxInbound]
    BY <1>4, <2>1
  <2> QED
    BY <1>2, <1>8, <2>2
<1>10. TypeOK'
  <2>1. session' \in [n : DOMAIN attempts', state : States, table : {"pending", "authed"},
                      lim : {"none", "sent", "done"}]
    BY <1>2, <1>4 DEF States
  <2>2. me' \in Lives /\ attempts' \in Seq(Lives) /\ Len(attempts') <= MaxAttempts
    BY <1>1, <1>2, <1>4 DEF TypeOK
  <2>3. /\ Len(inbound') <= MaxInbound /\ m_Pending' \in [Addrs -> 0..Len(inbound')]
        /\ m_AuthedLinks' \in [Idents -> 0..Len(inbound')]
        /\ m_AuthedAddrs' \in [Addrs -> Idents \cup {NoIdent}] /\ restarts' \in 0..MaxRestarts
    BY <1>1, <1>2 DEF TypeOK, routerVars
  <2> QED
    BY <1>4, <1>5, <1>7, <1>9, <2>1, <2>2, <2>3 DEF TypeOK
<1>11. ToldInv'
  <2>1. \A k \in DOMAIN told' :
          told'[k] \in {<<>>, <<"timeout">>, <<"established">>, <<"established", "closed">>}
    <3> SUFFICES ASSUME NEW k \in DOMAIN told'
                 PROVE  told'[k] \in {<<>>, <<"timeout">>, <<"established">>, <<"established", "closed">>}
      OBVIOUS
    <3>1. k = n \/ k \in DOMAIN told
      BY <1>0, <1>3, <1>5
    <3> QED
      BY <1>1, <1>5, <3>1 DEF ToldInv, ToldInOrder
  <2>2. session'.table = "pending" /\ session'.n = n
    BY <1>2
  <2> QED
    BY <1>5, <2>1, <2>2 DEF ToldInv, ToldInOrder
<1>12. \A t \in DOMAIN inbound : inbound[t].state # "none" => inbound[t].n \in DOMAIN attempts
  BY <1>1, Inbound
<1>13. \A t \in DOMAIN inbound : inbound[t].state # "none" =>
         attempts'[inbound[t].n] = attempts[inbound[t].n]
  BY <1>4, <1>12
<1>14. inbound' = inbound /\ m_Pending' = m_Pending /\ m_AuthedLinks' = m_AuthedLinks
       /\ m_AuthedAddrs' = m_AuthedAddrs
  BY <1>2 DEF routerVars
<1>15. TablesAgree'
  <2>1. /\ \A a \in Addrs : m_Pending[a] # 0 => m_Pending[a] \in DOMAIN inbound
        /\ \A i \in Idents : m_AuthedLinks[i] # 0 => m_AuthedLinks[i] \in DOMAIN inbound
    BY <1>1, Tokens
  <2>2. ASSUME NEW i \in Idents, m_AuthedLinks[i] # 0
        PROVE  LET s == inbound[m_AuthedLinks[i]]
               IN s.state \in {"Ready", "Closed"} /\ s.lim = TRUE /\ attempts'[s.n].ident = i
    BY <1>1, <1>13, <2>1, <2>2 DEF TablesAgree, IdentOf
  <2>3. ASSUME NEW a \in Addrs, m_Pending[a] # 0
        PROVE  LET s == inbound[m_Pending[a]]
               IN s.state \in {"Introduction", "LinkIntro", "Closed"} /\ attempts'[s.n].addr = a
    BY <1>1, <1>13, <2>1, <2>3 DEF TablesAgree, AddrOf
  <2>4. ASSUME NEW t \in DOMAIN inbound
        PROVE  /\ inbound[t].state = "Ready" => m_AuthedLinks[attempts'[inbound[t].n].ident] = t
               /\ inbound[t].state \in {"Introduction", "LinkIntro"} =>
                    m_Pending[attempts'[inbound[t].n].addr] = t
    BY <1>1, <1>13 DEF TablesAgree, AddrOf, IdentOf
  <2> QED
    BY <1>1, <1>14, <2>2, <2>3, <2>4 DEF TablesAgree, AddrOf, IdentOf
<1>16. AddrsAgree'
  <2>1. ASSUME NEW t \in DOMAIN inbound, inbound[t].state = "Ready"
        PROVE  \/ m_AuthedAddrs[attempts'[inbound[t].n].addr] = attempts'[inbound[t].n].ident
               \/ \E k \in DOMAIN attempts' :
                    /\ attempts'[k].addr = attempts'[inbound[t].n].addr
                    /\ attempts'[k].ident # attempts'[inbound[t].n].ident
    <3>1. attempts'[inbound[t].n] = attempts[inbound[t].n]
      BY <1>13, <2>1
    <3>2. CASE m_AuthedAddrs[AddrOf(inbound[t].n)] = IdentOf(inbound[t].n)
      BY <3>1, <3>2 DEF AddrOf, IdentOf
    <3>3. ASSUME NEW k \in DOMAIN attempts,
                 AddrOf(k) = AddrOf(inbound[t].n) /\ IdentOf(k) # IdentOf(inbound[t].n)
          PROVE  k \in DOMAIN attempts' /\ attempts'[k].addr = attempts'[inbound[t].n].addr
                 /\ attempts'[k].ident # attempts'[inbound[t].n].ident
      BY <1>4, <3>1, <3>3 DEF AddrOf, IdentOf
    <3> QED
      BY <1>1, <2>1, <3>2, <3>3 DEF AddrsAgree, Mapped
  <2> QED
    BY <1>1, <1>14, <2>1 DEF AddrsAgree, Mapped, AddrOf, IdentOf
<1> QED
  BY <1>10, <1>11, <1>15, <1>16 DEF IInv

\* A step of the client's session that announces nothing.
LEMMA SessionStepInv ==
  ASSUME Parameters, IInv, NEW s,
         s = NoLink \/ s \in [n : DOMAIN attempts, state : States, table : {"pending", "authed"},
                              lim : {"none", "sent", "done"}],
         session' = s,
         s # NoLink => s.n = session.n /\ s.table = session.table
                       /\ (session.lim = "done" => s.lim = "done"),
         me' \in Lives, restarts' \in 0..MaxRestarts,
         net' \subseteq [type : PacketTypes, n : DOMAIN attempts, token : 0..MaxInbound],
         UNCHANGED <<attempts, told, routerVars>>
  PROVE  IInv'
<1>1. TypeOK /\ ToldInv /\ TablesAgree /\ AddrsAgree
  BY DEF IInv
<1>2. TablesAgree' /\ AddrsAgree'
  BY TablesKept
<1>3. ToldInv'
  BY <1>1 DEF ToldInv, ToldInOrder, NoLink
<1>4. TypeOK'
  <2>1. Opened' = Opened
    BY DEF Opened
  <2> QED
    BY <1>1, <2>1 DEF TypeOK, routerVars
<1> QED
  BY <1>2, <1>3, <1>4 DEF IInv

LEMMA Pair == ASSUME NEW S, NEW s \in Seq(S), Len(s) = 2 PROVE s = <<s[1], s[2]>>
OBVIOUS

LEMMA AppendToOne ==
  ASSUME NEW S, NEW s \in Seq(S), NEW x \in S, Len(s) = 1
  PROVE  Append(s, x) = <<s[1], x>>
<1>1. Append(s, x) \in Seq(S)
  OBVIOUS
<1>2. PICK w \in Seq(S) : w = Append(s, x)
  BY <1>1
<1>3. Len(w) = 2 /\ w[1] = s[1] /\ w[2] = x
  BY <1>2
<1> QED
  BY <1>2, <1>3, Pair

\* A step of the client's session that announces x of its attempt.
LEMMA AnnounceInv ==
  ASSUME Parameters, IInv, session # NoLink, NEW x, NEW s,
         \/ x = "established" /\ session.table = "pending"
            /\ s \in [n : DOMAIN attempts, state : States, table : {"authed"}, lim : {"done"}]
            /\ s.n = session.n
         \/ x = "closed" /\ session.table = "authed" /\ s = NoLink
         \/ x = "timeout" /\ session.table = "pending" /\ s = NoLink,
         session' = s,
         told' = [told EXCEPT ![session.n] = Append(@, x)],
         net' \subseteq [type : PacketTypes, n : DOMAIN attempts, token : 0..MaxInbound],
         UNCHANGED <<me, attempts, routerVars, restarts>>
  PROVE  IInv'
<1>0. PICK n : n = session.n
  OBVIOUS
<1>1. TypeOK /\ ToldInv /\ TablesAgree /\ AddrsAgree
  BY DEF IInv
<1>2. TablesAgree' /\ AddrsAgree'
  BY TablesKept
<1>3. told \in Seq(Seq({"timeout", "established", "closed"})) /\ Len(told) = Len(attempts)
      /\ n \in DOMAIN told /\ told[n] \in Seq({"timeout", "established", "closed"})
  <2>1. told \in Seq(Seq({"timeout", "established", "closed"})) /\ Len(told) = Len(attempts)
        /\ attempts \in Seq(Lives)
    BY <1>1 DEF TypeOK
  <2>2. n \in DOMAIN attempts
    BY <1>0, <1>1 DEF TypeOK
  <2> QED
    BY <2>1, <2>2
<1>4. Append(told[n], x) \in Seq({"timeout", "established", "closed"})
  BY <1>3
<1>5. told' \in Seq(Seq({"timeout", "established", "closed"})) /\ Len(told') = Len(told)
      /\ DOMAIN told' = DOMAIN told
      /\ told'[n] = Append(told[n], x) /\ \A k \in DOMAIN told : k # n => told'[k] = told[k]
  BY <1>0, <1>3, <1>4
<1>6. \/ x = "established" /\ told'[n] = <<"established">>
      \/ x = "closed" /\ told'[n] = <<"established", "closed">>
      \/ x = "timeout" /\ told'[n] = <<"timeout">>
  <2>1. CASE x = "closed" /\ session.table = "authed"
    <3>1. told[n] = <<"established">>
      BY <1>0, <1>1, <2>1 DEF ToldInv, ToldInOrder
    <3>2. Len(told[n]) = 1 /\ told[n][1] = "established"
      BY <3>1
    <3>3. "closed" \in {"timeout", "established", "closed"}
      OBVIOUS
    <3>4. Append(told[n], "closed") = <<told[n][1], "closed">>
      BY <1>3, <3>2, <3>3, AppendToOne
    <3> QED
      BY <1>5, <2>1, <3>2, <3>4
  <2>2. CASE x \in {"established", "timeout"} /\ session.table = "pending"
    <3>1. told[n] = <<>>
      BY <1>0, <1>1, <2>2 DEF ToldInv, ToldInOrder
    <3> QED
      BY <1>5, <2>2, <3>1
  <2> QED
    BY <2>1, <2>2
<1>7. ToldInv'
  <2>1. \A k \in DOMAIN told' :
          told'[k] \in {<<>>, <<"timeout">>, <<"established">>, <<"established", "closed">>}
    BY <1>1, <1>5, <1>6 DEF ToldInv, ToldInOrder
  <2>2. CASE s = NoLink
    BY <2>1, <2>2 DEF ToldInv, ToldInOrder, NoLink
  <2>3. CASE s.table = "authed" /\ s.lim = "done" /\ s.n = n /\ x = "established"
    BY <1>6, <2>1, <2>3 DEF ToldInv, ToldInOrder
  <2> QED
    BY <1>0, <2>2, <2>3
<1>8. TypeOK'
  <2>1. Opened' = Opened
    BY DEF Opened
  <2>2. \/ s = NoLink
        \/ s \in [n : DOMAIN attempts, state : States, table : {"pending", "authed"},
                  lim : {"none", "sent", "done"}]
    OBVIOUS
  <2> QED
    BY <1>1, <1>3, <1>5, <2>1, <2>2 DEF TypeOK, routerVars
<1> QED
  BY <1>2, <1>7, <1>8 DEF IInv

LEMMA ClientStepInv == ASSUME Parameters, IInv, ClientStep PROVE IInv'
<1> DEFINE Packet == [type : PacketTypes, n : DOMAIN attempts, token : 0..MaxInbound]
           Live == [n : DOMAIN attempts, state : States, table : {"pending", "authed"},
                    lim : {"none", "sent", "done"}]
<1>1. TypeOK /\ ToldInv
  BY DEF IInv
<1>2. /\ net \subseteq Packet /\ me \in Lives /\ restarts \in 0..MaxRestarts
      /\ session = NoLink \/ session \in Live
  BY <1>1 DEF TypeOK
<1>3. /\ NoLink.n = 0 /\ NoLink.state = "none" /\ NoLink.table = "none" /\ NoLink.lim = "none"
  BY DEF NoLink
<1>4. 0 \in 0..MaxInbound
  BY DEF Parameters
<1>5. \A type \in PacketTypes, n \in DOMAIN attempts, t \in 0..MaxInbound :
        net \cup {Sent(type, n, t)} \subseteq Packet
  BY <1>2 DEF Sent
<1> HIDE DEF Packet, Live
<1>6. ASSUME session # NoLink PROVE session \in Live /\ session.n \in DOMAIN attempts
  BY <1>2, <1>6 DEF Live
<1>7. CASE TryEstablishTo
  BY <1>7, TryEstablishToInv
<1>8. CASE LIMDropped
  <2>1. session # NoLink
    BY <1>3, <1>8 DEF LIMDropped
  <2>2. [session EXCEPT !.lim = "done"] \in Live
    BY <1>6, <2>1 DEF Live
  <2>3. /\ [session EXCEPT !.lim = "done"].n = session.n
        /\ [session EXCEPT !.lim = "done"].table = session.table
        /\ [session EXCEPT !.lim = "done"].lim = "done"
    BY <1>6, <2>1 DEF Live
  <2> QED
    BY <1>2, <1>8, <2>2, <2>3, SessionStepInv DEF LIMDropped, Live, Packet
<1>9. CASE CloseAuthed
  <2>1. session # NoLink
    BY <1>3, <1>9 DEF CloseAuthed
  <2>2. net' \subseteq Packet
    BY <1>4, <1>5, <1>6, <1>9, <2>1 DEF CloseAuthed, Send, PacketTypes
  <2> QED
    BY <1>9, <2>1, <2>2, AnnounceInv DEF CloseAuthed, Packet
<1>10. CASE PumpPending
  <2>1. session # NoLink
    BY <1>3, <1>10 DEF PumpPending
  <2> QED
    BY <1>2, <1>10, <2>1, AnnounceInv DEF PumpPending, Packet
<1>11. CASE RestartClient
  <2>1. net' \subseteq Packet
    <3>1. CASE UNCHANGED net
      BY <1>2, <3>1
    <3>2. CASE session.state # "none" /\ Send("client CLOS", session.n, 0)
      BY <1>3, <1>4, <1>5, <1>6, <3>2 DEF Send, PacketTypes
    <3> QED
      BY <1>11, <3>1, <3>2 DEF RestartClient
  <2>2. restarts' \in 0..MaxRestarts
    <3>1. restarts < MaxRestarts /\ restarts' = restarts + 1 /\ MaxRestarts \in Nat
      BY <1>11 DEF RestartClient, Parameters
    <3> QED
      BY <1>2, <3>1
  <2> QED
    BY <1>11, <2>1, <2>2, SessionStepInv DEF RestartClient, Packet
<1>12. ASSUME NEW p \in net, HandleGotIntroAck(p) PROVE IInv'
  <2>1. session # NoLink
    BY <1>3, <1>12 DEF HandleGotIntroAck
  <2>2. [session EXCEPT !.state = "LinkIntro"] \in Live
    BY <1>6, <2>1 DEF Live, States
  <2>3. /\ [session EXCEPT !.state = "LinkIntro"].n = session.n
        /\ [session EXCEPT !.state = "LinkIntro"].table = session.table
        /\ [session EXCEPT !.state = "LinkIntro"].lim = session.lim
    BY <1>6, <2>1 DEF Live
  <2>4. net' \subseteq Packet
    <3>1. p \in Packet
      BY <1>2
    <3>2. p.n \in DOMAIN attempts /\ p.token \in 0..MaxInbound
      BY <3>1 DEF Packet
    <3> QED
      BY <1>5, <1>12, <3>2 DEF HandleGotIntroAck, Send, PacketTypes
  <2> QED
    BY <1>2, <1>12, <2>2, <2>3, <2>4, SessionStepInv DEF HandleGotIntroAck, Live, Packet
<1>13. ASSUME NEW p \in net, GotOutboundLIM(p) PROVE IInv'
  <2>1. session # NoLink /\ p.n = session.n
    BY <1>3, <1>13 DEF GotOutboundLIM, TakesData
  <2>2. [session EXCEPT !.lim = "sent"] \in Live
    BY <1>6, <2>1 DEF Live
  <2>3. /\ [session EXCEPT !.lim = "sent"].n = session.n
        /\ [session EXCEPT !.lim = "sent"].table = session.table
        /\ session.lim # "done"
    BY <1>6, <1>13, <2>1 DEF GotOutboundLIM, Live
  <2>4. net' \subseteq Packet
    BY <1>4, <1>5, <1>6, <1>13, <2>1 DEF GotOutboundLIM, SendOurLIM, Send, PacketTypes
  <2> QED
    BY <1>2, <1>13, <2>2, <2>3, <2>4, SessionStepInv DEF GotOutboundLIM, Live, Packet
<1>14. ASSUME NEW p \in net, LIMDelivered(p) PROVE IInv'
  <2> DEFINE s == [session EXCEPT !.lim = "done", !.state = "Ready", !.table = "authed"]
  <2>1. session # NoLink /\ p.n = session.n /\ session.lim = "sent"
    BY <1>3, <1>14 DEF LIMDelivered, TakesData
  <2>2. session.table = "pending"
    BY <1>1, <1>6, <2>1 DEF ToldInv, Live
  <2>3. s \in [n : DOMAIN attempts, state : States, table : {"authed"}, lim : {"done"}] /\ s.n = session.n
    BY <1>6, <2>1 DEF Live, States
  <2>4. told' = [told EXCEPT ![session.n] = Append(@, "established")] /\ session' = s
        /\ UNCHANGED <<me, attempts, routerVars, net, restarts>>
    BY <1>14, <2>1 DEF LIMDelivered
  <2> HIDE DEF s
  <2> QED
    BY <1>2, <2>1, <2>2, <2>3, <2>4, AnnounceInv DEF Packet
<1>15. ASSUME NEW p \in net, HandleCLOS(p) PROVE IInv'
  <2>1. session # NoLink /\ p.n = session.n
    BY <1>3, <1>15 DEF HandleCLOS, TakesData
  <2>2. [session EXCEPT !.state = "Closed"] \in Live
    BY <1>6, <2>1 DEF Live, States
  <2>3. /\ [session EXCEPT !.state = "Closed"].n = session.n
        /\ [session EXCEPT !.state = "Closed"].table = session.table
        /\ [session EXCEPT !.state = "Closed"].lim = session.lim
    BY <1>6, <2>1 DEF Live
  <2>4. net' \subseteq Packet
    BY <1>4, <1>5, <1>6, <1>15, <2>1 DEF HandleCLOS, Send, PacketTypes
  <2> QED
    BY <1>2, <1>15, <2>2, <2>3, <2>4, SessionStepInv DEF HandleCLOS, Live, Packet
<1> QED
  BY <1>7, <1>8, <1>9, <1>10, <1>11, <1>12, <1>13, <1>14, <1>15 DEF ClientStep

-----------------------------------------------------------------------------
(* The router's steps.                                                      *)

LEMMA ToldKept == ASSUME IInv, UNCHANGED clientVars PROVE ToldInv'
BY DEF IInv, clientVars, ToldInv, ToldInOrder

LEMMA RouterTypes ==
  ASSUME TypeOK, UNCHANGED clientVars,
         inbound' \in Seq(Opened \cup {NoSession}), Len(inbound') <= MaxInbound,
         m_Pending' \in [Addrs -> 0..Len(inbound')], m_AuthedLinks' \in [Idents -> 0..Len(inbound')],
         m_AuthedAddrs' \in [Addrs -> Idents \cup {NoIdent}], restarts' \in 0..MaxRestarts,
         net' \subseteq [type : PacketTypes, n : DOMAIN attempts, token : 0..MaxInbound]
  PROVE  TypeOK'
<1>1. Opened' = Opened
  BY DEF Opened, clientVars
<1> QED
  BY <1>1 DEF TypeOK, clientVars

\* Unmapping the address of session t cuts off no ready session of the same identity: t is
\* the one ready session of its identity, or its address was not mapped.
LEMMA UnmapKeepsOthers ==
  ASSUME Parameters, IInv, attempts' = attempts, NEW t \in DOMAIN inbound,
         inbound[t].state # "none",
         \/ m_Pending[AddrOf(inbound[t].n)] = t
         \/ m_AuthedLinks[IdentOf(inbound[t].n)] = t,
         m_AuthedAddrs' = m_AuthedAddrs \/ UnmapAddr(AddrOf(inbound[t].n)),
         NEW u \in DOMAIN inbound, u # t, inbound[u].state = "Ready"
  PROVE  \/ m_AuthedAddrs'[AddrOf(inbound[u].n)] = IdentOf(inbound[u].n)
         \/ \E k \in DOMAIN attempts :
              AddrOf(k) = AddrOf(inbound[u].n) /\ IdentOf(k) # IdentOf(inbound[u].n)
<1>1. TypeOK /\ TablesAgree /\ AddrsAgree
  BY DEF IInv
<1>2. /\ inbound[t].n \in DOMAIN attempts /\ AddrOf(inbound[t].n) \in Addrs
      /\ IdentOf(inbound[t].n) \in Idents
  BY <1>1, Inbound
<1>3. AddrOf(inbound[u].n) \in Addrs /\ IdentOf(inbound[u].n) \in Idents
  BY <1>1, Inbound
<1>4. Mapped(inbound[u].n)
  BY <1>1 DEF AddrsAgree
<1>5. m_AuthedLinks[IdentOf(inbound[u].n)] = u
  BY <1>1 DEF TablesAgree
<1>6. CASE m_AuthedAddrs' = m_AuthedAddrs
  BY <1>4, <1>6 DEF Mapped
<1>7. CASE UnmapAddr(AddrOf(inbound[t].n)) /\ AddrOf(inbound[u].n) # AddrOf(inbound[t].n)
  <2>1. m_AuthedAddrs'[AddrOf(inbound[u].n)] = m_AuthedAddrs[AddrOf(inbound[u].n)]
    BY <1>1, <1>3, <1>7 DEF UnmapAddr, TypeOK
  <2> QED
    BY <1>4, <2>1 DEF Mapped
<1>8. CASE AddrOf(inbound[u].n) = AddrOf(inbound[t].n)
  <2>1. CASE m_AuthedLinks[IdentOf(inbound[t].n)] = t
    BY <1>2, <1>5, <1>8, <2>1
  <2>2. CASE m_Pending[AddrOf(inbound[t].n)] = t
    <3>1. t # 0
      BY <1>1, Tokens
    <3>2. m_AuthedAddrs[AddrOf(inbound[u].n)] = NoIdent
      BY <1>1, <1>2, <1>8, <2>2, <3>1 DEF AddrsAgree
    <3> QED
      BY <1>3, <1>4, <3>2 DEF Mapped, Parameters
  <2> QED
    BY <2>1, <2>2
<1> QED
  BY <1>6, <1>7, <1>8

\* A session in a table of its link layer is closed, or hears something that does not
\* concern the tables.
LEMMA SessionChanged ==
  ASSUME Parameters, IInv, attempts' = attempts, NEW t \in DOMAIN inbound, NEW s \in Opened,
         inbound[t].state # "none",
         inbound' = [inbound EXCEPT ![t] = s], UNCHANGED <<m_Pending, m_AuthedLinks>>,
         s.n = inbound[t].n, s.lim = inbound[t].lim,
         \/ s.state = inbound[t].state /\ UNCHANGED m_AuthedAddrs
         \/ s.state = "LinkIntro" /\ inbound[t].state = "Introduction" /\ UNCHANGED m_AuthedAddrs
         \/ s.state = "Closed" /\ UNCHANGED m_AuthedAddrs
         \/ /\ s.state = "Closed" /\ inbound[t].state # "Closed"
            /\ UnmapAddr(AddrOf(inbound[t].n))
  PROVE  TablesAgree' /\ AddrsAgree'
<1>1. TypeOK /\ TablesAgree /\ AddrsAgree
  BY DEF IInv
<1>2. /\ DOMAIN inbound' = DOMAIN inbound /\ inbound'[t] = s
      /\ \A u \in DOMAIN inbound : u # t => inbound'[u] = inbound[u]
  BY <1>1, Replaced
<1>3. /\ \A u \in DOMAIN inbound : inbound'[u].n = inbound[u].n
      /\ \A u \in DOMAIN inbound : inbound'[u].lim = inbound[u].lim
      /\ \A u \in DOMAIN inbound : \/ inbound'[u].state = inbound[u].state
                                   \/ inbound'[u].state = "LinkIntro" /\ inbound[u].state = "Introduction"
                                   \/ inbound'[u].state = "Closed" /\ inbound[u].state # "none"
  BY <1>2
<1>4. /\ \A a \in Addrs : m_Pending[a] # 0 => m_Pending[a] \in DOMAIN inbound
      /\ \A i \in Idents : m_AuthedLinks[i] # 0 => m_AuthedLinks[i] \in DOMAIN inbound
  BY <1>1, Tokens
<1>5. TablesAgree'
  <2>1. ASSUME NEW i \in Idents, m_AuthedLinks[i] # 0
        PROVE  LET x == inbound'[m_AuthedLinks[i]]
               IN x.state \in {"Ready", "Closed"} /\ x.lim = TRUE /\ IdentOf(x.n) = i
    BY <1>1, <1>3, <1>4, <2>1 DEF TablesAgree
  <2>2. ASSUME NEW a \in Addrs, m_Pending[a] # 0
        PROVE  LET x == inbound'[m_Pending[a]]
               IN x.state \in {"Introduction", "LinkIntro", "Closed"} /\ AddrOf(x.n) = a
    BY <1>1, <1>3, <1>4, <2>2 DEF TablesAgree
  <2>3. ASSUME NEW u \in DOMAIN inbound
        PROVE  /\ inbound'[u].state = "Ready" => m_AuthedLinks[IdentOf(inbound'[u].n)] = u
               /\ inbound'[u].state \in {"Introduction", "LinkIntro"} =>
                    m_Pending[AddrOf(inbound'[u].n)] = u
    BY <1>1, <1>3 DEF TablesAgree
  <2> QED
    BY <1>1, <1>2, <2>1, <2>2, <2>3 DEF TablesAgree, AddrOf, IdentOf
<1>6. AddrsAgree'
  <2>1. \A a \in Addrs : m_AuthedAddrs[a] = NoIdent => m_AuthedAddrs'[a] = NoIdent
    BY <1>1 DEF UnmapAddr, TypeOK
  <2>2. ASSUME NEW u \in DOMAIN inbound, inbound'[u].state = "Ready"
        PROVE  \/ m_AuthedAddrs'[AddrOf(inbound[u].n)] = IdentOf(inbound[u].n)
               \/ \E k \in DOMAIN attempts :
                    AddrOf(k) = AddrOf(inbound[u].n) /\ IdentOf(k) # IdentOf(inbound[u].n)
    <3>1. inbound[u].state = "Ready"
      BY <1>3, <2>2
    <3>2. CASE UNCHANGED m_AuthedAddrs
      BY <1>1, <3>1, <3>2 DEF AddrsAgree, Mapped
    <3>3. CASE s.state = "Closed" /\ inbound[t].state # "Closed" /\ UnmapAddr(AddrOf(inbound[t].n))
      <4>1. u # t
        BY <1>2, <2>2, <3>3
      <4>2. inbound[t].state \in States
        BY <1>1, Inbound DEF Opened
      <4>3. m_Pending[AddrOf(inbound[t].n)] = t \/ m_AuthedLinks[IdentOf(inbound[t].n)] = t
        BY <1>1, <3>3, <4>2 DEF TablesAgree, States
      <4> QED
        BY <3>1, <3>3, <4>1, <4>3, UnmapKeepsOthers
    <3> QED
      BY <3>2, <3>3
  <2> QED
    BY <1>1, <1>2, <1>3, <2>1, <2>2 DEF AddrsAgree, Mapped, AddrOf, IdentOf
<1> QED
  BY <1>5, <1>6

\* The session a packet goes to.
LEMMA Received ==
  ASSUME TypeOK, NEW p \in net, NEW t, Receives(t, p)
  PROVE  /\ p.n \in DOMAIN attempts /\ AddrOf(p.n) \in Addrs /\ IdentOf(p.n) \in Idents
         /\ SessionAt(AddrOf(p.n)) = t /\ t # 0 /\ t \in DOMAIN inbound /\ inbound[t].n = p.n
<1>1. p \in [type : PacketTypes, n : DOMAIN attempts, token : 0..MaxInbound]
  BY DEF TypeOK
<1>2. p.n \in DOMAIN attempts
  BY <1>1
<1>3. attempts[p.n] \in Lives
  BY <1>2 DEF TypeOK
<1>4. AddrOf(p.n) \in Addrs /\ IdentOf(p.n) \in Idents
  BY <1>3 DEF AddrOf, IdentOf, Lives
<1> QED
  BY <1>2, <1>4, Tokens DEF Receives

LEMMA HandleCreateSessionRequestInv ==
  ASSUME Parameters, IInv, NEW p \in net, HandleCreateSessionRequest(p)
  PROVE  IInv'
<1>0. PICK t : t = p.token
  OBVIOUS
<1>1. TypeOK
  BY DEF IInv
<1>2. /\ Receives(t, p) /\ inbound[t].state = "Introduction"
      /\ inbound' = [inbound EXCEPT ![t].state = "LinkIntro"]
      /\ net' = net \cup {Sent("router LIM", p.n, 0)}
      /\ UNCHANGED <<clientVars, m_Pending, m_AuthedLinks, m_AuthedAddrs, restarts>>
  BY <1>0 DEF HandleCreateSessionRequest, SendOurLIM, Send
<1>3. t \in DOMAIN inbound /\ p.n \in DOMAIN attempts
  BY <1>1, <1>2, Received
<1>4. inbound[t] \in Opened
  BY <1>1, <1>2, <1>3, Inbound
<1>5. PICK s \in Opened : s = [inbound[t] EXCEPT !.state = "LinkIntro"]
  BY <1>4 DEF Opened, States
<1>6. s.n = inbound[t].n /\ s.lim = inbound[t].lim /\ s.state = "LinkIntro"
  BY <1>4, <1>5 DEF Opened
<1>7. inbound' = [inbound EXCEPT ![t] = s]
  BY <1>2, <1>5
<1>8. TablesAgree' /\ AddrsAgree'
  BY <1>2, <1>3, <1>6, <1>7, SessionChanged DEF clientVars
<1>9. net' \subseteq [type : PacketTypes, n : DOMAIN attempts, token : 0..MaxInbound]
  BY <1>1, <1>2, <1>3, PlainPacketSent
<1>10. TypeOK'
  <2>1. inbound' \in Seq(Opened \cup {NoSession}) /\ Len(inbound') = Len(inbound)
    BY <1>1, <1>3, <1>7, Replaced
  <2> QED
    BY <1>1, <1>2, <1>9, <2>1, RouterTypes DEF TypeOK
<1> QED
  BY <1>2, <1>8, <1>10, ToldKept DEF IInv

LEMMA HandleSessionDataInv ==
  ASSUME Parameters, IInv, NEW p \in net, HandleSessionData(p)
  PROVE  IInv'
<1>0. PICK t : t = SessionAt(AddrOf(p.n))
  OBVIOUS
<1>1. TypeOK
  BY DEF IInv
<1>2. /\ Receives(t, p) /\ TakesData(inbound[t], p)
      /\ inbound' = [inbound EXCEPT ![t].clos = TRUE]
      /\ UNCHANGED <<clientVars, m_Pending, m_AuthedLinks, m_AuthedAddrs, net, restarts>>
  BY <1>0 DEF HandleSessionData
<1>3. t \in DOMAIN inbound
  BY <1>1, <1>2, Received
<1>4. inbound[t] \in Opened /\ inbound[t].state # "none"
  BY <1>1, <1>2, <1>3, Inbound DEF TakesData
<1>5. PICK s \in Opened : s = [inbound[t] EXCEPT !.clos = TRUE]
  BY <1>4 DEF Opened
<1>6. s.n = inbound[t].n /\ s.lim = inbound[t].lim /\ s.state = inbound[t].state
  BY <1>4, <1>5 DEF Opened
<1>7. inbound' = [inbound EXCEPT ![t] = s]
  BY <1>2, <1>5
<1>8. TablesAgree' /\ AddrsAgree'
  BY <1>2, <1>3, <1>4, <1>6, <1>7, SessionChanged DEF clientVars
<1>9. TypeOK'
  <2>1. inbound' \in Seq(Opened \cup {NoSession}) /\ Len(inbound') = Len(inbound)
    BY <1>1, <1>3, <1>7, Replaced
  <2> QED
    BY <1>1, <1>2, <2>1, RouterTypes DEF TypeOK
<1> QED
  BY <1>2, <1>8, <1>9, ToldKept DEF IInv

LEMMA RouterHandleCLOSInv ==
  ASSUME Parameters, IInv, NEW t \in DOMAIN inbound, RouterHandleCLOS(t)
  PROVE  IInv'
<1>1. TypeOK
  BY DEF IInv
<1>2. /\ inbound[t].clos
      /\ inbound' = [inbound EXCEPT ![t] = [@ EXCEPT !.state = "Closed", !.clos = FALSE]]
      /\ UNCHANGED <<clientVars, m_Pending, m_AuthedLinks, restarts>>
  BY DEF RouterHandleCLOS
<1>3. inbound[t] # NoSession
  BY <1>2 DEF NoSession
<1>4. /\ inbound[t] \in Opened /\ inbound[t].state # "none" /\ inbound[t].n \in DOMAIN attempts
      /\ AddrOf(inbound[t].n) \in Addrs
  BY <1>1, <1>3, Inbound
<1>5. PICK s \in Opened : s = [inbound[t] EXCEPT !.state = "Closed", !.clos = FALSE]
  BY <1>4 DEF Opened, States
<1>6. s.n = inbound[t].n /\ s.lim = inbound[t].lim /\ s.state = "Closed"
  BY <1>4, <1>5 DEF Opened
<1>7. inbound' = [inbound EXCEPT ![t] = s]
  BY <1>2, <1>5
<1>8. \/ inbound[t].state = "Closed" /\ UNCHANGED <<m_AuthedAddrs, net>>
      \/ /\ inbound[t].state # "Closed" /\ UnmapAddr(AddrOf(inbound[t].n))
         /\ net' = net \cup {Sent("router CLOS", inbound[t].n, 0)}
  BY DEF RouterHandleCLOS, Send
<1>9. TablesAgree' /\ AddrsAgree'
  BY <1>2, <1>4, <1>6, <1>7, <1>8, SessionChanged DEF clientVars
<1>10. /\ net' \subseteq [type : PacketTypes, n : DOMAIN attempts, token : 0..MaxInbound]
       /\ m_AuthedAddrs' \in [Addrs -> Idents \cup {NoIdent}]
  <2>1. net \cup {Sent("router CLOS", inbound[t].n, 0)} \subseteq
          [type : PacketTypes, n : DOMAIN attempts, token : 0..MaxInbound]
    BY <1>1, <1>4, PlainPacketSent
  <2>2. m_AuthedAddrs' \in [Addrs -> Idents \cup {NoIdent}]
    BY <1>1, <1>8 DEF TypeOK, UnmapAddr
  <2> QED
    BY <1>1, <1>8, <2>1, <2>2 DEF TypeOK
<1>11. TypeOK'
  <2>1. inbound' \in Seq(Opened \cup {NoSession}) /\ Len(inbound') = Len(inbound)
    BY <1>1, <1>7, Replaced
  <2> QED
    BY <1>1, <1>2, <1>10, <2>1, RouterTypes DEF TypeOK
<1> QED
  BY <1>2, <1>9, <1>11, ToldKept DEF IInv

\* A session is erased from its table and its address unmapped, or that has been done.
LEMMA SessionErased ==
  ASSUME Parameters, IInv, attempts' = attempts, NEW t \in DOMAIN inbound,
         inbound' = [inbound EXCEPT ![t] = NoSession],
         \/ \E i \in Idents : /\ m_AuthedLinks[i] = t /\ UNCHANGED m_Pending
                              /\ m_AuthedLinks' = [m_AuthedLinks EXCEPT ![i] = 0]
         \/ \E a \in Addrs : /\ m_Pending[a] = t /\ UNCHANGED m_AuthedLinks
                             /\ m_Pending' = [m_Pending EXCEPT ![a] = 0],
         UNCHANGED m_AuthedAddrs \/ UnmapAddr(AddrOf(inbound[t].n))
  PROVE  TablesAgree' /\ AddrsAgree'
<1>1. TypeOK /\ TablesAgree /\ AddrsAgree
  BY DEF IInv
<1>2. NoSession \in Opened \cup {NoSession} /\ NoSession.state = "none"
  BY DEF NoSession
<1>3. /\ DOMAIN inbound' = DOMAIN inbound /\ inbound'[t] = NoSession
      /\ \A u \in DOMAIN inbound : u # t => inbound'[u] = inbound[u]
  BY <1>1, <1>2, Replaced
<1>4. /\ \A a \in Addrs : m_Pending[a] # 0 => m_Pending[a] \in DOMAIN inbound
      /\ \A i \in Idents : m_AuthedLinks[i] # 0 => m_AuthedLinks[i] \in DOMAIN inbound
      /\ t # 0
  BY <1>1, Tokens
<1>5. /\ \A a \in Addrs : m_Pending'[a] # 0 => m_Pending'[a] = m_Pending[a] /\ m_Pending[a] # t
      /\ \A i \in Idents : m_AuthedLinks'[i] # 0 => m_AuthedLinks'[i] = m_AuthedLinks[i] /\ m_AuthedLinks[i] # t
  <2>1. ASSUME NEW i \in Idents, m_AuthedLinks[i] = t, UNCHANGED m_Pending,
               m_AuthedLinks' = [m_AuthedLinks EXCEPT ![i] = 0]
        PROVE  <1>5!1 /\ <1>5!2
    BY <1>1, <1>4, <2>1 DEF TablesAgree, TypeOK
  <2>2. ASSUME NEW a \in Addrs, m_Pending[a] = t, UNCHANGED m_AuthedLinks,
               m_Pending' = [m_Pending EXCEPT ![a] = 0]
        PROVE  <1>5!1 /\ <1>5!2
    BY <1>1, <1>4, <2>2 DEF TablesAgree, TypeOK
  <2> QED
    BY <2>1, <2>2
<1>6. ASSUME NEW u \in DOMAIN inbound, u # t
      PROVE  /\ \A a \in Addrs : m_Pending[a] = u => m_Pending'[a] = u
             /\ \A i \in Idents : m_AuthedLinks[i] = u => m_AuthedLinks'[i] = u
  BY <1>1, <1>6 DEF TypeOK
<1>7. TablesAgree'
  <2>1. ASSUME NEW i \in Idents, m_AuthedLinks'[i] # 0
        PROVE  LET x == inbound'[m_AuthedLinks'[i]]
               IN x.state \in {"Ready", "Closed"} /\ x.lim = TRUE /\ IdentOf(x.n) = i
    BY <1>1, <1>3, <1>4, <1>5, <2>1 DEF TablesAgree
  <2>2. ASSUME NEW a \in Addrs, m_Pending'[a] # 0
        PROVE  LET x == inbound'[m_Pending'[a]]
               IN x.state \in {"Introduction", "LinkIntro", "Closed"} /\ AddrOf(x.n) = a
    BY <1>1, <1>3, <1>4, <1>5, <2>2 DEF TablesAgree
  <2>3. ASSUME NEW u \in DOMAIN inbound
        PROVE  /\ inbound'[u].state = "Ready" => m_AuthedLinks'[IdentOf(inbound'[u].n)] = u
               /\ inbound'[u].state \in {"Introduction", "LinkIntro"} =>
                    m_Pending'[AddrOf(inbound'[u].n)] = u
    <3>1. CASE u = t
      BY <1>2, <1>3, <3>1
    <3>2. CASE u # t
      BY <1>1, <1>3, <1>6, <3>2, Inbound DEF TablesAgree
    <3> QED
      BY <3>1, <3>2
  <2>4. \A a \in Addrs, i \in Idents : m_Pending'[a] # 0 => m_Pending'[a] # m_AuthedLinks'[i]
    BY <1>1, <1>5 DEF TablesAgree
  <2> QED
    BY <1>3, <2>1, <2>2, <2>3, <2>4 DEF TablesAgree, AddrOf, IdentOf
<1>8. AddrsAgree'
  <2>1. \A a \in Addrs : m_AuthedAddrs[a] = NoIdent => m_AuthedAddrs'[a] = NoIdent
    BY <1>1 DEF UnmapAddr, TypeOK
  <2>2. ASSUME NEW u \in DOMAIN inbound, inbound'[u].state = "Ready"
        PROVE  /\ inbound'[u] = inbound[u]
               /\ \/ m_AuthedAddrs'[AddrOf(inbound[u].n)] = IdentOf(inbound[u].n)
                  \/ \E k \in DOMAIN attempts :
                       AddrOf(k) = AddrOf(inbound[u].n) /\ IdentOf(k) # IdentOf(inbound[u].n)
    <3>1. u # t /\ inbound[u].state = "Ready" /\ inbound'[u] = inbound[u]
      BY <1>2, <1>3, <2>2
    <3>2. /\ inbound[t].state # "none"
          /\ \/ m_Pending[AddrOf(inbound[t].n)] = t
             \/ m_AuthedLinks[IdentOf(inbound[t].n)] = t
      BY <1>1, <1>4 DEF TablesAgree
    <3> QED
      BY <3>1, <3>2, UnmapKeepsOthers
  <2> QED
    BY <1>1, <1>3, <1>5, <2>1, <2>2 DEF AddrsAgree, Mapped, AddrOf, IdentOf
<1> QED
  BY <1>7, <1>8

LEMMA EraseInv ==
  ASSUME Parameters, IInv,
         \/ \E i \in Idents : CloseSessionTo(i) \/ PumpRouterAuthed(i)
         \/ \E a \in Addrs : PumpRouterPending(a)
  PROVE  IInv'
<1>1. TypeOK /\ TablesAgree
  BY DEF IInv
<1>2. ASSUME NEW t \in DOMAIN inbound, UNCHANGED <<clientVars, restarts>>,
             inbound[t].n \in DOMAIN attempts,
             inbound' = [inbound EXCEPT ![t] = NoSession],
             \/ \E i \in Idents : /\ m_AuthedLinks[i] = t /\ UNCHANGED m_Pending
                                  /\ m_AuthedLinks' = [m_AuthedLinks EXCEPT ![i] = 0]
             \/ \E a \in Addrs : /\ m_Pending[a] = t /\ UNCHANGED m_AuthedLinks
                                 /\ m_Pending' = [m_Pending EXCEPT ![a] = 0],
             UNCHANGED m_AuthedAddrs \/ UnmapAddr(AddrOf(inbound[t].n)),
             UNCHANGED net \/ net' = net \cup {Sent("router CLOS", inbound[t].n, 0)}
      PROVE  IInv'
  <2>1. TablesAgree' /\ AddrsAgree'
    BY <1>2, SessionErased DEF clientVars
  <2>2. net' \subseteq [type : PacketTypes, n : DOMAIN attempts, token : 0..MaxInbound]
    <3>1. net \cup {Sent("router CLOS", inbound[t].n, 0)} \subseteq
            [type : PacketTypes, n : DOMAIN attempts, token : 0..MaxInbound]
      BY <1>1, <1>2, PlainPacketSent
    <3> QED
      BY <1>1, <1>2, <3>1 DEF TypeOK
  <2>3. inbound' \in Seq(Opened \cup {NoSession}) /\ Len(inbound') = Len(inbound)
    BY <1>1, <1>2, Replaced
  <2>4. /\ m_AuthedAddrs' \in [Addrs -> Idents \cup {NoIdent}]
        /\ m_AuthedLinks' \in [Idents -> 0..Len(inbound)]
        /\ m_Pending' \in [Addrs -> 0..Len(inbound)]
    <3>1. 0 \in 0..Len(inbound)
      BY <1>1, Tokens
    <3>2. m_AuthedAddrs' \in [Addrs -> Idents \cup {NoIdent}]
      BY <1>1, <1>2 DEF TypeOK, UnmapAddr
    <3>3. m_AuthedLinks \in [Idents -> 0..Len(inbound)] /\ m_Pending \in [Addrs -> 0..Len(inbound)]
      BY <1>1 DEF TypeOK
    <3>4. m_AuthedLinks' \in [Idents -> 0..Len(inbound)]
      BY <1>2, <3>1, <3>3
    <3>5. m_Pending' \in [Addrs -> 0..Len(inbound)]
      BY <1>2, <3>1, <3>3
    <3> QED
      BY <3>2, <3>4, <3>5
  <2>5. TypeOK'
    BY <1>1, <1>2, <2>2, <2>3, <2>4, RouterTypes DEF TypeOK
  <2> QED
    BY <1>2, <2>1, <2>5, ToldKept DEF IInv
<1>3. ASSUME NEW i \in Idents, CloseSessionTo(i) \/ PumpRouterAuthed(i)
      PROVE  IInv'
  <2>0. PICK t : t = m_AuthedLinks[i]
    OBVIOUS
  <2>1. t \in DOMAIN inbound /\ t # 0
    BY <1>1, <1>3, <2>0, Tokens DEF CloseSessionTo, PumpRouterAuthed
  <2>2. inbound[t].state # "none"
    BY <1>1, <2>0, <2>1 DEF TablesAgree
  <2>3. inbound[t].n \in DOMAIN attempts
    BY <1>1, <2>1, <2>2, Inbound
  <2> QED
    BY <1>2, <1>3, <2>0, <2>1, <2>3 DEF CloseSessionTo, PumpRouterAuthed, Send
<1>4. ASSUME NEW a \in Addrs, PumpRouterPending(a)
      PROVE  IInv'
  <2>0. PICK t : t = m_Pending[a]
    OBVIOUS
  <2>1. t \in DOMAIN inbound /\ t # 0
    BY <1>1, <1>4, <2>0, Tokens DEF PumpRouterPending
  <2>2. inbound[t].state # "none" /\ AddrOf(inbound[t].n) = a
    BY <1>1, <2>0, <2>1 DEF TablesAgree
  <2>3. inbound[t].n \in DOMAIN attempts
    BY <1>1, <2>1, <2>2, Inbound
  <2> QED
    BY <1>2, <1>4, <2>0, <2>1, <2>2, <2>3 DEF PumpRouterPending
<1> QED
  BY <1>3, <1>4

LEMMA RestartRouterInv == ASSUME Parameters, IInv, RestartRouter PROVE IInv'
<1>1. TypeOK
  BY DEF IInv
<1>2. /\ restarts < MaxRestarts /\ restarts' = restarts + 1
      /\ inbound' = [t \in DOMAIN inbound |-> NoSession]
      /\ m_Pending' = [a \in Addrs |-> 0] /\ m_AuthedLinks' = [i \in Idents |-> 0]
      /\ m_AuthedAddrs' = [a \in Addrs |-> NoIdent] /\ UNCHANGED clientVars
  BY DEF RestartRouter
<1>3. DOMAIN inbound = 1..Len(inbound) /\ Len(inbound) \in Nat
  BY <1>1, Tokens
<1>4. inbound' \in Seq(Opened \cup {NoSession}) /\ Len(inbound') = Len(inbound) /\ DOMAIN inbound' = DOMAIN inbound
      /\ \A t \in DOMAIN inbound' : inbound'[t].state = "none"
  <2>1. NoSession \in Opened \cup {NoSession} /\ NoSession.state = "none"
    BY DEF NoSession
  <2>2. inbound' = [t \in 1..Len(inbound) |-> NoSession]
    BY <1>2, <1>3
  <2> QED
    BY <1>3, <2>1, <2>2
<1>5. net' \subseteq [type : PacketTypes, n : DOMAIN attempts, token : 0..MaxInbound]
  <2>1. ASSUME NEW t \in DOMAIN inbound, inbound[t].state \notin {"none", "Closed"}
        PROVE  Sent("router CLOS", inbound[t].n, 0) \in
                 [type : PacketTypes, n : DOMAIN attempts, token : 0..MaxInbound]
    <3>1. inbound[t].n \in DOMAIN attempts
      BY <1>1, <2>1, Inbound
    <3>2. net \cup {Sent("router CLOS", inbound[t].n, 0)} \subseteq
            [type : PacketTypes, n : DOMAIN attempts, token : 0..MaxInbound]
      BY <1>1, <3>1, PlainPacketSent
    <3> QED
      BY <3>2
  <2>2. net \subseteq [type : PacketTypes, n : DOMAIN attempts, token : 0..MaxInbound]
    BY <1>1 DEF TypeOK
  <2>3. \/ UNCHANGED net
        \/ net' = net \cup {Sent("router CLOS", inbound[t].n, 0) :
                              t \in {u \in DOMAIN inbound : inbound[u].state \notin {"none", "Closed"}}}
    BY DEF RestartRouter
  <2> SUFFICES ASSUME NEW p \in net'
               PROVE  p \in [type : PacketTypes, n : DOMAIN attempts, token : 0..MaxInbound]
    OBVIOUS
  <2>4. CASE p \in net
    BY <2>2, <2>4
  <2>5. CASE p \notin net
    <3>1. PICK t \in DOMAIN inbound : /\ inbound[t].state \notin {"none", "Closed"}
                                     /\ p = Sent("router CLOS", inbound[t].n, 0)
      BY <2>3, <2>5
    <3> QED
      BY <2>1, <3>1
  <2> QED
    BY <2>4, <2>5
<1>6. TypeOK'
  <2>1. restarts' \in 0..MaxRestarts
    <3>1. restarts \in 0..MaxRestarts /\ MaxRestarts \in Nat
      BY <1>1 DEF TypeOK, Parameters
    <3> QED
      BY <1>2, <3>1
  <2>2. /\ m_Pending' \in [Addrs -> 0..Len(inbound')] /\ m_AuthedLinks' \in [Idents -> 0..Len(inbound')]
        /\ m_AuthedAddrs' \in [Addrs -> Idents \cup {NoIdent}]
    BY <1>2, <1>3, <1>4
  <2>3. Len(inbound') <= MaxInbound
    BY <1>1, <1>4 DEF TypeOK
  <2> QED
    BY <1>1, <1>2, <1>4, <1>5, <2>1, <2>2, <2>3, RouterTypes
<1>7. TablesAgree' /\ AddrsAgree'
  BY <1>2, <1>4 DEF TablesAgree, AddrsAgree
<1> QED
  BY <1>2, <1>6, <1>7, ToldKept DEF IInv

LEMMA HandleGotIntroInv == ASSUME Parameters, IInv, NEW p \in net, HandleGotIntro(p) PROVE IInv'
<1>0. PICK t, a, s : t = Len(inbound) + 1 /\ a = AddrOf(p.n)
                     /\ s = [NoSession EXCEPT !.n = p.n, !.state = "Introduction"]
  OBVIOUS
<1>1. TypeOK /\ TablesAgree /\ AddrsAgree
  BY DEF IInv
<1>2. /\ t <= MaxInbound /\ m_AuthedAddrs[a] = NoIdent /\ m_Pending[a] = 0
      /\ inbound' = Append(inbound, s) /\ m_Pending' = [m_Pending EXCEPT ![a] = t]
      /\ net' = net \cup {Sent("ack", p.n, t)}
      /\ UNCHANGED <<clientVars, m_AuthedLinks, m_AuthedAddrs, restarts>>
  BY <1>0 DEF HandleGotIntro, Send
<1>3. p.n \in DOMAIN attempts /\ a \in Addrs
  <2>1. p \in [type : PacketTypes, n : DOMAIN attempts, token : 0..MaxInbound]
    BY <1>1 DEF TypeOK
  <2>2. p.n \in DOMAIN attempts
    BY <2>1
  <2>3. attempts[p.n] \in Lives
    BY <1>1, <2>2 DEF TypeOK
  <2> QED
    BY <1>0, <2>2, <2>3 DEF AddrOf, Lives
<1>4. s.n = p.n /\ s.state = "Introduction" /\ s \in Opened
  BY <1>0, <1>3 DEF NoSession, Opened, States
<1>5. /\ inbound \in Seq(Opened \cup {NoSession}) /\ Len(inbound) \in Nat
      /\ DOMAIN inbound = 1..Len(inbound)
  BY <1>1, Tokens DEF TypeOK
<1>6. /\ inbound' \in Seq(Opened \cup {NoSession}) /\ Len(inbound') = t
      /\ DOMAIN inbound' = 1..t /\ inbound'[t] = s
      /\ \A u \in DOMAIN inbound : inbound'[u] = inbound[u]
  BY <1>0, <1>2, <1>4, <1>5
<1>7. t \notin DOMAIN inbound /\ t # 0 /\ t \in Nat /\ \A u \in 1..t : u = t \/ u \in DOMAIN inbound
  BY <1>0, <1>5
<1>8. /\ m_Pending \in [Addrs -> 0..Len(inbound)] /\ m_AuthedLinks \in [Idents -> 0..Len(inbound)]
      /\ \A b \in Addrs : m_Pending'[b] = IF b = a THEN t ELSE m_Pending[b]
  BY <1>1, <1>2 DEF TypeOK
<1>9. /\ \A b \in Addrs : m_Pending[b] # 0 => m_Pending[b] \in DOMAIN inbound
      /\ \A i \in Idents : m_AuthedLinks[i] # 0 => m_AuthedLinks[i] \in DOMAIN inbound
  BY <1>1, Tokens
<1>10. TypeOK'
  <2>1. net' \subseteq [type : PacketTypes, n : DOMAIN attempts, token : 0..MaxInbound]
    <3>1. t \in 0..MaxInbound
      BY <1>2, <1>7 DEF Parameters
    <3>2. "ack" \in PacketTypes
      BY DEF PacketTypes, FromRouter
    <3> QED
      BY <1>1, <1>2, <1>3, <3>1, <3>2, PacketSent
  <2>2. m_Pending' \in [Addrs -> 0..t] /\ m_AuthedLinks' \in [Idents -> 0..t]
    <3>1. 0..Len(inbound) \subseteq 0..t /\ t \in 0..t
      BY <1>0, <1>5
    <3> QED
      BY <1>2, <1>8, <3>1
  <2> QED
    BY <1>1, <1>2, <1>6, <2>1, <2>2, RouterTypes DEF TypeOK
<1>11. TablesAgree'
  <2>1. ASSUME NEW i \in Idents, m_AuthedLinks[i] # 0
        PROVE  LET x == inbound'[m_AuthedLinks[i]]
               IN x.state \in {"Ready", "Closed"} /\ x.lim = TRUE /\ IdentOf(x.n) = i
    BY <1>1, <1>6, <1>9, <2>1 DEF TablesAgree
  <2>2. ASSUME NEW b \in Addrs, m_Pending'[b] # 0
        PROVE  LET x == inbound'[m_Pending'[b]]
               IN x.state \in {"Introduction", "LinkIntro", "Closed"} /\ AddrOf(x.n) = b
    <3>1. CASE b = a
      BY <1>0, <1>4, <1>6, <1>8, <3>1
    <3>2. CASE b # a
      BY <1>1, <1>6, <1>8, <1>9, <2>2, <3>2 DEF TablesAgree
    <3> QED
      BY <3>1, <3>2
  <2>3. ASSUME NEW u \in DOMAIN inbound'
        PROVE  /\ inbound'[u].state = "Ready" => m_AuthedLinks[IdentOf(inbound'[u].n)] = u
               /\ inbound'[u].state \in {"Introduction", "LinkIntro"} =>
                    m_Pending'[AddrOf(inbound'[u].n)] = u
    <3>1. CASE u = t
      BY <1>0, <1>3, <1>4, <1>6, <1>8, <3>1
    <3>2. CASE u \in DOMAIN inbound
      <4>1. inbound[u].state # "none" => AddrOf(inbound[u].n) \in Addrs
        BY <1>1, <3>2, Inbound
      <4>2. inbound[u].state \in {"Introduction", "LinkIntro"} =>
              m_Pending[AddrOf(inbound[u].n)] = u /\ u # 0
        BY <1>1, <1>5, <3>2 DEF TablesAgree
      <4> QED
        BY <1>1, <1>2, <1>6, <1>8, <3>2, <4>1, <4>2 DEF TablesAgree
    <3> QED
      BY <1>6, <1>7, <3>1, <3>2
  <2>4. \A b \in Addrs, i \in Idents : m_Pending'[b] # 0 => m_Pending'[b] # m_AuthedLinks[i]
    BY <1>1, <1>7, <1>8, <1>9 DEF TablesAgree
  <2>5. m_AuthedLinks' = m_AuthedLinks /\ attempts' = attempts
    BY <1>2 DEF clientVars
  <2> QED
    BY <2>1, <2>2, <2>3, <2>4, <2>5 DEF TablesAgree, AddrOf, IdentOf
<1>12. AddrsAgree'
  <2>1. \A b \in Addrs : m_Pending'[b] # 0 => m_AuthedAddrs[b] = NoIdent
    BY <1>1, <1>2, <1>8 DEF AddrsAgree
  <2>2. \A u \in DOMAIN inbound' : inbound'[u].state = "Ready" => Mapped(inbound'[u].n)
    BY <1>1, <1>4, <1>6, <1>7 DEF AddrsAgree
  <2> QED
    BY <1>2, <2>1, <2>2 DEF AddrsAgree, Mapped, AddrOf, IdentOf, clientVars
<1> QED
  BY <1>2, <1>10, <1>11, <1>12, ToldKept DEF IInv

\* A session whose LIM has not come is in m_Pending under its address.
LEMMA WithoutLIM ==
  ASSUME Parameters, IInv, NEW p \in net, NEW t, Receives(t, p), ~inbound[t].lim
  PROVE  m_Pending[AddrOf(p.n)] = t /\ m_AuthedAddrs[AddrOf(p.n)] = NoIdent
<1>1. TypeOK /\ TablesAgree
  BY DEF IInv
<1>2. AddrOf(p.n) \in Addrs /\ SessionAt(AddrOf(p.n)) = t /\ t # 0
  BY <1>1, Received
<1>3. ASSUME m_AuthedAddrs[AddrOf(p.n)] # NoIdent PROVE FALSE
  <2>1. m_AuthedAddrs[AddrOf(p.n)] \in Idents /\ m_AuthedLinks[m_AuthedAddrs[AddrOf(p.n)]] = t
    BY <1>1, <1>2, <1>3 DEF TypeOK, SessionAt
  <2>2. inbound[t].lim = TRUE
    BY <1>1, <1>2, <2>1 DEF TablesAgree
  <2> QED
    BY <2>2
<1> QED
  BY <1>2, <1>3 DEF SessionAt

LEMMA GotInboundLIMInv == ASSUME Parameters, IInv, NEW p \in net, GotInboundLIM(p) PROVE IInv'
<1>0. PICK t, a, i : t = SessionAt(AddrOf(p.n)) /\ a = AddrOf(p.n) /\ i = IdentOf(p.n)
  OBVIOUS
<1>1. TypeOK /\ TablesAgree /\ AddrsAgree
  BY DEF IInv
<1>2. /\ Receives(t, p) /\ TakesData(inbound[t], p) /\ ~inbound[t].lim
      /\ MapAddr(t, a, i) /\ UNCHANGED <<clientVars, restarts>>
  BY <1>0 DEF GotInboundLIM
<1>3. /\ p.n \in DOMAIN attempts /\ a \in Addrs /\ i \in Idents
      /\ t # 0 /\ t \in DOMAIN inbound /\ inbound[t].n = p.n
  BY <1>0, <1>1, <1>2, Received
<1>4. m_Pending[a] = t /\ m_AuthedAddrs[a] = NoIdent
  BY <1>0, <1>2, WithoutLIM
<1>5. inbound[t] \in Opened /\ inbound[t].state # "none"
  BY <1>1, <1>2, <1>3, Inbound DEF TakesData
<1>6. /\ net \cup {Sent("MACK", inbound[t].n, 0)} \subseteq
           [type : PacketTypes, n : DOMAIN attempts, token : 0..MaxInbound]
      /\ net \cup {Sent("router CLOS", inbound[t].n, 0)} \subseteq
           [type : PacketTypes, n : DOMAIN attempts, token : 0..MaxInbound]
  BY <1>1, <1>3, PlainPacketSent
<1>7. \A j \in Idents : m_AuthedLinks[j] # t
  BY <1>1, <1>3, <1>4 DEF TablesAgree
<1>8. /\ \A b \in Addrs : m_Pending[b] # 0 => m_Pending[b] \in DOMAIN inbound
      /\ \A j \in Idents : m_AuthedLinks[j] # 0 => m_AuthedLinks[j] \in DOMAIN inbound
  BY <1>1, Tokens
<1>9. \A b \in Addrs : b # a => m_Pending[b] # t
  BY <1>0, <1>1, <1>3 DEF TablesAgree
<1>10. attempts' = attempts
  BY <1>2 DEF clientVars
<1>11. CASE m_AuthedLinks[i] # 0
  <2>1. PICK s \in Opened : s = [inbound[t] EXCEPT !.state = "Closed", !.lim = TRUE]
    BY <1>5 DEF Opened, States
  <2>2. s.n = inbound[t].n /\ s.state = "Closed"
    BY <1>5, <2>1 DEF Opened
  <2>3. /\ inbound' = [inbound EXCEPT ![t] = s]
        /\ m_AuthedAddrs' = [m_AuthedAddrs EXCEPT ![a] = NoIdent]
        /\ net' = net \cup {Sent("router CLOS", inbound[t].n, 0), Sent("MACK", inbound[t].n, 0)}
        /\ UNCHANGED <<m_AuthedLinks, m_Pending>>
    BY <1>2, <1>11, <2>1 DEF MapAddr
  <2>4. /\ inbound' \in Seq(Opened \cup {NoSession}) /\ Len(inbound') = Len(inbound)
        /\ DOMAIN inbound' = DOMAIN inbound /\ inbound'[t] = s
        /\ \A u \in DOMAIN inbound : u # t => inbound'[u] = inbound[u]
    BY <1>1, <1>3, <2>3, Replaced
  <2>5. m_AuthedAddrs' = m_AuthedAddrs
    BY <1>1, <1>4, <2>3 DEF TypeOK
  <2>6. TypeOK'
    <3>1. net' \subseteq [type : PacketTypes, n : DOMAIN attempts, token : 0..MaxInbound]
      BY <1>6, <2>3
    <3> QED
      BY <1>1, <1>2, <2>3, <2>4, <2>5, <3>1, RouterTypes DEF TypeOK
  <2>7. TablesAgree'
    <3>1. ASSUME NEW j \in Idents, m_AuthedLinks[j] # 0
          PROVE  LET x == inbound'[m_AuthedLinks[j]]
                 IN x.state \in {"Ready", "Closed"} /\ x.lim = TRUE /\ IdentOf(x.n) = j
      BY <1>1, <1>7, <1>8, <2>4, <3>1 DEF TablesAgree
    <3>2. ASSUME NEW b \in Addrs, m_Pending[b] # 0
          PROVE  LET x == inbound'[m_Pending[b]]
                 IN x.state \in {"Introduction", "LinkIntro", "Closed"} /\ AddrOf(x.n) = b
      BY <1>1, <1>8, <2>2, <2>4, <3>2 DEF TablesAgree
    <3>3. ASSUME NEW u \in DOMAIN inbound
          PROVE  /\ inbound'[u].state = "Ready" => m_AuthedLinks[IdentOf(inbound'[u].n)] = u
                 /\ inbound'[u].state \in {"Introduction", "LinkIntro"} =>
                      m_Pending[AddrOf(inbound'[u].n)] = u
      BY <1>1, <2>2, <2>4 DEF TablesAgree
    <3>4. \A b \in Addrs, j \in Idents : m_Pending[b] # 0 => m_Pending[b] # m_AuthedLinks[j]
      BY <1>1 DEF TablesAgree
    <3>5. m_AuthedLinks' = m_AuthedLinks /\ m_Pending' = m_Pending /\ DOMAIN inbound' = DOMAIN inbound
      BY <2>3, <2>4
    <3> QED
      BY <1>10, <3>1, <3>2, <3>3, <3>4, <3>5 DEF TablesAgree, AddrOf, IdentOf
  <2>8. AddrsAgree'
    <3>1. \A u \in DOMAIN inbound : inbound'[u].state = "Ready" =>
            inbound'[u] = inbound[u] /\ Mapped(inbound[u].n)
      BY <1>1, <2>2, <2>4 DEF AddrsAgree
    <3>2. \A b \in Addrs : m_Pending[b] # 0 => m_AuthedAddrs[b] = NoIdent
      BY <1>1 DEF AddrsAgree
    <3>3. m_Pending' = m_Pending /\ DOMAIN inbound' = DOMAIN inbound
      BY <2>3, <2>4
    <3> QED
      BY <1>10, <2>5, <3>1, <3>2, <3>3 DEF AddrsAgree, Mapped, AddrOf, IdentOf
  <2> QED
    BY <1>2, <2>6, <2>7, <2>8, ToldKept DEF IInv
<1>12. CASE m_AuthedLinks[i] = 0
  <2>1. PICK s \in Opened : s = [inbound[t] EXCEPT !.state = "Ready", !.lim = TRUE]
    BY <1>5 DEF Opened, States
  <2>2. s.n = p.n /\ s.state = "Ready" /\ s.lim = TRUE
    BY <1>3, <1>5, <2>1 DEF Opened
  <2>3. /\ inbound' = [inbound EXCEPT ![t] = s]
        /\ m_AuthedAddrs' = [m_AuthedAddrs EXCEPT ![a] = i]
        /\ m_AuthedLinks' = [m_AuthedLinks EXCEPT ![i] = t]
        /\ m_Pending' = [m_Pending EXCEPT ![a] = 0]
        /\ net' = net \cup {Sent("MACK", inbound[t].n, 0)}
    BY <1>2, <1>12, <2>1 DEF MapAddr, Send
  <2>4. /\ inbound' \in Seq(Opened \cup {NoSession}) /\ Len(inbound') = Len(inbound)
        /\ DOMAIN inbound' = DOMAIN inbound /\ inbound'[t] = s
        /\ \A u \in DOMAIN inbound : u # t => inbound'[u] = inbound[u]
    BY <1>1, <1>3, <2>3, Replaced
  <2>5. /\ \A b \in Addrs : m_AuthedAddrs'[b] = IF b = a THEN i ELSE m_AuthedAddrs[b]
        /\ m_AuthedAddrs' \in [Addrs -> Idents \cup {NoIdent}]
    BY <1>1, <1>3, <2>3 DEF TypeOK
  <2>6. /\ \A b \in Addrs : m_Pending'[b] = IF b = a THEN 0 ELSE m_Pending[b]
        /\ m_Pending' \in [Addrs -> 0..Len(inbound)]
    <3>1. m_Pending \in [Addrs -> 0..Len(inbound)] /\ 0 \in 0..Len(inbound)
      BY <1>1, Tokens DEF TypeOK
    <3> QED
      BY <2>3, <3>1
  <2>7. /\ \A j \in Idents : m_AuthedLinks'[j] = IF j = i THEN t ELSE m_AuthedLinks[j]
        /\ m_AuthedLinks' \in [Idents -> 0..Len(inbound)]
    <3>1. m_AuthedLinks \in [Idents -> 0..Len(inbound)] /\ t \in 0..Len(inbound)
      BY <1>1, <1>3, Tokens DEF TypeOK
    <3> QED
      BY <2>3, <3>1
  <2>8. TypeOK'
    <3>1. net' \subseteq [type : PacketTypes, n : DOMAIN attempts, token : 0..MaxInbound]
      BY <1>6, <2>3
    <3> QED
      BY <1>1, <1>2, <2>4, <2>5, <2>6, <2>7, <3>1, RouterTypes DEF TypeOK
  <2>9. ASSUME NEW u \in DOMAIN inbound, u # t, inbound[u].state = "Ready"
        PROVE  /\ IdentOf(inbound[u].n) \in Idents /\ IdentOf(inbound[u].n) # i
               /\ AddrOf(inbound[u].n) \in Addrs /\ m_AuthedLinks[IdentOf(inbound[u].n)] = u
    <3>1. m_AuthedLinks[IdentOf(inbound[u].n)] = u /\ u # 0
      BY <1>1, <2>9, Tokens DEF TablesAgree
    <3> QED
      BY <1>1, <1>12, <2>9, <3>1, Inbound
  <2>10. TablesAgree'
    <3>1. ASSUME NEW j \in Idents, m_AuthedLinks'[j] # 0
          PROVE  LET x == inbound'[m_AuthedLinks'[j]]
                 IN x.state \in {"Ready", "Closed"} /\ x.lim = TRUE /\ IdentOf(x.n) = j
      <4>1. CASE j = i
        BY <1>0, <2>2, <2>4, <2>7, <4>1
      <4>2. CASE j # i
        BY <1>1, <1>7, <1>8, <2>4, <2>7, <3>1, <4>2 DEF TablesAgree
      <4> QED
        BY <4>1, <4>2
    <3>2. ASSUME NEW b \in Addrs, m_Pending'[b] # 0
          PROVE  LET x == inbound'[m_Pending'[b]]
                 IN x.state \in {"Introduction", "LinkIntro", "Closed"} /\ AddrOf(x.n) = b
      BY <1>1, <1>8, <1>9, <2>4, <2>6, <3>2 DEF TablesAgree
    <3>3. ASSUME NEW u \in DOMAIN inbound
          PROVE  /\ inbound'[u].state = "Ready" => m_AuthedLinks'[IdentOf(inbound'[u].n)] = u
                 /\ inbound'[u].state \in {"Introduction", "LinkIntro"} =>
                      m_Pending'[AddrOf(inbound'[u].n)] = u
      <4>1. CASE u = t
        BY <1>0, <1>3, <2>2, <2>4, <2>7, <4>1
      <4>2. CASE u # t
        <5>1. inbound'[u] = inbound[u]
          BY <2>4, <4>2
        <5>2. inbound[u].state = "Ready" => m_AuthedLinks'[IdentOf(inbound[u].n)] = u
          BY <2>7, <2>9, <4>2
        <5>3. ASSUME inbound[u].state \in {"Introduction", "LinkIntro"}
              PROVE  m_Pending'[AddrOf(inbound[u].n)] = u
          <6>1. m_Pending[AddrOf(inbound[u].n)] = u /\ AddrOf(inbound[u].n) \in Addrs
            BY <1>1, <5>3, Inbound DEF TablesAgree
          <6> QED
            BY <1>4, <2>6, <4>2, <6>1
        <5> QED
          BY <5>1, <5>2, <5>3
      <4> QED
        BY <4>1, <4>2
    <3>4. \A b \in Addrs, j \in Idents : m_Pending'[b] # 0 => m_Pending'[b] # m_AuthedLinks'[j]
      BY <1>1, <1>9, <2>6, <2>7 DEF TablesAgree
    <3> QED
      BY <1>10, <2>4, <3>1, <3>2, <3>3, <3>4 DEF TablesAgree, AddrOf, IdentOf
  <2>11. AddrsAgree'
    <3>1. \A b \in Addrs : m_Pending'[b] # 0 => m_AuthedAddrs'[b] = NoIdent
      BY <1>1, <2>5, <2>6 DEF AddrsAgree
    <3>2. ASSUME NEW u \in DOMAIN inbound, inbound'[u].state = "Ready"
          PROVE  \/ m_AuthedAddrs'[AddrOf(inbound'[u].n)] = IdentOf(inbound'[u].n)
                 \/ \E k \in DOMAIN attempts :
                      AddrOf(k) = AddrOf(inbound'[u].n) /\ IdentOf(k) # IdentOf(inbound'[u].n)
      <4>1. CASE u = t
        BY <1>0, <1>3, <2>2, <2>4, <2>5, <4>1
      <4>2. CASE u # t
        <5>1. inbound'[u] = inbound[u] /\ inbound[u].state = "Ready"
          BY <2>4, <3>2, <4>2
        <5>2. IdentOf(inbound[u].n) # i /\ AddrOf(inbound[u].n) \in Addrs
          BY <2>9, <4>2, <5>1
        <5>3. CASE AddrOf(inbound[u].n) = a
          BY <1>0, <1>3, <5>1, <5>2, <5>3
        <5>4. CASE AddrOf(inbound[u].n) # a
          <6>1. Mapped(inbound[u].n)
            BY <1>1, <5>1 DEF AddrsAgree
          <6> QED
            BY <2>5, <5>1, <5>2, <5>4, <6>1 DEF Mapped
        <5> QED
          BY <5>3, <5>4
      <4> QED
        BY <4>1, <4>2
    <3> QED
      BY <1>10, <2>4, <3>1, <3>2 DEF AddrsAgree, Mapped, AddrOf, IdentOf
  <2> QED
    BY <1>2, <2>8, <2>10, <2>11, ToldKept DEF IInv
<1> QED
  BY <1>11, <1>12

-----------------------------------------------------------------------------

LEMMA NextInv == ASSUME Parameters, IInv, [Next]_vars PROVE IInv'
<1>1. CASE ClientStep
  BY <1>1, ClientStepInv
<1>2. CASE RouterStep
  BY <1>2, HandleGotIntroInv, HandleCreateSessionRequestInv, GotInboundLIMInv, HandleSessionDataInv,
     RouterHandleCLOSInv, EraseInv, RestartRouterInv DEF RouterStep
<1>3. CASE UNCHANGED vars
  <2>1. UNCHANGED <<clientVars, routerVars, net, restarts>>
    BY <1>3 DEF vars
  <2>2. TypeOK'
    BY <2>1, RouterTypes DEF IInv, TypeOK, routerVars
  <2> QED
    BY <2>1, <2>2, ToldKept, TablesKept DEF IInv, clientVars
<1> QED
  BY <1>1, <1>2, <1>3 DEF Next

\* The tables say what is wanted of them.
LEMMA TablesSuffice == ASSUME Parameters, IInv PROVE ReadyIsReachable /\ OneReadySession
<1>1. TypeOK /\ TablesAgree /\ AddrsAgree
  BY DEF IInv
<1>2. OneReadySession
  BY <1>1 DEF TablesAgree, OneReadySession
<1>3. ASSUME NEW t \in DOMAIN inbound, inbound[t].state = "Ready",
             m_AuthedAddrs[AddrOf(inbound[t].n)] = IdentOf(inbound[t].n)
      PROVE  SessionAt(AddrOf(inbound[t].n)) = t
  <2>1. IdentOf(inbound[t].n) # NoIdent
    BY <1>1, <1>3, Inbound DEF Parameters
  <2> QED
    BY <1>1, <1>3, <2>1 DEF SessionAt, TablesAgree
<1>4. ReadyIsReachable
  BY <1>1, <1>3 DEF ReadyIsReachable, AddrsAgree, Mapped
<1> QED
  BY <1>2, <1>4

\* Every variable of both link layers keeps its type.
THEOREM TypeCorrect == ASSUME Parameters PROVE Spec => []TypeOK
<1>1. Init => IInv
  BY InitInv
<1>2. IInv /\ [Next]_vars => IInv'
  BY NextInv
<1>3. IInv => TypeOK
  BY DEF IInv
<1> QED
  BY <1>1, <1>2, <1>3, PTL DEF Spec

\* ToldInOrder for any number of attempts and restarts: whatever order LIMs, their
\* acknowledgements, CLOS messages and timeouts come in, the client's router hears of an
\* attempt that it timed out, or that it was established and, after that, closed.
THEOREM AttemptsToldInOrder == ASSUME Parameters PROVE Spec => []ToldInOrder
<1>1. Init => IInv
  BY InitInv
<1>2. IInv /\ [Next]_vars => IInv'
  BY NextInv
<1>3. IInv => ToldInOrder
  BY DEF IInv, ToldInv
<1> QED
  BY <1>1, <1>2, <1>3, PTL DEF Spec

\* For any identities, addresses, attempts and restarts: a router has one ready session with
\* an identity, and packets from its address reach it unless another identity used the address.
THEOREM ReadySessionsReached == ASSUME Parameters PROVE Spec => [](ReadyIsReachable /\ OneReadySession)
<1>1. Init => IInv
  BY InitInv
<1>2. IInv /\ [Next]_vars => IInv'
  BY NextInv
<1>3. IInv => ReadyIsReachable /\ OneReadySession
  BY TablesSuffice
<1> QED
  BY <1>1, <1>2, <1>3, PTL DEF Spec
=============================================================================
