------------------------------ MODULE MCLinks ------------------------------
(* The two halves of an iwp session: the messages an established session      *)
(* carries (IwpMessages) and the handshakes and tables that establish it      *)
(* (LinkSessions).  Only the one chosen at the start moves.                   *)
EXTENDS IwpMessages, TLC

CONSTANTS long, short, Idents, Addrs, NoIdent, MaxAttempts, MaxInbound, MaxRestarts

\* One message of two fragments and one that fits in a packet.
MCNumFrags == [m \in MsgIds |-> IF m = long THEN 2 ELSE 1]

VARIABLES
  me, attempts, session, told, inbound, m_Pending, m_AuthedLinks, m_AuthedAddrs,
  handshakes,  \* the packets of the handshakes
  restarts,
  moves        \* "messages" or "sessions"

Link == INSTANCE LinkSessions WITH net <- handshakes

linkVars == <<me, attempts, session, told, inbound, m_Pending, m_AuthedLinks, m_AuthedAddrs,
              handshakes, restarts>>

LinksInit == Init /\ Link!Init /\ moves \in {"messages", "sessions"}

\* The sessions may come to rest; that the messages may not is still checked.
LinksNext ==
  \/ moves = "messages" /\ Next /\ UNCHANGED <<linkVars, moves>>
  \/ moves = "sessions" /\ Link!Next /\ UNCHANGED <<vars, moves>>
  \/ moves = "sessions" /\ UNCHANGED <<vars, linkVars, moves>>

LinksSpec ==
  /\ LinksInit /\ [][LinksNext]_<<vars, linkVars, moves>>
  /\ WF_vars(moves = "messages" /\ TickTX)
  /\ WF_vars(moves = "messages" /\ TickRX)
  /\ WF_vars(moves = "messages" /\ AdvanceTime)
  /\ WF_linkVars(Link!PumpPending)
  /\ WF_linkVars(~(\E t \in DOMAIN inbound : Link!Linked(t)) /\ Link!CloseAuthed)
  /\ \A i \in Idents :
       WF_linkVars(m_AuthedLinks[i] # 0 /\ ~Link!Linked(m_AuthedLinks[i]) /\ Link!PumpRouterAuthed(i))
  /\ \A a \in Addrs : WF_linkVars(Link!PumpRouterPending(a))

\* The client's router hears of an attempt in order and once: it times out, or it
\* is established and perhaps closed later, however late a LIM, its acknowledgement
\* or a CLOS arrives; and an authenticated session is one it was told of.
ToldInOrder == Link!ToldInOrder

\* Packets reach a ready session (the maps of HandleSessionData and Pump agree),
\* unless another identity has used its address, and a router never has two ready
\* sessions with one identity (MapAddr).
ReadyIsReachable == Link!ReadyIsReachable /\ Link!OneReadySession

\* No end keeps a session for ever that the other end has lost, be it closed there,
\* timed out, forgotten in a restart or cut off from its address; and every attempt
\* of the client ends (ILinkLayer::Pump).
HalfOpenEnds == Link!HalfOpenEnds
=============================================================================
