------------------------- MODULE PersistingSessions -------------------------
(***************************************************************************)
(* The sessions LinkManager keeps (llarp/link/link_manager.cpp) for the    *)
(* hops built over them.  A path or a transit hop asks for a session that  *)
(* lasts as long as it does; the DHT asks for a minute.  Times are what is *)
(* left until then; everything runs on the event loop.                     *)
(***************************************************************************)
EXTENDS Integers, FiniteSetsExt

CONSTANTS
  Peers,
  HopLife,    \* lifetime of a hop
  Margin,     \* the 10s a transit hop adds
  DhtPersist  \* the minute that DHTSendTo asks for

VARIABLES
  m_PersistingSessions,  \* time left for each peer, Absent if there is no entry
  m_Clients,
  outbound,              \* peers with a session on an outbound link
  inbound,               \* the kind of peer with a session on an inbound link
  hops,                  \* the longest time left of the hops over each peer
  wanted,                \* peers CreateSessionTo was called for
  deregistered,          \* peers deregistered while hops over them live
  stopping

Absent == -1

vars == <<m_PersistingSessions, m_Clients, outbound, inbound, hops, wanted, deregistered,
  stopping>>

Init ==
  /\ m_PersistingSessions = [p \in Peers |-> Absent]
  /\ m_Clients = {} /\ outbound = {} /\ wanted = {} /\ deregistered = {}
  /\ inbound = [p \in Peers |-> "none"]
  /\ hops = [p \in Peers |-> 0]
  /\ stopping = FALSE

\* The inbound links are asked first.
SessionIsClient(p) == inbound[p] = "client"
GetLinkWithSessionTo(p) == p \in outbound \/ inbound[p] # "none"

\* The code without its max: the last caller decides.
PersistSessionUntil_Last(p, until) ==
  IF stopping THEN UNCHANGED <<m_PersistingSessions, m_Clients>>
  ELSE /\ m_PersistingSessions' = [m_PersistingSessions EXCEPT ![p] = until]
       /\ m_Clients' = IF SessionIsClient(p) THEN m_Clients \cup {p} ELSE m_Clients

\* A missing entry is made with the value 0 before it is compared.
PersistSessionUntil(p, until) ==
  IF stopping THEN UNCHANGED <<m_PersistingSessions, m_Clients>>
  ELSE /\ m_PersistingSessions' = [m_PersistingSessions EXCEPT ![p] = Max({until, @, 0})]
       /\ m_Clients' = IF SessionIsClient(p) THEN m_Clients \cup {p} ELSE m_Clients

\* SendLRCM, SendPathConfirm (margin), and a path's own first hop (none).
PutHop(p, margin) ==
  /\ ~stopping
  /\ PersistSessionUntil(p, HopLife + margin)
  /\ hops' = [hops EXCEPT ![p] = HopLife]
  /\ deregistered' = deregistered \ {p}
  /\ UNCHANGED <<outbound, inbound, wanted, stopping>>

DHTSendTo(p) ==
  /\ PersistSessionUntil(p, DhtPersist)
  /\ UNCHANGED <<outbound, inbound, hops, wanted, deregistered, stopping>>

TimePasses ==
  /\ m_PersistingSessions' =
       [p \in Peers |-> IF m_PersistingSessions[p] > 0 THEN m_PersistingSessions[p] - 1
                        ELSE m_PersistingSessions[p]]
  /\ hops' = [p \in Peers |-> IF hops[p] > 0 THEN hops[p] - 1 ELSE 0]
  /\ deregistered' = {p \in deregistered : hops'[p] > 0}
  /\ UNCHANGED <<m_Clients, outbound, inbound, wanted, stopping>>

\* Keep-alives change nothing here.  An expired client keeps its entry.
CheckPersistingSessions ==
  LET expired == {p \in Peers \ m_Clients : m_PersistingSessions[p] = 0}
      sessionsNeeded == {p \in Peers \ m_Clients :
        m_PersistingSessions[p] > 0 /\ ~GetLinkWithSessionTo(p)}
  IN /\ ~stopping
     /\ wanted' = wanted \cup sessionsNeeded
     /\ m_PersistingSessions' =
          [p \in Peers |-> IF p \in expired THEN Absent ELSE m_PersistingSessions[p]]
     /\ outbound' = outbound \ expired
     /\ UNCHANGED <<m_Clients, inbound, hops, deregistered, stopping>>

\* Called for a router that is no longer listed or cannot be found.
DeregisterPeer(p) ==
  /\ m_PersistingSessions' = [m_PersistingSessions EXCEPT ![p] = Absent]
  /\ inbound' = [inbound EXCEPT ![p] = "none"]
  /\ outbound' = outbound \ {p}
  /\ deregistered' = IF hops[p] > 0 THEN deregistered \cup {p} ELSE deregistered
  /\ UNCHANGED <<m_Clients, hops, wanted, stopping>>

Stop ==
  /\ ~stopping /\ stopping' = TRUE
  /\ outbound' = {} /\ inbound' = [p \in Peers |-> "none"]
  /\ UNCHANGED <<m_PersistingSessions, m_Clients, hops, wanted, deregistered>>

\* Sessions come and go: asked for, accepted, timed out.
SessionMade(p) ==
  /\ p \in wanted /\ wanted' = wanted \ {p}
  /\ outbound' = IF stopping THEN outbound ELSE outbound \cup {p}
  /\ UNCHANGED <<m_PersistingSessions, m_Clients, inbound, hops, deregistered, stopping>>

SessionAccepted(p, kind) ==
  /\ ~stopping /\ inbound[p] = "none"
  /\ inbound' = [inbound EXCEPT ![p] = kind]
  /\ UNCHANGED <<m_PersistingSessions, m_Clients, outbound, hops, wanted, deregistered, stopping>>

SessionLost(p) ==
  /\ GetLinkWithSessionTo(p)
  /\ outbound' = outbound \ {p}
  /\ inbound' = [inbound EXCEPT ![p] = "none"]
  /\ UNCHANGED <<m_PersistingSessions, m_Clients, hops, wanted, deregistered, stopping>>

Next ==
  \/ \E p \in Peers, margin \in {0, Margin} : PutHop(p, margin)
  \/ \E p \in Peers, kind \in {"relay", "client"} : SessionAccepted(p, kind)
  \/ \E p \in Peers : \/ DHTSendTo(p) \/ DeregisterPeer(p) \/ SessionMade(p) \/ SessionLost(p)
  \/ TimePasses \/ CheckPersistingSessions \/ Stop

-----------------------------------------------------------------------------
(* Properties.                                                             *)

\* A commitment holds as long as a hop needs it: whatever shorter request came
\* after it, the session with the peer of a live hop is asked for until the hop
\* is over, unless the peer was deregistered (PersistSessionUntil,
\* CheckPersistingSessions).
CommitmentsHeld ==
  \A p \in Peers : hops[p] > 0 /\ p \notin deregistered => m_PersistingSessions[p] >= hops[p]
=============================================================================
