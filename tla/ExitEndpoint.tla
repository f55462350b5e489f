---------------------------- MODULE ExitEndpoint ----------------------------
(***************************************************************************)
(* ExitEndpoint of a master node (llarp/handlers/exit.cpp,                 *)
(* exit/endpoint.cpp): which address of the interface stands for which     *)
(* client or master node, the exits that were granted to clients on their  *)
(* paths, and the sessions made to other master nodes.  There are fewer    *)
(* addresses than keys: the one that was used least recently is taken away *)
(* from its key, whose exits are removed.                                  *)
(***************************************************************************)
EXTENDS Naturals, FiniteSets, Sequences, SequencesExt

CONSTANTS
  Keys,         \* clients and other master nodes
  Us,           \* the key of this router
  Paths,        \* paths that end here
  KeyOf,        \* the key a path asks for an exit with
  FromRouter,   \* paths whose previous hop is the router with that key
  m_HigestAddr  \* the addresses are m_IfAddr..m_HigestAddr

m_IfAddr == 0

VARIABLES
  x,        \* the members of ExitEndpoint
  expired   \* paths that have expired

vars == <<x, expired>>

NoMap == [k \in {} |-> 0]
Put(f, k, v) == [y \in DOMAIN f \cup {k} |-> IF y = k THEN v ELSE f[y]]
Erase(f, S) == [y \in DOMAIN f \ S |-> f[y]]

\* Start.  m_IPActivity lists the addresses, least recently used first; our own is
\* never the one to take.  m_PermitExit is never assigned: any value.
Start(permit) ==
  [m_PermitExit |-> permit,
   m_KeyToIP |-> Put(NoMap, Us, m_IfAddr), m_IPToKey |-> Put(NoMap, m_IfAddr, Us),
   m_IPActivity |-> <<>>, m_NextAddr |-> m_IfAddr,
   m_ActiveExits |-> {}, m_Paths |-> NoMap,
   m_MNodeKeys |-> {Us}, m_MNodeSessions |-> NoMap]

Init == expired = {} /\ \E permit \in BOOLEAN : x = Start(permit)

\* Removing an exit destroys its Endpoint, which erases its path.
RemoveExits(s, exits) ==
  [s EXCEPT !.m_ActiveExits = @ \ exits, !.m_Paths = Erase(@, {e.path : e \in exits})]

KickIdentOffExit_KeepsExits(s, pk) ==
  [s EXCEPT !.m_KeyToIP = Erase(@, {pk}), !.m_IPToKey = Erase(@, {s.m_KeyToIP[pk]})]

KickIdentOffExit(s, pk) ==
  LET unmapped == [s EXCEPT !.m_KeyToIP = Erase(@, {pk}),
                            !.m_IPToKey = Erase(@, {s.m_KeyToIP[pk]})]
  IN RemoveExits(unmapped, {e \in s.m_ActiveExits : e.key = pk})

MarkIPActive(s, ip) == [s EXCEPT !.m_IPActivity = Append(Remove(@, ip), ip)]

\* The address that AllocateNewAddress returns, and the state it leaves.
AllocateNewAddress(s) ==
  IF s.m_NextAddr < m_HigestAddr
    THEN [ip |-> s.m_NextAddr + 1, state |-> [s EXCEPT !.m_NextAddr = @ + 1]]
    ELSE LET found == Head(s.m_IPActivity)
         IN [ip |-> found, state |-> KickIdentOffExit(s, s.m_IPToKey[found])]

GetIPForIdent(s, pk) ==
  IF pk \in DOMAIN s.m_KeyToIP THEN MarkIPActive(s, s.m_KeyToIP[pk])
  ELSE LET new == AllocateNewAddress(s)
       IN MarkIPActive([new.state EXCEPT !.m_KeyToIP = Put(@, pk, new.ip),
                                         !.m_IPToKey = Put(@, new.ip, pk)], new.ip)

\* A session to a master node keeps the address it was made with.
ObtainMasterNodeIP(s, pk) ==
  LET t == GetIPForIdent(s, pk)
  IN IF pk \in t.m_MNodeKeys THEN t
     ELSE [t EXCEPT !.m_MNodeKeys = @ \cup {pk},
                    !.m_MNodeSessions = Put(@, pk, t.m_KeyToIP[pk])]

-----------------------------------------------------------------------------
(* Messages on a path, requests for a master node, and the timer.          *)

\* HandleObtainExitMessage; a path asks once.
AllocateNewExit(path, wantInternet) ==
  LET pk == KeyOf[path]
      s == GetIPForIdent(x, pk)
      exit == [key |-> pk, path |-> path, ip |-> s.m_KeyToIP[pk]]
  IN /\ path \notin expired /\ path \notin DOMAIN x.m_Paths
     /\ wantInternet => x.m_PermitExit
     /\ x' = [s EXCEPT !.m_MNodeKeys = IF path \in FromRouter THEN @ \cup {pk} ELSE @,
                       !.m_ActiveExits = @ \cup {exit},
                       !.m_Paths = Put(@, path, pk)]
     /\ UNCHANGED expired

\* HandleCloseExitMessage: FindEndpointByPath gives any exit of the path's key.
CloseExit(path) ==
  /\ path \notin expired /\ path \in DOMAIN x.m_Paths
  /\ \E e \in x.m_ActiveExits : e.key = x.m_Paths[path] /\ x' = RemoveExits(x, {e})
  /\ UNCHANGED expired

\* A DNS query for random.mnode.
QueryMNode(pk) ==
  /\ x' = ObtainMasterNodeIP(x, pk)
  /\ UNCHANGED expired

\* A ready hook is added to the session; for a key that is marked as a master node
\* and has none, the null pointer ends the process, which is started again.
ObtainMNodeSession(pk) ==
  LET s == ObtainMasterNodeIP(x, pk)
  IN \/ pk \in DOMAIN s.m_MNodeSessions /\ x' = s /\ UNCHANGED expired
     \/ /\ pk \notin DOMAIN s.m_MNodeSessions
        /\ \E permit \in BOOLEAN : x' = Start(permit)
        /\ expired' = Paths

\* Sessions not used for LifeSpan, and exits whose path has expired.
Tick ==
  /\ \E unused \in SUBSET DOMAIN x.m_MNodeSessions :
       x' = RemoveExits([x EXCEPT !.m_MNodeSessions = Erase(@, unused)],
                        {e \in x.m_ActiveExits : e.path \in expired})
  /\ UNCHANGED expired

PathExpires(path) ==
  /\ path \notin expired
  /\ expired' = expired \cup {path}
  /\ UNCHANGED x

Next ==
  \/ Tick
  \/ \E pk \in Keys : QueryMNode(pk) \/ ObtainMNodeSession(pk)
  \/ \E path \in Paths :
       \/ \E wantInternet \in BOOLEAN : AllocateNewExit(path, wantInternet)
       \/ CloseExit(path) \/ PathExpires(path)

-----------------------------------------------------------------------------
(* Properties.                                                             *)

\* An address stands for one key at a time: the two tables are inverse to each
\* other, our own address stays ours, and an exit that is still active has the
\* address of its key and is found by its path.  So a packet that leaves with an
\* address is answered to the client it came from, even when the address was
\* another's before (GetIPForIdent, KickIdentOffExit, Endpoint::~Endpoint).
ExitAddressesAgree ==
  /\ \A k \in DOMAIN x.m_KeyToIP :
       x.m_KeyToIP[k] \in DOMAIN x.m_IPToKey /\ x.m_IPToKey[x.m_KeyToIP[k]] = k
  /\ \A ip \in DOMAIN x.m_IPToKey :
       x.m_IPToKey[ip] \in DOMAIN x.m_KeyToIP /\ x.m_KeyToIP[x.m_IPToKey[ip]] = ip
  /\ Us \in DOMAIN x.m_KeyToIP /\ x.m_KeyToIP[Us] = m_IfAddr
  /\ \A e \in x.m_ActiveExits :
       /\ e.key \in DOMAIN x.m_KeyToIP /\ x.m_KeyToIP[e.key] = e.ip
       /\ e.path \in DOMAIN x.m_Paths /\ x.m_Paths[e.path] = e.key
=============================================================================
