--------------------------- MODULE MNodeSessions ---------------------------
(***************************************************************************)
(* The session of a client to a master node (llarp/exit/session.cpp), from *)
(* EnsurePathToMNode, which makes it and leaves a hook on it, to the tick  *)
(* of the endpoint that stops and then removes it (endpoint_util.cpp), with*)
(* the exit messages on its paths (path.cpp).  How a path is built and dies*)
(* is in ClientPaths.tla; here it may do so at any time.                   *)
(*                                                                         *)
(* SupportsAnyRoles ors the roles of a path with the ones asked for, so it *)
(* is always true and the roles are left out.                              *)
(***************************************************************************)
EXTENDS Naturals, Sequences, SequencesExt

CONSTANTS
  Requests,                \* hooks given to EnsurePathToMNode
  Packets,                 \* those that send a packet when they are called
  Paths,                   \* Path objects; one is used again when it is gone
  MaxUpstreamQueueLength

VARIABLES
  s,      \* the session in m_MNodeSessions
  told    \* told[q]: what the hook q was called with

vars == <<s, told>>

NoSession == [there |-> FALSE]

\* BaseSession.  built: paths whose built hook was called; obtain: paths with an
\* ObtainedExit hook; current: m_CurrentPath is set; late: history, hooks that were
\* left on a stopped session.
NewSession ==
  [there |-> TRUE, run |-> TRUE, expired |-> FALSE,
   status |-> [p \in Paths |-> "None"], built |-> {}, obtain |-> {}, current |-> FALSE,
   hooks |-> <<>>, m_Upstream |-> <<>>, late |-> {}]

Init == s = NoSession /\ told = [q \in Requests |-> <<>>]

Established(t) == {p \in Paths : t.status[p] = "Established"}
IsReady(t) == t.current /\ Established(t) # {}

\* Builder::Build, if there are hops for it and its limits allow it.
Builds(t) ==
  {t} \union IF t.run THEN {[t EXCEPT !.status[p] = "Building"] : p \in {q \in Paths : t.status[q] = "None"}}
             ELSE {}

QueueUpstreamTraffic(queue, q) ==
  IF q \in Packets /\ Len(queue) < MaxUpstreamQueueLength THEN Append(queue, q) ELSE queue

\* The same request may come again once it is settled; its history starts anew.
EnsurePathToMNode(q) ==
  LET t == IF s.there THEN s ELSE NewSession IN
  /\ s.there => q \notin ToSet(s.hooks)
  /\ IF IsReady(t)
       THEN /\ s' = [t EXCEPT !.m_Upstream = QueueUpstreamTraffic(@, q)]
            /\ told' = [told EXCEPT ![q] = <<"session">>]
       ELSE /\ s' \in Builds([t EXCEPT !.hooks = Append(@, q),
                                       !.late = IF t.run THEN @ \ {q} ELSE @ \union {q}])
            /\ told' = [told EXCEPT ![q] = <<>>]

\* The first latency answer on a path, which comes also when the session has been
\* stopped: HandlePathBuilt sets the handlers and asks for an exit.
HandlePathBuilt(p) ==
  /\ s.there /\ s.status[p] \in {"Building", "Ignore"} /\ p \notin s.built
  /\ s' = [s EXCEPT !.status[p] = "Established", !.built = @ \union {p}, !.obtain = @ \union {p}]
  /\ UNCHANGED told

\* What the waiting hooks have been told when each is called with result.
Told(result) ==
  [q \in Requests |-> IF q \in ToSet(s.hooks) THEN Append(told[q], result) ELSE told[q]]

CallPendingCallbacks(t) ==
  /\ s' = [t EXCEPT !.hooks = <<>>, !.m_Upstream = FoldLeft(QueueUpstreamTraffic, @, t.hooks)]
  /\ told' = Told("session")

HandleGotExit(t, granted) ==
  IF granted THEN CallPendingCallbacks([t EXCEPT !.current = TRUE]) ELSE s' = t /\ UNCHANGED told

InformExitResult(p, granted) == HandleGotExit([s EXCEPT !.obtain = @ \ {p}], granted)

\* An answer is let in when it names the request, also after another one.
HandleGrantExitMessage(p) ==
  /\ s.there /\ p \in s.built /\ s.status[p] # "None"
  /\ IF p \in s.obtain THEN InformExitResult(p, TRUE) ELSE UNCHANGED vars

\* B of the message is not assigned by the router that rejects: if it is zero the
\* exit counts as granted.
HandleRejectExitMessage(p) ==
  /\ s.there /\ p \in s.built /\ s.status[p] # "None"
  /\ IF p \in s.obtain
       THEN \E B \in {0, 1} : InformExitResult(p, B = 0)
       ELSE UNCHANGED vars

HandleTransferTrafficMessage(p) ==
  /\ s.there /\ p \in s.built /\ s.status[p] # "None"
  /\ s' = [s EXCEPT !.expired = FALSE, !.status[p] = "Established"]
  /\ UNCHANGED told

HandleTrafficDrop(p) ==
  /\ s.there /\ p \in s.built /\ s.status[p] # "None"
  /\ s' = [s EXCEPT !.status[p] = "Ignore"]
  /\ UNCHANGED told

\* The path times out, and Rebuild starts another one over the same hops.
HandlePathDied(p) ==
  /\ s.there /\ s.status[p] = "Established"
  /\ s' \in Builds([s EXCEPT !.status[p] = "Timeout"])
  /\ UNCHANGED told

PathExpires(p) ==
  /\ s.there /\ s.status[p] # "None"
  /\ s' = [s EXCEPT !.status[p] = "None", !.built = @ \ {p}, !.obtain = @ \ {p}]
  /\ UNCHANGED told

\* FlushUpstream.  Without a path the queue is discarded; nothing is built, since
\* UrgentBuild asks for a session that is ready.
FlushUpstream ==
  /\ s.there /\ s.m_Upstream # <<>>
  /\ s' = [s EXCEPT !.m_Upstream = <<>>]
  /\ UNCHANGED told

LifeSpanPasses ==
  /\ s.there /\ ~s.expired
  /\ s' = [s EXCEPT !.expired = TRUE]
  /\ UNCHANGED told

Stop_KeepsCallbacks ==
  /\ s' = [s EXCEPT !.run = FALSE,
                    !.status = [p \in Paths |-> IF @[p] = "None" THEN "None" ELSE "Ignore"]]
  /\ UNCHANGED told

\* BaseSession::Stop and Builder::Stop.
Stop ==
  /\ s' = [s EXCEPT !.run = FALSE, !.hooks = <<>>,
                    !.status = [p \in Paths |-> IF @[p] = "None" THEN "None" ELSE "Ignore"]]
  /\ told' = Told("nothing")

ShouldRemove == ~s.run /\ Established(s) = {}

\* A hook that is destroyed with the session is never called.
Erase ==
  /\ s' = NoSession
  /\ told' = [q \in Requests |-> IF q \in ToSet(s.hooks)
                                   THEN Append(told[q], IF q \in s.late THEN "lost late" ELSE "lost")
                                   ELSE told[q]]

ExpireMNodeSessions ==
  /\ s.there
  /\ CASE ShouldRemove -> Erase
       [] ~ShouldRemove /\ s.expired -> Stop
       [] OTHER -> s' \in Builds(s) /\ UNCHANGED told

\* Endpoint::Stop
StopMnodeSessions == s.there /\ Stop

Next ==
  \/ \E q \in Requests : EnsurePathToMNode(q)
  \/ \E p \in Paths :
       \/ HandlePathBuilt(p) \/ HandleGrantExitMessage(p) \/ HandleRejectExitMessage(p)
       \/ HandleTransferTrafficMessage(p) \/ HandleTrafficDrop(p)
       \/ HandlePathDied(p) \/ PathExpires(p)
  \/ FlushUpstream \/ LifeSpanPasses \/ ExpireMNodeSessions \/ StopMnodeSessions

Spec == Init /\ [][Next]_vars

-----------------------------------------------------------------------------
\* Whoever asked for a path to a master node is told at most once, and is not
\* forgotten: a hook is only destroyed uncalled with a session that had been
\* stopped before the hook came, however late answers, dead paths, the expiry of
\* the session and the end of the endpoint are interleaved (CallPendingCallbacks).
MNodeHooksTold ==
  \A q \in Requests :
    /\ told[q] \in {<<>>, <<"session">>, <<"nothing">>, <<"lost late">>}
    /\ s.there /\ q \in ToSet(s.hooks) => told[q] = <<>>
=============================================================================
