-------------------------- MODULE OutboundMessages --------------------------
(***************************************************************************)
(* OutboundMessageHandler (llarp/router/outbound_message_handler.cpp):     *)
(* where a link message waits between Router::SendToOrQueue and the link   *)
(* layer.  A message for a router without a session waits in a queue of    *)
(* that router; any other goes to the shared outboundQueue, from where     *)
(* Pump() sorts it into the queue of its path and sends the path queues    *)
(* round robin.                                                            *)
(*                                                                         *)
(* Every function runs on the event loop, one at a time.  The loops of     *)
(* Pump() and FinalizeSessionRequest() take one iteration per step; pc     *)
(* says which loop is running, and everything else waits until it is back  *)
(* at "idle".  A priority queue is the set of the messages in it: what     *)
(* top() gives among equals is not specified.                              *)
(***************************************************************************)
EXTENDS Integers, Sequences, FiniteSets, Functions

CONSTANTS
  Msgs,                \* one for each call of QueueMessage
  Routers,             \* remote routers
  PathIds,             \* path ids, zeroID among them
  zeroID,              \* the path id of routing messages
  RouterOf, PathOf,    \* where message m goes, and on which path
  Priority,            \* ILinkMessage::Priority of message m
  MaxQueueSize,        \* of outboundQueue, MAX_OUTBOUND_QUEUE_SIZE
  MAX_PATH_QUEUE_SIZE,
  RemovedInterval      \* how long recentlyRemovedPaths keeps a path id

ASSUME MessageAssumption ==
  /\ IsFiniteSet(Msgs)
  /\ zeroID \in PathIds
  /\ RouterOf \in [Msgs -> Routers]
  /\ PathOf \in [Msgs -> PathIds]
  /\ Priority \in [Msgs -> Nat]

ASSUME BoundAssumption ==
  /\ MaxQueueSize \in Nat /\ MAX_PATH_QUEUE_SIZE \in Nat
  /\ RemovedInterval \in Nat \ {0}

VARIABLES
  pc,                          \* the loop that is running
  sessions,                    \* LinkManager::HasSessionTo
  requested,                   \* CreateSessionTo was called, OnSessionResult not yet
  pumpTriggered,               \* the waker m_Pump is set
  outboundQueue,
  pendingSessionMessageQueues,
  outboundMessageQueues,
  roundRobinOrder,
  recentlyRemovedPaths,        \* how long ago each path id was inserted
  removedSomePaths,
  unchecked, consecutive_empty, \* locals of SendRoundRobin
  movedMessages, movedStatus,  \* locals of FinalizeSessionRequest
  inLink,                      \* the link layer holds the completion handler
  informed,                    \* informed[m]: how often m's SendStatusHandler was called
  removed,                     \* every path RemovePath was called for
  forgotten                    \* messages dropped without a call of the handler

queueVars == <<outboundQueue, pendingSessionMessageQueues, outboundMessageQueues>>
pathVars == <<roundRobinOrder, recentlyRemovedPaths, removedSomePaths, removed>>
localVars == <<unchecked, consecutive_empty, movedMessages, movedStatus>>
linkVars == <<sessions, requested, inLink>>
vars == <<pc, pumpTriggered, queueVars, pathVars, localVars, linkVars,
          informed, forgotten>>

\* What ToSendStatus makes of a SessionResult, the failures being all the same.
SendStatus == {"Success", "Failure"}

Queued == {m \in Msgs : informed[m] > 0} \cup Range(outboundQueue)
  \cup (UNION Range(pendingSessionMessageQueues))
  \cup (UNION Range(outboundMessageQueues))
  \cup movedMessages \cup inLink \cup forgotten

WithKey(f, k, v) == [x \in DOMAIN f \cup {k} |-> IF x = k THEN v ELSE f[x]]
Without(f, k) == [x \in DOMAIN f \ {k} |-> f[x]]

\* What top() of an ascending_priority_queue may give.
Top(queue) == {m \in queue : \A k \in queue : Priority[m] <= Priority[k]}

Init ==
  /\ pc = "idle"
  /\ sessions = {} /\ requested = {}
  /\ pumpTriggered = FALSE
  /\ outboundQueue = <<>>
  /\ pendingSessionMessageQueues = [r \in {} |-> {}]
  /\ outboundMessageQueues = [p \in {zeroID} |-> {}]
  /\ roundRobinOrder = <<>>
  /\ recentlyRemovedPaths = [p \in {} |-> 0]
  /\ removedSomePaths = FALSE
  /\ unchecked = 0 /\ consecutive_empty = 0
  /\ movedMessages = {} /\ movedStatus = "Success"
  /\ inLink = {}
  /\ informed = [m \in Msgs |-> 0]
  /\ removed = {} /\ forgotten = {}

\* The statuses themselves are not modelled.
DoCallback(m) == informed' = [informed EXCEPT ![m] = @ + 1]

\* LinkManager::SendTo: without a session, or with a full send queue, the
\* completion handler runs at once; otherwise the session keeps it, and
\* Session::SendMessageBuffer triggers the pump.
Send(m) ==
  \/ /\ RouterOf[m] \in sessions
     /\ inLink' = inLink \cup {m}
     /\ pumpTriggered' = TRUE
     /\ UNCHANGED informed
  \/ DoCallback(m) /\ UNCHANGED <<inLink, pumpTriggered>>

-----------------------------------------------------------------------------
(* QueueMessage.  A path that was removed may still queue messages, but    *)
(* not after the time recentlyRemovedPaths remembers it for.               *)

InUse(p) ==
  \/ p \notin removed
  \/ p \in DOMAIN recentlyRemovedPaths /\ recentlyRemovedPaths[p] < RemovedInterval

QueueOutboundMessage_NoCapacityCheck(m) ==
  /\ RouterOf[m] \in sessions
  /\ outboundQueue' = Append(outboundQueue, m)
  /\ IF Len(outboundQueue) < MaxQueueSize
       THEN UNCHANGED informed
       ELSE DoCallback(m)
  /\ UNCHANGED <<pendingSessionMessageQueues, requested>>

QueueOutboundMessage(m) ==
  /\ RouterOf[m] \in sessions
  /\ IF Len(outboundQueue) < MaxQueueSize
       THEN outboundQueue' = Append(outboundQueue, m) /\ UNCHANGED informed
       ELSE DoCallback(m) /\ UNCHANGED outboundQueue
  /\ UNCHANGED <<pendingSessionMessageQueues, requested>>

QueuePendingSession(m) ==
  LET r == RouterOf[m]
      is_new == r \notin DOMAIN pendingSessionMessageQueues
      queue == IF is_new THEN {} ELSE pendingSessionMessageQueues[r]
  IN /\ r \notin sessions
     /\ pendingSessionMessageQueues' =
          WithKey(pendingSessionMessageQueues, r, queue \cup {m})
     /\ requested' = IF is_new THEN requested \cup {r} ELSE requested
     /\ UNCHANGED <<outboundQueue, informed>>

\* Neither a session (SessionIsClient) nor SessionIsAllowed, which depends on
\* a whitelist that changes at any time.
InvalidDestination(m) ==
  /\ RouterOf[m] \notin sessions
  /\ DoCallback(m)
  /\ UNCHANGED <<outboundQueue, pendingSessionMessageQueues, requested>>

\* The traffic of a path is queued by HandleAllUpstream and HandleAllDownstream,
\* which trigger the pump; not all senders of routing messages do.
QueueMessage(m) ==
  /\ pc = "idle"
  /\ m \notin Queued
  /\ InUse(PathOf[m])
  /\ QueueOutboundMessage(m) \/ QueuePendingSession(m) \/ InvalidDestination(m)
  /\ pumpTriggered' \in (IF PathOf[m] = zeroID THEN {pumpTriggered, TRUE} ELSE {TRUE})
  /\ UNCHANGED <<pc, outboundMessageQueues, pathVars, localVars,
                 sessions, inLink, forgotten>>

-----------------------------------------------------------------------------
(* Pump, and RemovePath.                                                   *)

Decay_Early(paths) ==
  [p \in {q \in DOMAIN paths : paths[q] + 1 < RemovedInterval} |-> paths[p]]

Decay(paths) ==
  [p \in {q \in DOMAIN paths : paths[q] < RemovedInterval} |-> paths[p]]

Pump ==
  /\ pc = "idle" /\ pumpTriggered
  /\ pumpTriggered' = FALSE
  /\ recentlyRemovedPaths' = Decay(recentlyRemovedPaths)
  /\ pc' = "process"
  /\ UNCHANGED <<queueVars, roundRobinOrder, removedSomePaths, removed, localVars, linkVars,
                 informed, forgotten>>

RemovePath(p) ==
  /\ pc = "idle"
  /\ p \notin removed /\ p # zeroID
  /\ recentlyRemovedPaths' = WithKey(recentlyRemovedPaths, p, 0)
  /\ outboundMessageQueues' = Without(outboundMessageQueues, p)
  /\ forgotten' = forgotten \cup
       (IF p \in DOMAIN outboundMessageQueues THEN outboundMessageQueues[p] ELSE {})
  /\ removedSomePaths' = TRUE
  /\ removed' = removed \cup {p}
  /\ UNCHANGED <<pc, pumpTriggered, outboundQueue, pendingSessionMessageQueues,
                 roundRobinOrder, localVars, linkVars, informed>>

\* An entry whose path is gone is skipped.
SkipRemoved(m) ==
  /\ PathOf[m] \in DOMAIN recentlyRemovedPaths
  /\ forgotten' = forgotten \cup {m}
  /\ UNCHANGED <<outboundMessageQueues, roundRobinOrder, informed>>

SortIntoPathQueue_NoTurn(m) ==
  LET p == PathOf[m]
      queue == IF p \in DOMAIN outboundMessageQueues THEN outboundMessageQueues[p] ELSE {}
  IN /\ p \notin DOMAIN recentlyRemovedPaths
     /\ outboundMessageQueues' = WithKey(outboundMessageQueues, p, queue \cup {m})
     /\ UNCHANGED <<roundRobinOrder, informed, forgotten>>

\* An entry is moved to the queue of its path, which is created, or dropped
\* when that queue is full.
SortIntoPathQueue(m) ==
  LET p == PathOf[m]
      is_new == p \notin DOMAIN outboundMessageQueues
      queue == IF is_new THEN {} ELSE outboundMessageQueues[p]
      fits == Cardinality(queue) < MAX_PATH_QUEUE_SIZE \/ p = zeroID
  IN /\ p \notin DOMAIN recentlyRemovedPaths
     /\ roundRobinOrder' =
          IF is_new /\ p # zeroID THEN Append(roundRobinOrder, p) ELSE roundRobinOrder
     /\ outboundMessageQueues' =
          WithKey(outboundMessageQueues, p, IF fits THEN queue \cup {m} ELSE queue)
     /\ IF fits THEN UNCHANGED informed ELSE DoCallback(m)
     /\ UNCHANGED forgotten

ProcessOutboundQueue_NotEmpty ==
  /\ pc = "process"
  /\ outboundQueue # <<>>
  /\ outboundQueue' = Tail(outboundQueue)
  /\ SkipRemoved(Head(outboundQueue)) \/ SortIntoPathQueue(Head(outboundQueue))
  /\ UNCHANGED <<pc, pumpTriggered, pendingSessionMessageQueues,
                 recentlyRemovedPaths, removedSomePaths, removed, localVars, linkVars>>

ProcessOutboundQueue_Empty ==
  /\ pc = "process"
  /\ outboundQueue = <<>>
  /\ pc' = "routing"
  /\ UNCHANGED <<pumpTriggered, queueVars, pathVars, localVars, linkVars,
                 informed, forgotten>>

SendRoutingMessage(m) ==
  /\ pc = "routing"
  /\ m \in Top(outboundMessageQueues[zeroID])
  /\ Send(m)
  /\ outboundMessageQueues' = [outboundMessageQueues EXCEPT ![zeroID] = @ \ {m}]
  /\ UNCHANGED <<pc, outboundQueue, pendingSessionMessageQueues,
                 pathVars, localVars, sessions, requested, forgotten>>

\* The routing queue is empty: if paths were removed the entries of roundRobinOrder
\* are checked, then the loop over the path queues begins, if there are any.
StartRoundRobin ==
  /\ pc = "routing"
  /\ outboundMessageQueues[zeroID] = {}
  /\ unchecked' = IF removedSomePaths THEN Len(roundRobinOrder) ELSE 0
  /\ consecutive_empty' = 0
  /\ pc' = CASE removedSomePaths -> "prune"
             [] ~removedSomePaths /\ roundRobinOrder = <<>> -> "idle"
             [] OTHER -> "roundrobin"
  /\ UNCHANGED <<pumpTriggered, queueVars, pathVars, movedMessages, movedStatus, linkVars,
                 informed, forgotten>>

Rotated(order) == Append(Tail(order), Head(order))

\* An entry without a queue is dropped, any other goes to the end.
Prune ==
  /\ pc = "prune" /\ unchecked > 0
  /\ unchecked' = unchecked - 1
  /\ roundRobinOrder' = IF Head(roundRobinOrder) \in DOMAIN outboundMessageQueues
                          THEN Rotated(roundRobinOrder) ELSE Tail(roundRobinOrder)
  /\ UNCHANGED <<pc, pumpTriggered, queueVars, recentlyRemovedPaths, removedSomePaths, removed,
                 consecutive_empty, movedMessages, movedStatus, linkVars, informed, forgotten>>

Pruned ==
  /\ pc = "prune" /\ unchecked = 0
  /\ removedSomePaths' = FALSE
  /\ pc' = IF roundRobinOrder = <<>> THEN "idle" ELSE "roundrobin"
  /\ UNCHANGED <<pumpTriggered, queueVars, roundRobinOrder, recentlyRemovedPaths, removed,
                 localVars, linkVars, informed, forgotten>>

\* The counter has been updated: the loop breaks when it has reached the number
\* of queues.  sent_count stays 0, so the cap on messages never ends the loop,
\* and SendRoundRobin always returns false: the pump is not triggered again.
NextQueue(empty) ==
  /\ roundRobinOrder' = Rotated(roundRobinOrder)
  /\ IF empty = Len(roundRobinOrder)
       THEN pc' = "idle" /\ consecutive_empty' = 0
       ELSE pc' = "roundrobin" /\ consecutive_empty' = empty
  /\ UNCHANGED <<outboundQueue, pendingSessionMessageQueues,
                 recentlyRemovedPaths, removedSomePaths, removed, unchecked,
                 movedMessages, movedStatus, sessions, requested, forgotten>>

\* operator[] creates a queue for a path that has none.
HeadQueue ==
  LET p == Head(roundRobinOrder)
  IN IF p \in DOMAIN outboundMessageQueues THEN outboundMessageQueues[p] ELSE {}

SendRoundRobin_Send(m) ==
  /\ pc = "roundrobin"
  /\ m \in Top(HeadQueue)
  /\ Send(m)
  /\ outboundMessageQueues' =
       [outboundMessageQueues EXCEPT ![Head(roundRobinOrder)] = @ \ {m}]
  /\ NextQueue(1)

SendRoundRobin_Empty ==
  /\ pc = "roundrobin"
  /\ HeadQueue = {}
  /\ outboundMessageQueues' =
       WithKey(outboundMessageQueues, Head(roundRobinOrder), {})
  /\ NextQueue(consecutive_empty + 1)
  /\ UNCHANGED <<pumpTriggered, inLink, informed>>

-----------------------------------------------------------------------------
(* The result of a session request, and the environment: the link layer,   *)
(* the session maker and the clock.                                        *)

\* OnSessionResult, up to the loop over the messages taken from the queue.
OnSessionResult(r, status) ==
  /\ pc = "idle"
  /\ r \in requested
  /\ requested' = requested \ {r}
  /\ r \in DOMAIN pendingSessionMessageQueues
  /\ movedMessages' = pendingSessionMessageQueues[r]
  /\ movedStatus' = status
  /\ pendingSessionMessageQueues' = Without(pendingSessionMessageQueues, r)
  /\ pc' = "finalize"
  /\ UNCHANGED <<pumpTriggered, outboundQueue, outboundMessageQueues, pathVars,
                 unchecked, consecutive_empty, sessions, inLink,
                 informed, forgotten>>

FinalizeSessionRequest_Next(m) ==
  /\ pc = "finalize"
  /\ m \in Top(movedMessages)
  /\ movedMessages' = movedMessages \ {m}
  /\ IF movedMessages = {m}
       THEN pc' = "idle" /\ movedStatus' = "Success"
       ELSE pc' = "finalize" /\ UNCHANGED movedStatus
  /\ \/ movedStatus = "Success" /\ Send(m)
     \/ movedStatus # "Success" /\ DoCallback(m) /\ UNCHANGED <<inLink, pumpTriggered>>
  /\ UNCHANGED <<queueVars, pathVars, unchecked, consecutive_empty,
                  sessions, requested, forgotten>>

\* The link layer calls a completion handler: eDeliverySuccess or eDeliveryDropped.
LinkStatus(m) ==
  /\ pc = "idle"
  /\ m \in inLink
  /\ inLink' = inLink \ {m}
  /\ DoCallback(m)
  /\ UNCHANGED <<pc, pumpTriggered, queueVars, pathVars, localVars,
                 sessions, requested, forgotten>>

\* MapAddr triggers the pump.
SessionEstablished(r) ==
  /\ pc = "idle"
  /\ r \notin sessions
  /\ sessions' = sessions \cup {r}
  /\ pumpTriggered' = TRUE
  /\ UNCHANGED <<pc, queueVars, pathVars, localVars, requested, inLink,
                 informed, forgotten>>

\* The session object goes away, and with it the handlers it holds.
SessionClosed(r) ==
  /\ pc = "idle"
  /\ r \in sessions
  /\ sessions' = sessions \ {r}
  /\ LET lost == {m \in inLink : RouterOf[m] = r}
     IN inLink' = inLink \ lost /\ forgotten' = forgotten \cup lost
  /\ UNCHANGED <<pc, pumpTriggered, queueVars, pathVars, localVars, requested,
                 informed>>

\* Whatever arrives or leaves on a session triggers the pump, keep-alives too.
LinkActivity ==
  /\ pc = "idle"
  /\ sessions # {}
  /\ pumpTriggered' = TRUE
  /\ UNCHANGED <<pc, queueVars, pathVars, localVars, linkVars, informed, forgotten>>

\* A unit of time, much longer than a turn of the event loop: a pump that has
\* been triggered runs first.
Elapse ==
  /\ pc = "idle" /\ ~pumpTriggered
  /\ \E p \in DOMAIN recentlyRemovedPaths : recentlyRemovedPaths[p] < RemovedInterval
  /\ recentlyRemovedPaths' =
       [p \in DOMAIN recentlyRemovedPaths |->
          IF recentlyRemovedPaths[p] < RemovedInterval
            THEN recentlyRemovedPaths[p] + 1 ELSE RemovedInterval]
  /\ UNCHANGED <<pc, pumpTriggered, queueVars, roundRobinOrder, removedSomePaths,
                 removed, localVars, linkVars, informed, forgotten>>

LoopStep ==
  \/ ProcessOutboundQueue_NotEmpty \/ ProcessOutboundQueue_Empty
  \/ StartRoundRobin \/ Prune \/ Pruned \/ SendRoundRobin_Empty
  \/ \E m \in Msgs :
       SendRoutingMessage(m) \/ SendRoundRobin_Send(m) \/ FinalizeSessionRequest_Next(m)

Next ==
  \/ Pump \/ LoopStep
  \/ \E m \in Msgs : QueueMessage(m) \/ LinkStatus(m)
  \/ \E p \in PathIds : RemovePath(p)
  \/ \E r \in Routers :
       \/ SessionEstablished(r) \/ SessionClosed(r)
       \/ \E status \in SendStatus : OnSessionResult(r, status)
  \/ LinkActivity \/ Elapse

\* The loop runs the pump once it is triggered, goes on with a loop it has
\* begun, and while there are sessions their keep-alives trigger the pump.
Fairness ==
  /\ WF_vars(Pump) /\ WF_vars(LoopStep)
  /\ WF_vars(LinkActivity)

Spec == Init /\ [][Next]_vars /\ Fairness

-----------------------------------------------------------------------------
(* Properties.                                                             *)

\* Every variable has its type.
TypeOK ==
  /\ pc \in {"idle", "process", "routing", "prune", "roundrobin", "finalize"}
  /\ sessions \subseteq Routers /\ requested \subseteq Routers
  /\ pumpTriggered \in BOOLEAN
  /\ outboundQueue \in Seq(Msgs)
  /\ DOMAIN pendingSessionMessageQueues \subseteq Routers
  /\ \A r \in DOMAIN pendingSessionMessageQueues :
       pendingSessionMessageQueues[r] \subseteq Msgs
  /\ DOMAIN outboundMessageQueues \subseteq PathIds
  /\ \A p \in DOMAIN outboundMessageQueues : outboundMessageQueues[p] \subseteq Msgs
  /\ roundRobinOrder \in Seq(PathIds)
  /\ DOMAIN recentlyRemovedPaths \subseteq PathIds
  /\ \A p \in DOMAIN recentlyRemovedPaths :
       recentlyRemovedPaths[p] \in 0..RemovedInterval
  /\ removedSomePaths \in BOOLEAN
  /\ unchecked \in 0..Len(roundRobinOrder) /\ consecutive_empty \in 0..Len(roundRobinOrder)
  /\ movedMessages \subseteq Msgs
  /\ movedStatus \in SendStatus
  /\ inLink \subseteq Msgs
  /\ informed \in [Msgs -> Nat]
  /\ removed \subseteq PathIds /\ forgotten \subseteq Msgs

One(b) == IF b THEN 1 ELSE 0

\* A message that was queued is in exactly one place: one of the queues, the
\* link layer, told its status once, or dropped with its path or its session.
\* A queue for a router without a session counts only while a session request
\* goes on, which OnSessionResult will conclude.  So no SendStatusHandler is
\* called twice, and none is lost in between.
AccountedFor ==
  \A m \in Queued :
    Cardinality({i \in DOMAIN outboundQueue : outboundQueue[i] = m})
      + Cardinality({r \in requested \cap DOMAIN pendingSessionMessageQueues :
                       m \in pendingSessionMessageQueues[r]})
      + Cardinality({p \in DOMAIN outboundMessageQueues : m \in outboundMessageQueues[p]})
      + One(m \in movedMessages) + One(m \in inLink) + One(m \in forgotten)
      + informed[m] = 1

\* Each path queue has exactly one turn in the round robin, and unless paths
\* were removed since the last pump each turn has a queue: no queue is starved,
\* favoured, or created again by operator[].  The queue of a removed path does
\* not come back ("those path queues would be leaked / never removed",
\* outbound_message_handler.cpp:99).
TurnPerLiveQueue ==
  LET turns == Range(roundRobinOrder)
      paths == DOMAIN outboundMessageQueues \ {zeroID}
  IN /\ IsInjective(roundRobinOrder)
     /\ zeroID \notin turns
     /\ paths \subseteq turns
     /\ removedSomePaths \/ turns = paths
     /\ DOMAIN outboundMessageQueues \cap removed = {}

\* The messages that wait for their path's turn.
InPathQueue(m) ==
  PathOf[m] \in DOMAIN outboundMessageQueues /\ m \in outboundMessageQueues[PathOf[m]]

\* While there are sessions the path queues are drained again and again.  As a
\* message is queued once, none stays in a path queue for ever.
EventuallySent ==
  (\E m \in Msgs : InPathQueue(m)) ~> (\A m \in Msgs : ~InPathQueue(m)) \/ sessions = {}

\* SendRoundRobin "Returns true if there is more to send (...), false if all
\* queues were drained" (outbound_message_handler.hpp:168), and Pump() triggers
\* itself again on true: while messages wait, a pump is on its way.
MoreIsPumpedAgain ==
  pc = "idle" /\ (\E m \in Msgs : InPathQueue(m)) => pumpTriggered
=============================================================================
