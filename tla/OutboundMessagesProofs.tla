----------------------- MODULE OutboundMessagesProofs -----------------------
(***************************************************************************)
(* Proofs about OutboundMessages, for every set of messages, routers and   *)
(* paths and every bound of the queues: each live path queue has one turn  *)
(* in the round robin, and each queued message is in exactly one place.    *)
(***************************************************************************)
EXTENDS OutboundMessages, FiniteSetTheorems, TLAPS

\* The counters of SendRoundRobin are in use only while their loops run, and the loop
\* over the path queues breaks before its counter passes the number of queues.
LoopInv ==
  /\ pc # "prune" => unchecked = 0
  /\ IF pc = "roundrobin" THEN consecutive_empty < Len(roundRobinOrder) ELSE consecutive_empty = 0

\* A path whose queue may not come back: its messages in outboundQueue must be
\* recognised by ProcessOutboundQueue, so recentlyRemovedPaths must know it still,
\* and must go on doing so when Pump begins with Decay.
Remembered(p) == p \notin removed \/ p \in DOMAIN recentlyRemovedPaths

\* What TurnPerLiveQueue rests on.  A path's message in outboundQueue has triggered
\* the pump, so that no time passes before its path is looked up; a turn without a queue
\* is one of a removed path; the entries that
\* the pruning loop has rotated to the back all have a queue; and when the round robin
\* starts no stale entries are left.
TurnInv ==
  /\ TurnPerLiveQueue
  /\ zeroID \in DOMAIN outboundMessageQueues
  /\ zeroID \notin removed
  /\ Range(roundRobinOrder) \subseteq DOMAIN outboundMessageQueues \cup removed
  /\ \A i \in 1..Len(outboundQueue) :
       CASE pc \in {"idle", "finalize"} ->
              \/ PathOf[outboundQueue[i]] = zeroID
              \/ pumpTriggered = TRUE /\ InUse(PathOf[outboundQueue[i]])
         [] pc = "process" -> Remembered(PathOf[outboundQueue[i]])
         [] OTHER -> FALSE
  /\ pc = "prune" =>
       \A i \in unchecked + 1 .. Len(roundRobinOrder) :
         roundRobinOrder[i] \in DOMAIN outboundMessageQueues
  /\ pc = "roundrobin" => removedSomePaths = FALSE

-----------------------------------------------------------------------------
\* Where a message can be.
Places == {"nowhere", "queue", "session", "path", "moved", "link", "forgotten", "told"}

InQueue(m) == \E i \in 1..Len(outboundQueue) : outboundQueue[i] = m
InSessionQueue(m) ==
  /\ RouterOf[m] \in DOMAIN pendingSessionMessageQueues
  /\ m \in pendingSessionMessageQueues[RouterOf[m]]

OnlyIn(m, w) ==
  /\ InQueue(m) <=> w = "queue"
  /\ InSessionQueue(m) <=> w = "session"
  /\ InPathQueue(m) <=> w = "path"
  /\ m \in movedMessages <=> w = "moved"
  /\ m \in inLink <=> w = "link"
  /\ m \in forgotten <=> w = "forgotten"
  /\ informed[m] = IF w = "told" THEN 1 ELSE 0

EveryoneSomewhere == \A m \in Msgs : \E w \in Places : OnlyIn(m, w)

\* What AccountedFor rests on: every message is in one place, the queues hold only
\* what belongs into them, and the queue of a router lasts as long as the request for
\* a session with it.
PlaceInv ==
  /\ EveryoneSomewhere
  /\ IsInjective(outboundQueue)
  /\ \A p \in DOMAIN outboundMessageQueues :
       \A m \in outboundMessageQueues[p] : PathOf[m] = p
  /\ \A r \in DOMAIN pendingSessionMessageQueues :
       \A m \in pendingSessionMessageQueues[r] : RouterOf[m] = r
  /\ requested = DOMAIN pendingSessionMessageQueues
  /\ pc # "finalize" => movedMessages = {}

-----------------------------------------------------------------------------
(* The operators                                                           *)

\* Appending a new element to a queue.
LEMMA Appended ==
  ASSUME NEW S, NEW s \in Seq(S), NEW e \in S
  PROVE  /\ Append(s, e) \in Seq(S) /\ Len(Append(s, e)) = Len(s) + 1
         /\ \A i \in 1..Len(s) : Append(s, e)[i] = s[i]
         /\ Append(s, e)[Len(s) + 1] = e
         /\ Range(Append(s, e)) = Range(s) \cup {e}
         /\ IsInjective(s) /\ e \notin Range(s) => IsInjective(Append(s, e))
<1>1. /\ Append(s, e) \in Seq(S) /\ Len(Append(s, e)) = Len(s) + 1
      /\ \A i \in 1..Len(s) : Append(s, e)[i] = s[i]
      /\ Append(s, e)[Len(s) + 1] = e
  OBVIOUS
<1>2. DOMAIN s = 1..Len(s) /\ DOMAIN Append(s, e) = 1..(Len(s) + 1) /\ Len(s) \in Nat
  OBVIOUS
<1>3. Range(Append(s, e)) = Range(s) \cup {e}
  BY <1>1, <1>2 DEF Range
<1>4. IsInjective(s) /\ e \notin Range(s) => IsInjective(Append(s, e))
  BY <1>1, <1>2 DEF Range, IsInjective
<1> QED
  BY <1>1, <1>3, <1>4

\* Removing the first element of a queue.
LEMMA Removed ==
  ASSUME NEW S, NEW s \in Seq(S), s # <<>>
  PROVE  /\ Tail(s) \in Seq(S) /\ Len(Tail(s)) = Len(s) - 1 /\ Len(s) > 0
         /\ Head(s) = s[1] /\ Head(s) \in S /\ Head(s) \in Range(s)
         /\ \A i \in 1..(Len(s) - 1) : Tail(s)[i] = s[i + 1]
         /\ Range(s) = Range(Tail(s)) \cup {Head(s)}
         /\ IsInjective(s) => IsInjective(Tail(s)) /\ Head(s) \notin Range(Tail(s))
<1>1. /\ Tail(s) \in Seq(S) /\ Len(Tail(s)) = Len(s) - 1 /\ Len(s) > 0
      /\ Head(s) = s[1] /\ Head(s) \in S
      /\ \A i \in 1..(Len(s) - 1) : Tail(s)[i] = s[i + 1]
  OBVIOUS
<1>2. DOMAIN s = 1..Len(s) /\ DOMAIN Tail(s) = 1..(Len(s) - 1) /\ Len(s) \in Nat
  BY <1>1
<1>3. Head(s) \in Range(s)
  BY <1>1, <1>2 DEF Range
<1>4. Range(s) = Range(Tail(s)) \cup {Head(s)}
  <2>1. \A i \in DOMAIN s : i = 1 \/ (i - 1 \in DOMAIN Tail(s) /\ Tail(s)[i - 1] = s[i])
    BY <1>1, <1>2
  <2>2. \A i \in DOMAIN Tail(s) : i + 1 \in DOMAIN s /\ Tail(s)[i] = s[i + 1]
    BY <1>1, <1>2
  <2>3. Range(s) \subseteq Range(Tail(s)) \cup {Head(s)}
    BY <1>1, <2>1 DEF Range
  <2>4. Range(Tail(s)) \subseteq Range(s)
    BY <2>2 DEF Range
  <2> QED
    BY <1>3, <2>3, <2>4
<1>5. IsInjective(s) => IsInjective(Tail(s)) /\ Head(s) \notin Range(Tail(s))
  BY <1>1, <1>2 DEF Range, IsInjective
<1> QED
  BY <1>1, <1>3, <1>4, <1>5

\* The first element of a queue goes to its end.
LEMMA RotatedQueue ==
  ASSUME NEW S, NEW s \in Seq(S), s # <<>>
  PROVE  /\ Rotated(s) \in Seq(S) /\ Len(Rotated(s)) = Len(s) /\ Rotated(s) # <<>>
         /\ \A i \in 1..(Len(s) - 1) : Rotated(s)[i] = s[i + 1]
         /\ Rotated(s)[Len(s)] = Head(s)
         /\ Range(Rotated(s)) = Range(s)
         /\ IsInjective(s) => IsInjective(Rotated(s))
<1>1. /\ Tail(s) \in Seq(S) /\ Len(Tail(s)) = Len(s) - 1 /\ Len(s) > 0 /\ Len(s) \in Nat
      /\ Head(s) \in S
      /\ \A i \in 1..(Len(s) - 1) : Tail(s)[i] = s[i + 1]
      /\ Range(s) = Range(Tail(s)) \cup {Head(s)}
      /\ IsInjective(s) => IsInjective(Tail(s)) /\ Head(s) \notin Range(Tail(s))
  BY Removed
<1> DEFINE t == Tail(s)
           e == Head(s)
<1>2. /\ Append(t, e) \in Seq(S) /\ Len(Append(t, e)) = Len(t) + 1
      /\ \A i \in 1..Len(t) : Append(t, e)[i] = t[i]
      /\ Append(t, e)[Len(t) + 1] = e
      /\ Range(Append(t, e)) = Range(t) \cup {e}
      /\ IsInjective(t) /\ e \notin Range(t) => IsInjective(Append(t, e))
  <2>1. t \in Seq(S) /\ e \in S
    BY <1>1
  <2> HIDE DEF t, e
  <2> QED
    BY <2>1, Appended
<1>3. /\ Rotated(s) \in Seq(S) /\ Len(Rotated(s)) = Len(s)
      /\ \A i \in 1..(Len(s) - 1) : Rotated(s)[i] = s[i + 1]
      /\ Rotated(s)[Len(s)] = Head(s)
      /\ Range(Rotated(s)) = Range(s)
      /\ IsInjective(s) => IsInjective(Rotated(s))
  BY <1>1, <1>2 DEF Rotated
<1> QED
  BY <1>1, <1>3

-----------------------------------------------------------------------------
(* Types                                                                   *)

\* Every variable has its type, and the loops keep their counters in bounds.
LEMMA TypeInit == Init => TypeOK /\ LoopInv
<1> SUFFICES ASSUME Init PROVE TypeOK /\ LoopInv
  OBVIOUS
<1>1. /\ DOMAIN pendingSessionMessageQueues = {} /\ DOMAIN recentlyRemovedPaths = {}
      /\ DOMAIN outboundMessageQueues = {zeroID} /\ outboundMessageQueues[zeroID] = {}
  BY DEF Init
<1>2. zeroID \in PathIds
  BY MessageAssumption
<1>3. /\ outboundQueue \in Seq(Msgs) /\ roundRobinOrder \in Seq(PathIds)
      /\ Len(roundRobinOrder) = 0
      /\ informed \in [Msgs -> Nat]
  BY DEF Init
<1>4. /\ \A r \in DOMAIN pendingSessionMessageQueues :
            pendingSessionMessageQueues[r] \subseteq Msgs
      /\ \A p \in DOMAIN recentlyRemovedPaths : recentlyRemovedPaths[p] \in 0..RemovedInterval
      /\ \A p \in DOMAIN outboundMessageQueues : outboundMessageQueues[p] \subseteq Msgs
  BY <1>1
<1>5. unchecked \in 0..Len(roundRobinOrder) /\ consecutive_empty \in 0..Len(roundRobinOrder)
  BY <1>3 DEF Init
<1>6. pumpTriggered \in BOOLEAN /\ removedSomePaths \in BOOLEAN
  BY DEF Init
<1> QED
  BY <1>1, <1>2, <1>3, <1>4, <1>5, <1>6 DEF Init, TypeOK, LoopInv, SendStatus

LEMMA CallbackTypes ==
  ASSUME TypeOK, NEW m \in Msgs, DoCallback(m)
  PROVE  informed' \in [Msgs -> Nat]
BY DEF TypeOK, DoCallback

LEMMA SendTypes ==
  ASSUME TypeOK, NEW m \in Msgs, Send(m)
  PROVE  inLink' \subseteq Msgs /\ pumpTriggered' \in BOOLEAN /\ informed' \in [Msgs -> Nat]
<1>1. CASE DoCallback(m) /\ UNCHANGED <<inLink, pumpTriggered>>
  BY <1>1, CallbackTypes DEF TypeOK
<1>2. CASE inLink' = inLink \cup {m} /\ pumpTriggered' = TRUE /\ UNCHANGED informed
  BY <1>2 DEF TypeOK
<1> QED
  BY <1>1, <1>2 DEF Send

\* The loop over the path queues goes on with the next one.
LEMMA NextQueueTypes ==
  ASSUME TypeOK, LoopInv, pc = "roundrobin",
         NEW empty \in {1, consecutive_empty + 1}, NextQueue(empty)
  PROVE  /\ roundRobinOrder' \in Seq(PathIds) /\ pc' \in {"idle", "roundrobin"}
         /\ unchecked' \in 0..Len(roundRobinOrder)' /\ consecutive_empty' \in 0..Len(roundRobinOrder)'
         /\ LoopInv'
         /\ Head(roundRobinOrder) \in PathIds /\ roundRobinOrder # <<>>
<1>1. /\ roundRobinOrder \in Seq(PathIds) /\ consecutive_empty \in Nat
      /\ Len(roundRobinOrder) \in Nat /\ consecutive_empty < Len(roundRobinOrder)
      /\ unchecked = 0
  BY DEF TypeOK, LoopInv
<1>2. roundRobinOrder # <<>>
  BY <1>1
<1>3. /\ Rotated(roundRobinOrder) \in Seq(PathIds) /\ Len(Rotated(roundRobinOrder)) = Len(roundRobinOrder)
      /\ Head(roundRobinOrder) \in PathIds
  BY <1>1, <1>2, RotatedQueue
<1>4. empty \in Nat /\ empty <= Len(roundRobinOrder)
  BY <1>1
<1> QED
  BY <1>1, <1>2, <1>3, <1>4 DEF NextQueue, LoopInv

LEMMA TypeStep == TypeOK /\ LoopInv /\ [Next]_vars => TypeOK' /\ LoopInv'
<1> SUFFICES ASSUME TypeOK, LoopInv, [Next]_vars PROVE TypeOK' /\ LoopInv'
  OBVIOUS
<1> USE MessageAssumption, BoundAssumption
<1>1. CASE Pump
  BY <1>1 DEF TypeOK, LoopInv, Pump, Decay, queueVars, localVars, linkVars
<1>2. CASE ProcessOutboundQueue_NotEmpty
  <2> DEFINE m == Head(outboundQueue)
  <2>1. m \in Msgs /\ PathOf[m] \in PathIds /\ outboundQueue' \in Seq(Msgs)
    BY <1>2, Removed DEF TypeOK, ProcessOutboundQueue_NotEmpty
  <2> HIDE DEF m
  <2>2. CASE SkipRemoved(m)
    BY <1>2, <2>1, <2>2 DEF TypeOK, LoopInv, ProcessOutboundQueue_NotEmpty, SkipRemoved, localVars, linkVars
  <2>3. CASE SortIntoPathQueue(m)
    <3>1. informed' \in [Msgs -> Nat]
      BY <2>1, <2>3, CallbackTypes DEF SortIntoPathQueue, TypeOK
    <3>2. roundRobinOrder' \in Seq(PathIds) /\ Len(roundRobinOrder) \in Nat
          /\ Len(roundRobinOrder)' \in Nat
      BY <2>1, <2>3, Appended DEF SortIntoPathQueue, TypeOK
    <3>3. DOMAIN outboundMessageQueues' \subseteq PathIds
      BY <2>1, <2>3 DEF SortIntoPathQueue, TypeOK, WithKey
    <3>4. \A p \in DOMAIN outboundMessageQueues' : outboundMessageQueues'[p] \subseteq Msgs
      BY <2>1, <2>3 DEF SortIntoPathQueue, TypeOK, WithKey
    <3>5. unchecked' = 0 /\ consecutive_empty' = 0 /\ pc' = "process"
      BY <1>2 DEF ProcessOutboundQueue_NotEmpty, LoopInv, localVars
    <3>6. LoopInv'
      BY <3>5 DEF LoopInv
    <3>7. unchecked' \in 0..Len(roundRobinOrder)' /\ consecutive_empty' \in 0..Len(roundRobinOrder)'
      BY <3>2, <3>5
    <3> QED
      BY <1>2, <2>1, <2>3, <3>1, <3>2, <3>3, <3>4, <3>5, <3>6, <3>7
      DEF TypeOK, ProcessOutboundQueue_NotEmpty, SortIntoPathQueue, localVars, linkVars
  <2> QED
    BY <1>2, <2>2, <2>3 DEF ProcessOutboundQueue_NotEmpty, m
<1>3. CASE ProcessOutboundQueue_Empty
  BY <1>3 DEF TypeOK, LoopInv, ProcessOutboundQueue_Empty, queueVars, pathVars, localVars, linkVars
<1>4. CASE StartRoundRobin
  BY <1>4 DEF TypeOK, LoopInv, StartRoundRobin, queueVars, pathVars, linkVars
<1>5. CASE Prune
  <2>1. /\ roundRobinOrder \in Seq(PathIds) /\ unchecked \in 1..Len(roundRobinOrder)
        /\ consecutive_empty = 0 /\ Len(roundRobinOrder) \in Nat
    BY <1>5 DEF Prune, TypeOK, LoopInv
  <2>2. roundRobinOrder # <<>>
    BY <2>1
  <2>3. roundRobinOrder' \in Seq(PathIds) /\ Len(roundRobinOrder)' >= Len(roundRobinOrder) - 1
        /\ Len(roundRobinOrder)' \in Nat
    BY <1>5, <2>1, <2>2, Removed, RotatedQueue DEF Prune
  <2> QED
    BY <1>5, <2>1, <2>3 DEF TypeOK, LoopInv, Prune, queueVars, linkVars
<1>6. CASE Pruned
  <2>1. roundRobinOrder # <<>> => Len(roundRobinOrder) > 0
    BY Removed DEF TypeOK
  <2> QED
    BY <1>6, <2>1 DEF TypeOK, LoopInv, Pruned, queueVars, localVars, linkVars
<1>7. CASE SendRoundRobin_Empty
  <2>1. /\ roundRobinOrder' \in Seq(PathIds) /\ pc' \in {"idle", "roundrobin"}
        /\ unchecked' \in 0..Len(roundRobinOrder)' /\ consecutive_empty' \in 0..Len(roundRobinOrder)'
        /\ LoopInv' /\ Head(roundRobinOrder) \in PathIds
    BY <1>7, NextQueueTypes DEF SendRoundRobin_Empty
  <2>2. DOMAIN outboundMessageQueues' \subseteq PathIds
    BY <1>7, <2>1 DEF SendRoundRobin_Empty, WithKey, TypeOK
  <2>3. \A p \in DOMAIN outboundMessageQueues' : outboundMessageQueues'[p] \subseteq Msgs
    BY <1>7, <2>1 DEF SendRoundRobin_Empty, WithKey, TypeOK
  <2> QED
    BY <1>7, <2>1, <2>2, <2>3 DEF TypeOK, SendRoundRobin_Empty, NextQueue
<1>8. ASSUME NEW m \in Msgs, SendRoutingMessage(m) PROVE TypeOK' /\ LoopInv'
  BY <1>8, SendTypes DEF TypeOK, LoopInv, SendRoutingMessage, pathVars, localVars
<1>9. ASSUME NEW m \in Msgs, SendRoundRobin_Send(m) PROVE TypeOK' /\ LoopInv'
  <2>1. /\ roundRobinOrder' \in Seq(PathIds) /\ pc' \in {"idle", "roundrobin"}
        /\ unchecked' \in 0..Len(roundRobinOrder)' /\ consecutive_empty' \in 0..Len(roundRobinOrder)'
        /\ LoopInv' /\ Head(roundRobinOrder) \in PathIds
    BY <1>9, NextQueueTypes DEF SendRoundRobin_Send
  <2>2. inLink' \subseteq Msgs /\ pumpTriggered' \in BOOLEAN /\ informed' \in [Msgs -> Nat]
    BY <1>9, SendTypes DEF SendRoundRobin_Send
  <2>3. /\ DOMAIN outboundMessageQueues' \subseteq PathIds
        /\ \A p \in DOMAIN outboundMessageQueues' : outboundMessageQueues'[p] \subseteq Msgs
    BY <1>9 DEF SendRoundRobin_Send, TypeOK
  <2> QED
    BY <1>9, <2>1, <2>2, <2>3 DEF TypeOK, SendRoundRobin_Send, NextQueue
<1>10. ASSUME NEW m \in Msgs, FinalizeSessionRequest_Next(m) PROVE TypeOK' /\ LoopInv'
  <2>1. inLink' \subseteq Msgs /\ pumpTriggered' \in BOOLEAN /\ informed' \in [Msgs -> Nat]
    <3>1. CASE movedStatus = "Success" /\ Send(m)
      BY <3>1, SendTypes
    <3>2. CASE DoCallback(m) /\ UNCHANGED <<inLink, pumpTriggered>>
      BY <3>2, CallbackTypes DEF TypeOK
    <3> QED
      BY <1>10, <3>1, <3>2 DEF FinalizeSessionRequest_Next
  <2> QED
    BY <1>10, <2>1 DEF TypeOK, LoopInv, FinalizeSessionRequest_Next, SendStatus, queueVars, pathVars
<1>11. ASSUME NEW m \in Msgs, QueueMessage(m) PROVE TypeOK' /\ LoopInv'
  <2>1. pumpTriggered' \in BOOLEAN
    BY <1>11 DEF QueueMessage, TypeOK
  <2>2. /\ outboundQueue' \in Seq(Msgs) /\ requested' \subseteq Routers
        /\ informed' \in [Msgs -> Nat]
        /\ DOMAIN pendingSessionMessageQueues' \subseteq Routers
        /\ \A r \in DOMAIN pendingSessionMessageQueues' :
             pendingSessionMessageQueues'[r] \subseteq Msgs
    <3>1. CASE QueueOutboundMessage(m)
      <4>1. informed' \in [Msgs -> Nat]
        BY <3>1, CallbackTypes DEF QueueOutboundMessage, TypeOK
      <4>2. outboundQueue' \in Seq(Msgs)
        <5>1. outboundQueue' = outboundQueue \/ outboundQueue' = Append(outboundQueue, m)
          BY <3>1 DEF QueueOutboundMessage
        <5>2. outboundQueue \in Seq(Msgs)
          BY DEF TypeOK
        <5>3. Append(outboundQueue, m) \in Seq(Msgs)
          BY <5>2
        <5> QED
          BY <5>1, <5>2, <5>3
      <4> QED
        BY <3>1, <4>1, <4>2 DEF QueueOutboundMessage, TypeOK
    <3>2. CASE QueuePendingSession(m)
      BY <3>2 DEF QueuePendingSession, WithKey, TypeOK
    <3>3. CASE InvalidDestination(m)
      BY <3>3, CallbackTypes DEF InvalidDestination, TypeOK
    <3> QED
      BY <1>11, <3>1, <3>2, <3>3 DEF QueueMessage
  <2> QED
    BY <1>11, <2>1, <2>2 DEF TypeOK, LoopInv, QueueMessage, pathVars, localVars
<1>12. ASSUME NEW m \in Msgs, LinkStatus(m) PROVE TypeOK' /\ LoopInv'
  BY <1>12 DEF TypeOK, LoopInv, LinkStatus, DoCallback, queueVars, pathVars, localVars
<1>13. ASSUME NEW p \in PathIds, RemovePath(p) PROVE TypeOK' /\ LoopInv'
  BY <1>13 DEF TypeOK, LoopInv, RemovePath, WithKey, Without, localVars, linkVars
<1>14. ASSUME NEW r \in Routers, SessionEstablished(r) PROVE TypeOK' /\ LoopInv'
  BY <1>14 DEF TypeOK, LoopInv, SessionEstablished, queueVars, pathVars, localVars
<1>15. ASSUME NEW r \in Routers, SessionClosed(r) PROVE TypeOK' /\ LoopInv'
  BY <1>15 DEF TypeOK, LoopInv, SessionClosed, queueVars, pathVars, localVars
<1>16. ASSUME NEW r \in Routers, NEW status \in SendStatus, OnSessionResult(r, status)
       PROVE  TypeOK' /\ LoopInv'
  BY <1>16 DEF TypeOK, LoopInv, OnSessionResult, Without, pathVars
<1>17. CASE LinkActivity
  BY <1>17 DEF TypeOK, LoopInv, LinkActivity, queueVars, pathVars, localVars, linkVars
<1>18. CASE Elapse
  BY <1>18 DEF TypeOK, LoopInv, Elapse, queueVars, localVars, linkVars
<1>19. CASE UNCHANGED vars
  BY <1>19 DEF TypeOK, LoopInv, vars, queueVars, pathVars, localVars, linkVars
<1> QED
  BY <1>1, <1>2, <1>3, <1>4, <1>5, <1>6, <1>7, <1>8, <1>9, <1>10, <1>11, <1>12, <1>13,
     <1>14, <1>15, <1>16, <1>17, <1>18, <1>19 DEF Next, LoopStep

-----------------------------------------------------------------------------
(* Turns                                                                   *)

\* The queues and the order they have their turns in, as TurnPerLiveQueue says,
\* for any three values of them.
LEMMA TurnsUnchanged ==
  ASSUME TurnPerLiveQueue, UNCHANGED <<roundRobinOrder, removed>>,
         DOMAIN outboundMessageQueues' = DOMAIN outboundMessageQueues,
         removedSomePaths' = removedSomePaths
  PROVE  TurnPerLiveQueue'
BY DEF TurnPerLiveQueue

LEMMA TurnInit == Init => TurnInv
<1> SUFFICES ASSUME Init PROVE TurnInv
  OBVIOUS
<1>1. roundRobinOrder = <<>> /\ DOMAIN roundRobinOrder = {} /\ Len(outboundQueue) = 0
  BY DEF Init
<1>2. Range(roundRobinOrder) = {} /\ IsInjective(roundRobinOrder)
  BY <1>1 DEF Range, IsInjective
<1>3. DOMAIN outboundMessageQueues = {zeroID} /\ removed = {}
  BY DEF Init
<1>4. TurnPerLiveQueue
  BY <1>2, <1>3 DEF TurnPerLiveQueue
<1> QED
  BY <1>1, <1>2, <1>3, <1>4 DEF Init, TurnInv

\* A step of another loop that leaves the queues' names, their order and outboundQueue
\* alone, and does not forget that the pump was triggered.
LEMMA TurnKept ==
  ASSUME TurnInv,
         UNCHANGED <<roundRobinOrder, removed, removedSomePaths, recentlyRemovedPaths, outboundQueue>>,
         DOMAIN outboundMessageQueues' = DOMAIN outboundMessageQueues,
         pc' = pc \/ (pc \in {"idle", "finalize"} /\ pc' \in {"idle", "finalize"}),
         pumpTriggered = TRUE => pumpTriggered' = TRUE,
         unchecked' = unchecked
  PROVE  TurnInv'
<1>1. TurnPerLiveQueue'
  BY TurnsUnchanged DEF TurnInv
<1>2. \A p : InUse(p)' <=> InUse(p)
  BY DEF InUse
<1>3. \A p : Remembered(p)' <=> Remembered(p)
  BY DEF Remembered
<1> QED
  BY <1>1, <1>2, <1>3 DEF TurnInv

\* ProcessOutboundQueue looks the next message's path up, and makes a queue and a turn
\* for a path that has none.
LEMMA TurnProcess ==
  ASSUME TypeOK, TurnInv, ProcessOutboundQueue_NotEmpty
  PROVE  TurnInv'
<1> DEFINE m == Head(outboundQueue)
           p == PathOf[m]
<1>1. /\ m \in Msgs /\ p \in PathIds /\ m = outboundQueue[1] /\ Len(outboundQueue) > 0
      /\ Len(outboundQueue') = Len(outboundQueue) - 1 /\ Len(outboundQueue) \in Nat
      /\ \A i \in 1..(Len(outboundQueue) - 1) : outboundQueue'[i] = outboundQueue[i + 1]
  BY MessageAssumption, Removed DEF TypeOK, ProcessOutboundQueue_NotEmpty
<1>2. /\ pc = "process" /\ pc' = "process"
      /\ UNCHANGED <<removed, recentlyRemovedPaths, removedSomePaths, unchecked>>
  BY DEF ProcessOutboundQueue_NotEmpty, localVars
<1>3. \A i \in 1..Len(outboundQueue) : Remembered(PathOf[outboundQueue[i]])
  BY <1>2 DEF TurnInv
<1>4. (\A i \in 1..Len(outboundQueue) : Remembered(PathOf[outboundQueue[i]]))'
  <2>1. \A q : Remembered(q)' <=> Remembered(q)
    BY <1>2 DEF Remembered
  <2>2. \A i \in 1..Len(outboundQueue') : Remembered(PathOf[outboundQueue[i + 1]])
    BY <1>1, <1>3
  <2> QED
    BY <1>1, <2>1, <2>2
<1>5. Remembered(p)
  BY <1>1, <1>3
<1> HIDE DEF p, m
<1>6. CASE SkipRemoved(m)
  <2>1. UNCHANGED <<outboundMessageQueues, roundRobinOrder>>
    BY <1>6 DEF SkipRemoved
  <2>2. TurnPerLiveQueue'
    BY <1>2, <2>1, TurnsUnchanged DEF TurnInv
  <2> QED
    BY <1>2, <1>4, <2>1, <2>2 DEF TurnInv
<1>7. CASE SortIntoPathQueue(m)
  <2>1. p \notin removed
    BY <1>5, <1>7 DEF SortIntoPathQueue, Remembered, p
  <2>2. DOMAIN outboundMessageQueues' = DOMAIN outboundMessageQueues \cup {p}
    BY <1>7 DEF SortIntoPathQueue, WithKey, p
  <2>3. CASE p \in DOMAIN outboundMessageQueues \/ p = zeroID
    <3>1. UNCHANGED roundRobinOrder /\ DOMAIN outboundMessageQueues' = DOMAIN outboundMessageQueues
      BY <1>7, <2>2, <2>3 DEF SortIntoPathQueue, TurnInv, p
    <3>2. TurnPerLiveQueue'
      BY <1>2, <3>1, TurnsUnchanged DEF TurnInv
    <3> QED
      BY <1>2, <1>4, <3>1, <3>2 DEF TurnInv
  <2>4. CASE p \notin DOMAIN outboundMessageQueues /\ p # zeroID
    <3>1. roundRobinOrder' = Append(roundRobinOrder, p)
      BY <1>7, <2>4 DEF SortIntoPathQueue, p
    <3>2. p \notin Range(roundRobinOrder) /\ roundRobinOrder \in Seq(PathIds)
      BY <2>1, <2>4 DEF TurnInv, TypeOK
    <3>3. /\ Range(roundRobinOrder') = Range(roundRobinOrder) \cup {p}
          /\ IsInjective(roundRobinOrder')
      BY <1>1, <3>1, <3>2, Appended DEF TurnInv, TurnPerLiveQueue
    <3>4. TurnPerLiveQueue'
      BY <1>2, <2>1, <2>2, <2>4, <3>3 DEF TurnInv, TurnPerLiveQueue
    <3> QED
      BY <1>2, <1>4, <2>2, <3>3, <3>4 DEF TurnInv
  <2> QED
    BY <2>3, <2>4
<1> QED
  BY <1>6, <1>7 DEF ProcessOutboundQueue_NotEmpty, m

\* The pruning loop drops entries without a queue only.
LEMMA TurnPrune ==
  ASSUME TypeOK, TurnInv, Prune
  PROVE  TurnInv'
<1> DEFINE p == Head(roundRobinOrder)
<1>1. /\ pc = "prune" /\ pc' = "prune" /\ unchecked > 0 /\ unchecked' = unchecked - 1
      /\ UNCHANGED <<removed, recentlyRemovedPaths, removedSomePaths, outboundMessageQueues,
                     outboundQueue>>
  BY DEF Prune, queueVars
<1>2. /\ roundRobinOrder \in Seq(PathIds) /\ unchecked \in 1..Len(roundRobinOrder)
      /\ Len(roundRobinOrder) \in Nat
  BY <1>1 DEF TypeOK
<1>3. roundRobinOrder # <<>>
  BY <1>2
<1>4. \A i \in unchecked + 1 .. Len(roundRobinOrder) :
        roundRobinOrder[i] \in DOMAIN outboundMessageQueues
  BY <1>1 DEF TurnInv
<1>5. \A i \in 1..Len(outboundQueue) : FALSE
  BY <1>1 DEF TurnInv
<1>6. CASE p \in DOMAIN outboundMessageQueues
  <2>1. roundRobinOrder' = Rotated(roundRobinOrder)
    BY <1>6 DEF Prune
  <2>2. /\ Len(roundRobinOrder') = Len(roundRobinOrder)
        /\ \A i \in 1..(Len(roundRobinOrder) - 1) : roundRobinOrder'[i] = roundRobinOrder[i + 1]
        /\ roundRobinOrder'[Len(roundRobinOrder)] = p
        /\ Range(roundRobinOrder') = Range(roundRobinOrder)
        /\ IsInjective(roundRobinOrder')
    BY <1>2, <1>3, <2>1, RotatedQueue DEF TurnInv, TurnPerLiveQueue
  <2> HIDE DEF p
  <2>3. \A i \in unchecked' + 1 .. Len(roundRobinOrder') :
          roundRobinOrder'[i] \in DOMAIN outboundMessageQueues'
    BY <1>1, <1>2, <1>4, <1>6, <2>2
  <2>4. TurnPerLiveQueue'
    BY <1>1, <2>2 DEF TurnInv, TurnPerLiveQueue
  <2> QED
    BY <1>1, <1>5, <2>2, <2>3, <2>4 DEF TurnInv
<1>7. CASE p \notin DOMAIN outboundMessageQueues
  <2>1. roundRobinOrder' = Tail(roundRobinOrder)
    BY <1>7 DEF Prune
  <2>2. /\ Len(roundRobinOrder') = Len(roundRobinOrder) - 1
        /\ \A i \in 1..(Len(roundRobinOrder) - 1) : roundRobinOrder'[i] = roundRobinOrder[i + 1]
        /\ Range(roundRobinOrder) = Range(roundRobinOrder') \cup {p}
        /\ IsInjective(roundRobinOrder')
    BY <1>2, <1>3, <2>1, Removed DEF TurnInv, TurnPerLiveQueue
  <2> HIDE DEF p
  <2>3. \A i \in unchecked' + 1 .. Len(roundRobinOrder') :
          roundRobinOrder'[i] \in DOMAIN outboundMessageQueues'
    BY <1>1, <1>2, <1>4, <2>2
  <2>4. TurnPerLiveQueue'
    BY <1>1, <1>7, <2>2 DEF TurnInv, TurnPerLiveQueue
  <2> QED
    BY <1>1, <1>5, <2>2, <2>3, <2>4 DEF TurnInv
<1> QED
  BY <1>6, <1>7

\* The loop over the path queues finds a queue at every turn, and makes none.
LEMMA TurnRoundRobin ==
  ASSUME TypeOK, LoopInv, TurnInv, pc = "roundrobin",
         NEW empty, NextQueue(empty),
         DOMAIN outboundMessageQueues' = DOMAIN outboundMessageQueues \cup {Head(roundRobinOrder)}
           \/ DOMAIN outboundMessageQueues' = DOMAIN outboundMessageQueues
  PROVE  TurnInv'
<1>1. roundRobinOrder \in Seq(PathIds) /\ Len(roundRobinOrder) > 0
  BY DEF TypeOK, LoopInv
<1>2. roundRobinOrder # <<>>
  BY <1>1
<1>3. /\ roundRobinOrder' = Rotated(roundRobinOrder) /\ pc' \in {"idle", "roundrobin"}
      /\ UNCHANGED <<outboundQueue, recentlyRemovedPaths, removedSomePaths, removed, unchecked>>
  BY DEF NextQueue
<1>4. Range(roundRobinOrder') = Range(roundRobinOrder) /\ IsInjective(roundRobinOrder')
  BY <1>1, <1>2, <1>3, RotatedQueue DEF TurnInv, TurnPerLiveQueue
<1>5. Head(roundRobinOrder) \in Range(roundRobinOrder)
  BY <1>1, <1>2, Removed
<1>6. removedSomePaths = FALSE
  BY DEF TurnInv
<1>7. DOMAIN outboundMessageQueues' = DOMAIN outboundMessageQueues
  BY <1>5, <1>6 DEF TurnInv, TurnPerLiveQueue
<1>8. TurnPerLiveQueue'
  BY <1>3, <1>4, <1>7 DEF TurnInv, TurnPerLiveQueue
<1>9. \A i \in 1..Len(outboundQueue) : FALSE
  BY DEF TurnInv
<1> QED
  BY <1>3, <1>4, <1>6, <1>7, <1>8, <1>9 DEF TurnInv

\* A message is queued by a path that is in use, and triggers the pump.
LEMMA TurnQueueMessage ==
  ASSUME TypeOK, TurnInv, NEW m \in Msgs, QueueMessage(m)
  PROVE  TurnInv'
<1>1. /\ pc = "idle" /\ pc' = "idle" /\ InUse(PathOf[m])
      /\ PathOf[m] # zeroID => pumpTriggered' = TRUE
      /\ pumpTriggered = TRUE => pumpTriggered' = TRUE
      /\ UNCHANGED <<roundRobinOrder, removed, removedSomePaths, recentlyRemovedPaths,
                     outboundMessageQueues, unchecked>>
  BY DEF QueueMessage, pathVars, localVars
<1>2. TurnPerLiveQueue'
  BY <1>1, TurnsUnchanged DEF TurnInv
<1>3. outboundQueue' = outboundQueue \/ outboundQueue' = Append(outboundQueue, m)
  BY DEF QueueMessage, QueueOutboundMessage, QueuePendingSession, InvalidDestination
<1>4. \A p : InUse(p)' <=> InUse(p)
  BY <1>1 DEF InUse
<1>5. \A i \in 1..Len(outboundQueue') :
        \/ outboundQueue'[i] = m
        \/ i \in 1..Len(outboundQueue) /\ outboundQueue'[i] = outboundQueue[i]
  <2>1. outboundQueue \in Seq(Msgs) /\ Len(outboundQueue) \in Nat
    BY DEF TypeOK
  <2>2. /\ Len(Append(outboundQueue, m)) = Len(outboundQueue) + 1
        /\ \A i \in 1..Len(outboundQueue) : Append(outboundQueue, m)[i] = outboundQueue[i]
        /\ Append(outboundQueue, m)[Len(outboundQueue) + 1] = m
    BY <2>1, Appended
  <2> QED
    BY <1>3, <2>1, <2>2
<1>6. \A i \in 1..Len(outboundQueue) :
        \/ PathOf[outboundQueue[i]] = zeroID
        \/ pumpTriggered = TRUE /\ InUse(PathOf[outboundQueue[i]])
  BY <1>1 DEF TurnInv
<1>7. (\A i \in 1..Len(outboundQueue) :
        \/ PathOf[outboundQueue[i]] = zeroID
        \/ pumpTriggered = TRUE /\ InUse(PathOf[outboundQueue[i]]))'
  BY <1>1, <1>4, <1>5, <1>6
<1> QED
  BY <1>1, <1>2, <1>7 DEF TurnInv

\* A removed path is remembered from now on for as long as it may queue messages.
LEMMA TurnRemovePath ==
  ASSUME TypeOK, TurnInv, NEW q \in PathIds, RemovePath(q)
  PROVE  TurnInv'
<1>1. /\ pc = "idle" /\ pc' = "idle" /\ q # zeroID
      /\ UNCHANGED <<roundRobinOrder, pumpTriggered, outboundQueue, unchecked>>
      /\ removed' = removed \cup {q} /\ removedSomePaths' = TRUE
  BY DEF RemovePath, localVars
<1>2. DOMAIN outboundMessageQueues' = DOMAIN outboundMessageQueues \ {q}
  BY DEF RemovePath, Without
<1>3. TurnPerLiveQueue'
  BY <1>1, <1>2 DEF TurnInv, TurnPerLiveQueue
<1>4. \A p : InUse(p) => InUse(p)'
  BY <1>1, BoundAssumption DEF InUse, RemovePath, WithKey
<1>5. (\A i \in 1..Len(outboundQueue) :
        \/ PathOf[outboundQueue[i]] = zeroID
        \/ pumpTriggered = TRUE /\ InUse(PathOf[outboundQueue[i]]))'
  BY <1>1, <1>4 DEF TurnInv
<1> QED
  BY <1>1, <1>2, <1>3, <1>5 DEF TurnInv

\* The turns are kept by every step.
LEMMA TurnStep == TypeOK /\ LoopInv /\ TurnInv /\ [Next]_vars => TurnInv'
<1> SUFFICES ASSUME TypeOK, LoopInv, TurnInv, [Next]_vars PROVE TurnInv'
  OBVIOUS
<1>1. CASE Pump
  <2>1. /\ pc = "idle" /\ pc' = "process"
        /\ UNCHANGED <<outboundQueue, outboundMessageQueues, roundRobinOrder, removed,
                       removedSomePaths, unchecked>>
    BY <1>1 DEF Pump, queueVars, localVars
  <2>2. TurnPerLiveQueue'
    BY <2>1, TurnsUnchanged DEF TurnInv
  <2>3. \A p : InUse(p) => Remembered(p)'
    BY <1>1, <2>1 DEF InUse, Remembered, Pump, Decay
  <2>4. Remembered(zeroID)'
    BY <2>1 DEF TurnInv, Remembered
  <2>5. (\A i \in 1..Len(outboundQueue) : Remembered(PathOf[outboundQueue[i]]))'
    BY <2>1, <2>3, <2>4 DEF TurnInv
  <2> QED
    BY <2>1, <2>2, <2>5 DEF TurnInv
<1>2. CASE ProcessOutboundQueue_NotEmpty
  BY <1>2, TurnProcess
<1>3. CASE ProcessOutboundQueue_Empty
  <2>1. /\ pc' = "routing" /\ Len(outboundQueue') = 0
        /\ UNCHANGED <<outboundMessageQueues, roundRobinOrder, removed, removedSomePaths,
                       unchecked>>
    BY <1>3 DEF ProcessOutboundQueue_Empty, queueVars, pathVars, localVars
  <2>2. TurnPerLiveQueue'
    BY <2>1, TurnsUnchanged DEF TurnInv
  <2> QED
    BY <2>1, <2>2 DEF TurnInv
<1>4. CASE StartRoundRobin
  <2>1. /\ pc = "routing"
        /\ UNCHANGED <<outboundQueue, outboundMessageQueues, roundRobinOrder, removed,
                       removedSomePaths>>
        /\ pc' = "prune" => unchecked' = Len(roundRobinOrder)
        /\ pc' = "roundrobin" => removedSomePaths = FALSE
        /\ Len(roundRobinOrder) \in Nat
    BY <1>4 DEF StartRoundRobin, queueVars, pathVars, TypeOK
  <2>2. TurnPerLiveQueue'
    BY <2>1, TurnsUnchanged DEF TurnInv
  <2>3. \A i \in 1..Len(outboundQueue) : FALSE
    BY <2>1 DEF TurnInv
  <2> QED
    BY <2>1, <2>2, <2>3 DEF TurnInv
<1>5. CASE Prune
  BY <1>5, TurnPrune
<1>6. CASE Pruned
  <2>1. /\ pc = "prune" /\ pc' \in {"idle", "roundrobin"} /\ unchecked = 0
        /\ removedSomePaths' = FALSE
        /\ UNCHANGED <<outboundQueue, outboundMessageQueues, roundRobinOrder, removed>>
    BY <1>6 DEF Pruned, queueVars
  <2>2. Range(roundRobinOrder) \subseteq DOMAIN outboundMessageQueues
    <3>1. \A i \in 1..Len(roundRobinOrder) : roundRobinOrder[i] \in DOMAIN outboundMessageQueues
      BY <2>1 DEF TurnInv
    <3>2. DOMAIN roundRobinOrder = 1..Len(roundRobinOrder)
      BY DEF TypeOK
    <3> QED
      BY <3>1, <3>2 DEF Range
  <2>3. TurnPerLiveQueue'
    BY <2>1, <2>2 DEF TurnInv, TurnPerLiveQueue
  <2>4. \A i \in 1..Len(outboundQueue) : FALSE
    BY <2>1 DEF TurnInv
  <2> QED
    BY <2>1, <2>3, <2>4 DEF TurnInv
<1>7. CASE SendRoundRobin_Empty
  <2>1. pc = "roundrobin" /\ NextQueue(consecutive_empty + 1)
    BY <1>7 DEF SendRoundRobin_Empty
  <2>2. DOMAIN outboundMessageQueues' = DOMAIN outboundMessageQueues \cup {Head(roundRobinOrder)}
    BY <1>7 DEF SendRoundRobin_Empty, WithKey
  <2> QED
    BY <2>1, <2>2, TurnRoundRobin
<1>8. ASSUME NEW m \in Msgs, SendRoutingMessage(m) PROVE TurnInv'
  BY <1>8, TurnKept DEF SendRoutingMessage, Send, pathVars, localVars
<1>9. ASSUME NEW m \in Msgs, SendRoundRobin_Send(m) PROVE TurnInv'
  <2>1. pc = "roundrobin" /\ NextQueue(1)
    BY <1>9 DEF SendRoundRobin_Send
  <2>2. DOMAIN outboundMessageQueues' = DOMAIN outboundMessageQueues
    BY <1>9 DEF SendRoundRobin_Send
  <2> QED
    BY <2>1, <2>2, TurnRoundRobin
<1>10. ASSUME NEW m \in Msgs, FinalizeSessionRequest_Next(m) PROVE TurnInv'
  BY <1>10, TurnKept DEF FinalizeSessionRequest_Next, Send, queueVars, pathVars
<1>11. ASSUME NEW m \in Msgs, QueueMessage(m) PROVE TurnInv'
  BY <1>11, TurnQueueMessage
<1>12. ASSUME NEW m \in Msgs, LinkStatus(m) PROVE TurnInv'
  BY <1>12, TurnKept DEF LinkStatus, queueVars, pathVars, localVars
<1>13. ASSUME NEW p \in PathIds, RemovePath(p) PROVE TurnInv'
  BY <1>13, TurnRemovePath
<1>14. ASSUME NEW r \in Routers, SessionEstablished(r) PROVE TurnInv'
  BY <1>14, TurnKept DEF SessionEstablished, queueVars, pathVars, localVars
<1>15. ASSUME NEW r \in Routers, SessionClosed(r) PROVE TurnInv'
  BY <1>15, TurnKept DEF SessionClosed, queueVars, pathVars, localVars
<1>16. ASSUME NEW r \in Routers, NEW status \in SendStatus, OnSessionResult(r, status)
       PROVE  TurnInv'
  BY <1>16, TurnKept DEF OnSessionResult, pathVars
<1>17. CASE LinkActivity
  BY <1>17, TurnKept DEF LinkActivity, queueVars, pathVars, localVars
<1>18. CASE Elapse
  <2>1. /\ pc = "idle" /\ pc' = "idle" /\ pumpTriggered # TRUE
        /\ UNCHANGED <<outboundQueue, outboundMessageQueues, roundRobinOrder, removed,
                       removedSomePaths, unchecked>>
    BY <1>18 DEF Elapse, queueVars, localVars
  <2>2. TurnPerLiveQueue'
    BY <2>1, TurnsUnchanged DEF TurnInv
  <2>3. \A i \in 1..Len(outboundQueue) : PathOf[outboundQueue[i]] = zeroID
    BY <2>1 DEF TurnInv
  <2> QED
    BY <2>1, <2>2, <2>3 DEF TurnInv
<1>19. CASE UNCHANGED vars
  BY <1>19, TurnKept DEF vars, queueVars, pathVars, localVars
<1> QED
  BY <1>1, <1>2, <1>3, <1>4, <1>5, <1>6, <1>7, <1>8, <1>9, <1>10, <1>11, <1>12, <1>13,
     <1>14, <1>15, <1>16, <1>17, <1>18, <1>19 DEF Next, LoopStep

-----------------------------------------------------------------------------
(* Places                                                                  *)

\* The step leaves k where it is.
Stays(k) ==
  /\ InQueue(k)' <=> InQueue(k)
  /\ InSessionQueue(k)' <=> InSessionQueue(k)
  /\ InPathQueue(k)' <=> InPathQueue(k)
  /\ k \in movedMessages' <=> k \in movedMessages
  /\ k \in inLink' <=> k \in inLink
  /\ k \in forgotten' <=> k \in forgotten
  /\ informed'[k] = informed[k]

\* A message that stays is somewhere after the step.
LEMMA StaysSomewhere ==
  ASSUME EveryoneSomewhere, NEW k \in Msgs, Stays(k)
  PROVE  \E w \in Places : OnlyIn(k, w)'
<1>1. PICK w \in Places : OnlyIn(k, w)
  BY DEF EveryoneSomewhere
<1>2. OnlyIn(k, w)'
  BY <1>1 DEF OnlyIn, Stays
<1> QED
  BY <1>2

\* A step moves one message to a place and leaves the others where they are.
LEMMA OneMoved ==
  ASSUME EveryoneSomewhere, NEW m \in Msgs, NEW place \in Places,
         \A k \in Msgs \ {m} : Stays(k), OnlyIn(m, place)'
  PROVE  EveryoneSomewhere'
<1> SUFFICES ASSUME NEW k \in Msgs PROVE \E w \in Places : OnlyIn(k, w)'
  BY DEF EveryoneSomewhere
<1>1. CASE k = m
  BY <1>1
<1>2. CASE k # m
  BY <1>2, StaysSomewhere
<1> QED
  BY <1>1, <1>2

\* A step moves a set of messages.
LEMMA SomeMoved ==
  ASSUME EveryoneSomewhere, NEW S, NEW place \in Places,
         \A k \in Msgs \ S : Stays(k),
         \A k \in Msgs \cap S : OnlyIn(k, place)'
  PROVE  EveryoneSomewhere'
<1> SUFFICES ASSUME NEW k \in Msgs PROVE \E w \in Places : OnlyIn(k, w)'
  BY DEF EveryoneSomewhere
<1>1. CASE k \in S
  BY <1>1
<1>2. CASE k \notin S
  BY <1>2, StaysSomewhere
<1> QED
  BY <1>1, <1>2

\* A message that is in one place is in no other.
LEMMA IsOnlyIn ==
  ASSUME EveryoneSomewhere, NEW m \in Msgs
  PROVE  /\ InQueue(m) => OnlyIn(m, "queue")
         /\ InSessionQueue(m) => OnlyIn(m, "session")
         /\ InPathQueue(m) => OnlyIn(m, "path")
         /\ m \in movedMessages => OnlyIn(m, "moved")
         /\ m \in inLink => OnlyIn(m, "link")
BY DEF EveryoneSomewhere, OnlyIn

\* A message that was never queued is nowhere.
LEMMA NotQueued ==
  ASSUME TypeOK, EveryoneSomewhere, NEW m \in Msgs, m \notin Queued
  PROVE  OnlyIn(m, "nowhere")
<1>1. PICK w \in Places : OnlyIn(m, w)
  BY DEF EveryoneSomewhere
<1> DEFINE told == {k \in Msgs : informed[k] > 0}
           queued == Range(outboundQueue)
           waiting == UNION Range(pendingSessionMessageQueues)
           sorted == UNION Range(outboundMessageQueues)
<1>2. m \notin told \cup queued \cup waiting \cup sorted \cup movedMessages \cup inLink \cup forgotten
  BY DEF Queued
<1>3. /\ m \notin told /\ m \notin queued /\ m \notin waiting /\ m \notin sorted
      /\ m \notin movedMessages /\ m \notin inLink /\ m \notin forgotten
  <2> HIDE DEF told, queued, waiting, sorted
  <2> QED
    BY <1>2
<1>4. ~InQueue(m)
  <2>1. DOMAIN outboundQueue = 1..Len(outboundQueue)
    BY DEF TypeOK
  <2> QED
    BY <1>3, <2>1 DEF InQueue, Range
<1>5. ~InSessionQueue(m)
  BY <1>3 DEF InSessionQueue, Range
<1>6. ~InPathQueue(m)
  BY <1>3 DEF InPathQueue, Range
<1>7. informed[m] = 0
  BY <1>3 DEF TypeOK
<1> QED
  BY <1>1, <1>3, <1>4, <1>5, <1>6, <1>7 DEF OnlyIn, Places

\* LinkManager::SendTo puts the handler into the session or calls it.
LEMMA Sent ==
  ASSUME TypeOK, NEW m \in Msgs, Send(m)
  PROVE  \/ inLink' = inLink \cup {m} /\ informed' = informed
         \/ inLink' = inLink /\ informed' = [informed EXCEPT ![m] = @ + 1]
BY DEF Send, DoCallback

LEMMA PlaceInit == Init => PlaceInv
<1> SUFFICES ASSUME Init PROVE PlaceInv
  OBVIOUS
<1>1. /\ Len(outboundQueue) = 0 /\ DOMAIN outboundQueue = {}
      /\ DOMAIN pendingSessionMessageQueues = {}
      /\ DOMAIN outboundMessageQueues = {zeroID} /\ outboundMessageQueues[zeroID] = {}
  BY DEF Init
<1>2. \A m \in Msgs : OnlyIn(m, "nowhere")
  <2> TAKE m \in Msgs
  <2>1. ~InQueue(m) /\ ~InSessionQueue(m) /\ ~InPathQueue(m)
    BY <1>1 DEF InQueue, InSessionQueue, InPathQueue
  <2>2. m \notin movedMessages \cup inLink \cup forgotten /\ informed[m] = 0
    BY DEF Init
  <2> QED
    BY <2>1, <2>2 DEF OnlyIn
<1>3. \A m \in Msgs : \E w \in Places : OnlyIn(m, w)
  BY <1>2 DEF Places
<1>4. IsInjective(outboundQueue)
  BY <1>1 DEF IsInjective
<1> QED
  BY <1>1, <1>3, <1>4 DEF Init, PlaceInv, EveryoneSomewhere

\* A step that moves no message.
LEMMA PlaceKept ==
  ASSUME PlaceInv,
         UNCHANGED <<queueVars, movedMessages, inLink, forgotten, informed, requested>>,
         pc' = pc \/ pc # "finalize"
  PROVE  PlaceInv'
<1>1. \A k \in Msgs : Stays(k)
  BY DEF Stays, InQueue, InSessionQueue, InPathQueue, queueVars
<1>2. EveryoneSomewhere'
  BY <1>1, StaysSomewhere DEF PlaceInv, EveryoneSomewhere
<1> QED
  BY <1>2 DEF PlaceInv, queueVars

\* QueueMessage puts a message that was nowhere into a queue, or calls its handler.
LEMMA PlaceQueueMessage ==
  ASSUME TypeOK, PlaceInv, NEW m \in Msgs, QueueMessage(m)
  PROVE  PlaceInv'
<1>1. /\ pc' = pc
      /\ UNCHANGED <<outboundMessageQueues, movedMessages, inLink, forgotten>>
  BY DEF QueueMessage, localVars
<1>2. OnlyIn(m, "nowhere")
  BY NotQueued DEF QueueMessage, PlaceInv
<1>3. \A k \in Msgs : InPathQueue(k)' <=> InPathQueue(k)
  BY <1>1 DEF InPathQueue
<1>4. CASE UNCHANGED <<outboundQueue, pendingSessionMessageQueues, requested>> /\ DoCallback(m)
  <2>1. informed' = [informed EXCEPT ![m] = 1]
    BY <1>2, <1>4 DEF DoCallback, OnlyIn
  <2>2. \A k \in Msgs : /\ InQueue(k)' <=> InQueue(k)
                        /\ InSessionQueue(k)' <=> InSessionQueue(k)
    BY <1>4 DEF InQueue, InSessionQueue
  <2>3. \A k \in Msgs \ {m} : Stays(k)
    BY <1>1, <1>3, <2>1, <2>2 DEF Stays, TypeOK
  <2>4. OnlyIn(m, "told")'
    BY <1>1, <1>2, <1>3, <2>1, <2>2 DEF OnlyIn, TypeOK
  <2>5. EveryoneSomewhere'
    <3>1. "told" \in Places
      BY DEF Places
    <3> QED
      BY <2>3, <2>4, <3>1, OneMoved DEF PlaceInv
  <2> QED
    BY <1>1, <1>4, <2>5 DEF PlaceInv
<1>5. CASE /\ outboundQueue' = Append(outboundQueue, m)
           /\ UNCHANGED <<pendingSessionMessageQueues, requested, informed>>
  <2>1. outboundQueue \in Seq(Msgs) /\ DOMAIN outboundQueue = 1..Len(outboundQueue)
    BY DEF TypeOK
  <2>2. m \notin Range(outboundQueue)
    BY <1>2, <2>1 DEF OnlyIn, InQueue, Range
  <2>3. /\ Range(outboundQueue') = Range(outboundQueue) \cup {m}
        /\ outboundQueue' \in Seq(Msgs) /\ IsInjective(outboundQueue')
    BY <1>5, <2>1, <2>2, Appended DEF PlaceInv
  <2>4. DOMAIN outboundQueue' = 1..Len(outboundQueue')
    BY <2>3
  <2>5. \A k : (InQueue(k) <=> k \in Range(outboundQueue)) /\ (InQueue(k)' <=> k \in Range(outboundQueue'))
    BY <2>1, <2>4 DEF InQueue, Range
  <2>6. \A k \in Msgs : InSessionQueue(k)' <=> InSessionQueue(k)
    BY <1>5 DEF InSessionQueue
  <2>7. \A k \in Msgs \ {m} : Stays(k)
    BY <1>1, <1>3, <1>5, <2>3, <2>5, <2>6 DEF Stays
  <2>8. OnlyIn(m, "queue")'
    BY <1>1, <1>2, <1>3, <1>5, <2>3, <2>5, <2>6 DEF OnlyIn
  <2>9. EveryoneSomewhere'
    <3>1. "queue" \in Places
      BY DEF Places
    <3> QED
      BY <2>7, <2>8, <3>1, OneMoved DEF PlaceInv
  <2> QED
    BY <1>1, <1>5, <2>3, <2>9 DEF PlaceInv
<1>6. CASE QueuePendingSession(m)
  <2> DEFINE r == RouterOf[m]
             queue == IF r \notin DOMAIN pendingSessionMessageQueues
                        THEN {} ELSE pendingSessionMessageQueues[r]
  <2>1. /\ pendingSessionMessageQueues' = WithKey(pendingSessionMessageQueues, r, queue \cup {m})
        /\ requested' = IF r \notin DOMAIN pendingSessionMessageQueues
                          THEN requested \cup {r} ELSE requested
        /\ UNCHANGED <<outboundQueue, informed>>
    BY <1>6 DEF QueuePendingSession
  <2>2. /\ DOMAIN pendingSessionMessageQueues' = DOMAIN pendingSessionMessageQueues \cup {r}
        /\ pendingSessionMessageQueues'[r] = queue \cup {m}
        /\ \A x \in DOMAIN pendingSessionMessageQueues \ {r} :
             pendingSessionMessageQueues'[x] = pendingSessionMessageQueues[x]
    BY <2>1 DEF WithKey
  <2> HIDE DEF r
  <2>3. \A k \in Msgs : InSessionQueue(k)' <=> (InSessionQueue(k) \/ k = m)
    BY <2>2 DEF InSessionQueue, PlaceInv, r
  <2>4. \A k \in Msgs : InQueue(k)' <=> InQueue(k)
    BY <2>1 DEF InQueue
  <2>5. \A k \in Msgs \ {m} : Stays(k)
    BY <1>1, <1>3, <2>1, <2>3, <2>4 DEF Stays
  <2>6. OnlyIn(m, "session")'
    BY <1>1, <1>2, <1>3, <2>1, <2>3, <2>4 DEF OnlyIn
  <2>7. EveryoneSomewhere'
    <3>1. "session" \in Places
      BY DEF Places
    <3> QED
      BY <2>5, <2>6, <3>1, OneMoved DEF PlaceInv
  <2>8. requested' = DOMAIN pendingSessionMessageQueues'
    BY <2>1, <2>2 DEF PlaceInv
  <2>9. \A x \in DOMAIN pendingSessionMessageQueues' :
          \A k \in pendingSessionMessageQueues'[x] : RouterOf[k] = x
    BY <2>2 DEF PlaceInv, r
  <2> QED
    BY <1>1, <2>1, <2>7, <2>8, <2>9 DEF PlaceInv
<1> QED
  BY <1>4, <1>5, <1>6 DEF QueueMessage, QueueOutboundMessage, InvalidDestination

\* ProcessOutboundQueue takes the first message out of outboundQueue.
LEMMA PlaceProcess ==
  ASSUME TypeOK, PlaceInv, ProcessOutboundQueue_NotEmpty
  PROVE  PlaceInv'
<1>0. PICK m \in Msgs : m = Head(outboundQueue)
  BY Removed DEF TypeOK, ProcessOutboundQueue_NotEmpty
<1> DEFINE p == PathOf[m]
<1>1. /\ outboundQueue \in Seq(Msgs) /\ m \in Msgs /\ m \in Range(outboundQueue)
      /\ outboundQueue' \in Seq(Msgs)
      /\ Range(outboundQueue) = Range(outboundQueue') \cup {m}
      /\ IsInjective(outboundQueue') /\ m \notin Range(outboundQueue')
  BY <1>0, Removed DEF TypeOK, PlaceInv, ProcessOutboundQueue_NotEmpty
<1>2. /\ pc' = pc
      /\ UNCHANGED <<pendingSessionMessageQueues, requested, movedMessages, inLink>>
  BY DEF ProcessOutboundQueue_NotEmpty, localVars, linkVars
<1>3. \A k : (InQueue(k) <=> k \in Range(outboundQueue)) /\ (InQueue(k)' <=> k \in Range(outboundQueue'))
  <2>1. DOMAIN outboundQueue = 1..Len(outboundQueue) /\ DOMAIN outboundQueue' = 1..Len(outboundQueue')
    BY <1>1
  <2> QED
    BY <2>1 DEF InQueue, Range
<1>4. \A k \in Msgs : InSessionQueue(k)' <=> InSessionQueue(k)
  BY <1>2 DEF InSessionQueue
<1>5. OnlyIn(m, "queue")
  BY <1>1, <1>3, IsOnlyIn DEF PlaceInv
<1>6. SkipRemoved(m) \/ SortIntoPathQueue(m)
  BY <1>0 DEF ProcessOutboundQueue_NotEmpty
<1>7. "forgotten" \in Places /\ "told" \in Places /\ "path" \in Places
  BY DEF Places
<1> HIDE DEF p
<1>8. CASE SkipRemoved(m)
  <2>1. UNCHANGED <<outboundMessageQueues, informed>> /\ forgotten' = forgotten \cup {m}
    BY <1>8 DEF SkipRemoved
  <2>2. \A k \in Msgs : InPathQueue(k)' <=> InPathQueue(k)
    BY <2>1 DEF InPathQueue
  <2>3. \A k \in Msgs \ {m} : Stays(k)
    BY <1>1, <1>2, <1>3, <1>4, <2>1, <2>2 DEF Stays
  <2>4. OnlyIn(m, "forgotten")'
    BY <1>1, <1>2, <1>3, <1>4, <1>5, <2>1, <2>2 DEF OnlyIn
  <2>5. EveryoneSomewhere'
    BY <1>1, <1>7, <2>3, <2>4, OneMoved DEF PlaceInv
  <2> QED
    BY <1>1, <1>2, <2>1, <2>5 DEF PlaceInv
<1>9. CASE SortIntoPathQueue(m)
  <2> DEFINE queue == IF p \notin DOMAIN outboundMessageQueues THEN {} ELSE outboundMessageQueues[p]
             fits == Cardinality(queue) < MAX_PATH_QUEUE_SIZE \/ p = zeroID
  <2>1. /\ UNCHANGED forgotten
        /\ outboundMessageQueues' =
             WithKey(outboundMessageQueues, p, IF fits THEN queue \cup {m} ELSE queue)
        /\ IF fits THEN UNCHANGED informed ELSE DoCallback(m)
    BY <1>9 DEF SortIntoPathQueue, p
  <2>2. /\ DOMAIN outboundMessageQueues' = DOMAIN outboundMessageQueues \cup {p}
        /\ outboundMessageQueues'[p] = IF fits THEN queue \cup {m} ELSE queue
        /\ \A x \in DOMAIN outboundMessageQueues \ {p} :
             outboundMessageQueues'[x] = outboundMessageQueues[x]
    BY <2>1 DEF WithKey
  <2> HIDE DEF fits
  <2>3. \A x \in DOMAIN outboundMessageQueues' :
          \A k \in outboundMessageQueues'[x] : PathOf[k] = x
    BY <2>2 DEF PlaceInv, p
  <2>4. CASE fits
    <3>1. \A k \in Msgs : InPathQueue(k)' <=> (InPathQueue(k) \/ k = m)
      BY <2>2, <2>4 DEF InPathQueue, PlaceInv, p
    <3>2. \A k \in Msgs \ {m} : Stays(k)
      BY <1>1, <1>2, <1>3, <1>4, <2>1, <2>4, <3>1 DEF Stays
    <3>3. OnlyIn(m, "path")'
      BY <1>1, <1>2, <1>3, <1>4, <1>5, <2>1, <2>4, <3>1 DEF OnlyIn
    <3>4. EveryoneSomewhere'
      BY <1>1, <1>7, <3>2, <3>3, OneMoved DEF PlaceInv
    <3> QED
      BY <1>1, <1>2, <2>3, <3>4 DEF PlaceInv
  <2>5. CASE ~fits
    <3>1. \A k \in Msgs : InPathQueue(k)' <=> InPathQueue(k)
      BY <2>2, <2>5 DEF InPathQueue, PlaceInv
    <3>2. informed' = [informed EXCEPT ![m] = 1]
      BY <1>5, <2>1, <2>5 DEF DoCallback, OnlyIn
    <3>3. \A k \in Msgs \ {m} : Stays(k)
      BY <1>1, <1>2, <1>3, <1>4, <2>1, <3>1, <3>2 DEF Stays, TypeOK
    <3>4. OnlyIn(m, "told")'
      BY <1>1, <1>2, <1>3, <1>4, <1>5, <2>1, <3>1, <3>2 DEF OnlyIn, TypeOK
    <3>5. EveryoneSomewhere'
      BY <1>1, <1>7, <3>3, <3>4, OneMoved DEF PlaceInv
    <3> QED
      BY <1>1, <1>2, <2>3, <3>5 DEF PlaceInv
  <2> QED
    BY <2>4, <2>5
<1> QED
  BY <1>6, <1>8, <1>9

\* Send takes the message from the path queue q to the link layer or to its handler.
LEMMA PlaceSend ==
  ASSUME TypeOK, PlaceInv, NEW m \in Msgs, Send(m),
         NEW q \in DOMAIN outboundMessageQueues, m \in outboundMessageQueues[q],
         outboundMessageQueues' = [outboundMessageQueues EXCEPT ![q] = @ \ {m}],
         UNCHANGED <<outboundQueue, pendingSessionMessageQueues, requested, movedMessages,
                     forgotten>>,
         pc # "finalize"
  PROVE  PlaceInv'
<1>1. PathOf[m] = q
  BY DEF PlaceInv
<1>2. OnlyIn(m, "path")
  BY <1>1, IsOnlyIn DEF PlaceInv, InPathQueue
<1>3. /\ DOMAIN outboundMessageQueues' = DOMAIN outboundMessageQueues
      /\ outboundMessageQueues'[q] = outboundMessageQueues[q] \ {m}
      /\ \A x \in DOMAIN outboundMessageQueues \ {q} :
           outboundMessageQueues'[x] = outboundMessageQueues[x]
  OBVIOUS
<1>4. \A k \in Msgs : InPathQueue(k)' <=> (InPathQueue(k) /\ k # m)
  BY <1>1, <1>3 DEF InPathQueue
<1>5. \A k \in Msgs : (InQueue(k)' <=> InQueue(k)) /\ (InSessionQueue(k)' <=> InSessionQueue(k))
  BY DEF InQueue, InSessionQueue
<1>6. \/ inLink' = inLink \cup {m} /\ informed' = informed
      \/ inLink' = inLink /\ informed' = [informed EXCEPT ![m] = 1]
  BY <1>2, Sent DEF OnlyIn
<1>7. \A k \in Msgs \ {m} : Stays(k)
  BY <1>4, <1>5, <1>6 DEF Stays, TypeOK
<1>8. OnlyIn(m, "link")' \/ OnlyIn(m, "told")'
  BY <1>2, <1>4, <1>5, <1>6 DEF OnlyIn, TypeOK
<1>9. "link" \in Places /\ "told" \in Places
  BY DEF Places
<1>10. EveryoneSomewhere'
  BY <1>7, <1>8, <1>9, OneMoved DEF PlaceInv
<1> QED
  BY <1>3, <1>10 DEF PlaceInv

\* FinalizeSessionRequest sends a message of the queue it took, or calls its handler.
LEMMA PlaceFinalize ==
  ASSUME TypeOK, PlaceInv, NEW m \in Msgs, FinalizeSessionRequest_Next(m)
  PROVE  PlaceInv'
<1>1. /\ m \in movedMessages /\ movedMessages' = movedMessages \ {m}
      /\ pc' # "finalize" => movedMessages' = {}
      /\ UNCHANGED <<queueVars, requested, forgotten>>
      /\ \/ Send(m)
         \/ DoCallback(m) /\ UNCHANGED inLink
  BY DEF FinalizeSessionRequest_Next, Top
<1>2. OnlyIn(m, "moved")
  BY <1>1, IsOnlyIn DEF PlaceInv
<1>3. \A k \in Msgs : /\ InQueue(k)' <=> InQueue(k)
                      /\ InSessionQueue(k)' <=> InSessionQueue(k)
                      /\ InPathQueue(k)' <=> InPathQueue(k)
  BY <1>1 DEF InQueue, InSessionQueue, InPathQueue, queueVars
<1>4. \/ inLink' = inLink \cup {m} /\ informed' = informed
      \/ inLink' = inLink /\ informed' = [informed EXCEPT ![m] = 1]
  BY <1>1, <1>2, Sent DEF OnlyIn, DoCallback
<1>5. \A k \in Msgs \ {m} : Stays(k)
  BY <1>1, <1>3, <1>4 DEF Stays, TypeOK
<1>6. OnlyIn(m, "link")' \/ OnlyIn(m, "told")'
  BY <1>1, <1>2, <1>3, <1>4 DEF OnlyIn, TypeOK
<1>7. "link" \in Places /\ "told" \in Places
  BY DEF Places
<1>8. EveryoneSomewhere'
  BY <1>5, <1>6, <1>7, OneMoved DEF PlaceInv
<1> QED
  BY <1>1, <1>8 DEF PlaceInv, queueVars

\* The link layer calls a handler it holds.
LEMMA PlaceLinkStatus ==
  ASSUME TypeOK, PlaceInv, NEW m \in Msgs, LinkStatus(m)
  PROVE  PlaceInv'
<1>1. /\ m \in inLink /\ inLink' = inLink \ {m} /\ pc' = pc
      /\ UNCHANGED <<queueVars, requested, forgotten, movedMessages>>
  BY DEF LinkStatus, localVars
<1>2. OnlyIn(m, "link")
  BY <1>1, IsOnlyIn DEF PlaceInv
<1>3. \A k \in Msgs : /\ InQueue(k)' <=> InQueue(k)
                      /\ InSessionQueue(k)' <=> InSessionQueue(k)
                      /\ InPathQueue(k)' <=> InPathQueue(k)
  BY <1>1 DEF InQueue, InSessionQueue, InPathQueue, queueVars
<1>4. informed' = [informed EXCEPT ![m] = 1]
  BY <1>2 DEF OnlyIn, LinkStatus, DoCallback
<1>5. \A k \in Msgs \ {m} : Stays(k)
  BY <1>1, <1>3, <1>4 DEF Stays, TypeOK
<1>6. OnlyIn(m, "told")'
  BY <1>1, <1>2, <1>3, <1>4 DEF OnlyIn, TypeOK
<1>7. "told" \in Places
  BY DEF Places
<1>8. EveryoneSomewhere'
  BY <1>5, <1>6, <1>7, OneMoved DEF PlaceInv
<1> QED
  BY <1>1, <1>8 DEF PlaceInv, queueVars

\* The messages of a removed path are dropped with its queue.
LEMMA PlaceRemovePath ==
  ASSUME TypeOK, PlaceInv, NEW p \in PathIds, RemovePath(p)
  PROVE  PlaceInv'
<1>1. PICK lost : lost = IF p \in DOMAIN outboundMessageQueues THEN outboundMessageQueues[p] ELSE {}
  OBVIOUS
<1>2. /\ forgotten' = forgotten \cup lost /\ pc' = pc
      /\ UNCHANGED <<outboundQueue, pendingSessionMessageQueues, requested, movedMessages,
                     inLink, informed>>
      /\ outboundMessageQueues' = Without(outboundMessageQueues, p)
  BY <1>1 DEF RemovePath, localVars, linkVars
<1>3. /\ DOMAIN outboundMessageQueues' = DOMAIN outboundMessageQueues \ {p}
      /\ \A x \in DOMAIN outboundMessageQueues \ {p} :
           outboundMessageQueues'[x] = outboundMessageQueues[x]
  BY <1>2 DEF Without
<1>4. \A k \in Msgs : (InQueue(k)' <=> InQueue(k)) /\ (InSessionQueue(k)' <=> InSessionQueue(k))
  BY <1>2 DEF InQueue, InSessionQueue
<1>5. \A k \in Msgs : k \in lost <=> (InPathQueue(k) /\ PathOf[k] = p)
  BY <1>1 DEF InPathQueue, PlaceInv
<1>6. \A k \in Msgs : InPathQueue(k)' <=> (InPathQueue(k) /\ k \notin lost)
  BY <1>3, <1>5 DEF InPathQueue
<1>7. \A k \in Msgs \ lost : Stays(k)
  BY <1>2, <1>4, <1>6 DEF Stays
<1>8. \A k \in Msgs \cap lost : OnlyIn(k, "path")
  BY <1>5, IsOnlyIn DEF PlaceInv
<1>9. \A k \in Msgs \cap lost : OnlyIn(k, "forgotten")'
  BY <1>2, <1>4, <1>6, <1>8 DEF OnlyIn
<1>10. "forgotten" \in Places
  BY DEF Places
<1>11. EveryoneSomewhere'
  BY <1>7, <1>9, <1>10, SomeMoved DEF PlaceInv
<1> QED
  BY <1>2, <1>3, <1>11 DEF PlaceInv

\* The handlers that a session holds go away with it.
LEMMA PlaceSessionClosed ==
  ASSUME TypeOK, PlaceInv, NEW r \in Routers, SessionClosed(r)
  PROVE  PlaceInv'
<1>1. PICK lost : lost = {m \in inLink : RouterOf[m] = r}
  OBVIOUS
<1>2. /\ inLink' = inLink \ lost /\ forgotten' = forgotten \cup lost /\ pc' = pc
      /\ UNCHANGED <<queueVars, requested, movedMessages, informed>>
  BY <1>1 DEF SessionClosed, localVars
<1>3. \A k \in Msgs : /\ InQueue(k)' <=> InQueue(k)
                      /\ InSessionQueue(k)' <=> InSessionQueue(k)
                      /\ InPathQueue(k)' <=> InPathQueue(k)
  BY <1>2 DEF InQueue, InSessionQueue, InPathQueue, queueVars
<1>4. \A k \in Msgs \ lost : Stays(k)
  BY <1>2, <1>3 DEF Stays
<1>5. \A k \in Msgs \cap lost : OnlyIn(k, "link")
  BY <1>1, IsOnlyIn DEF PlaceInv
<1>6. \A k \in Msgs \cap lost : OnlyIn(k, "forgotten")'
  BY <1>2, <1>3, <1>5 DEF OnlyIn
<1>7. "forgotten" \in Places
  BY DEF Places
<1>8. EveryoneSomewhere'
  BY <1>4, <1>6, <1>7, SomeMoved DEF PlaceInv
<1> QED
  BY <1>2, <1>8 DEF PlaceInv, queueVars

\* FinalizeSessionRequest takes the queue of the router.
LEMMA PlaceSessionResult ==
  ASSUME TypeOK, PlaceInv, NEW r \in Routers, NEW status \in SendStatus, OnSessionResult(r, status)
  PROVE  PlaceInv'
<1>1. PICK taken : taken = pendingSessionMessageQueues[r]
  OBVIOUS
<1>2. /\ pc = "idle" /\ pc' = "finalize" /\ r \in DOMAIN pendingSessionMessageQueues
      /\ movedMessages' = taken /\ requested' = requested \ {r}
      /\ pendingSessionMessageQueues' = Without(pendingSessionMessageQueues, r)
      /\ UNCHANGED <<outboundQueue, outboundMessageQueues, inLink, informed, forgotten>>
  BY <1>1 DEF OnSessionResult
<1>3. /\ DOMAIN pendingSessionMessageQueues' = DOMAIN pendingSessionMessageQueues \ {r}
      /\ \A x \in DOMAIN pendingSessionMessageQueues \ {r} :
           pendingSessionMessageQueues'[x] = pendingSessionMessageQueues[x]
  BY <1>2 DEF Without
<1>4. movedMessages = {}
  BY <1>2 DEF PlaceInv
<1>5. \A k \in Msgs : (InQueue(k)' <=> InQueue(k)) /\ (InPathQueue(k)' <=> InPathQueue(k))
  BY <1>2 DEF InQueue, InPathQueue
<1>6. \A k \in Msgs : k \in taken <=> (InSessionQueue(k) /\ RouterOf[k] = r)
  BY <1>1, <1>2 DEF InSessionQueue, PlaceInv
<1>7. \A k \in Msgs : InSessionQueue(k)' <=> (InSessionQueue(k) /\ k \notin taken)
  BY <1>3, <1>6 DEF InSessionQueue
<1>8. \A k \in Msgs \ taken : Stays(k)
  BY <1>2, <1>4, <1>5, <1>7 DEF Stays
<1>9. \A k \in Msgs \cap taken : OnlyIn(k, "session")
  BY <1>6, IsOnlyIn DEF PlaceInv
<1>10. \A k \in Msgs \cap taken : OnlyIn(k, "moved")'
  BY <1>2, <1>5, <1>7, <1>9 DEF OnlyIn
<1>11. "moved" \in Places
  BY DEF Places
<1>12. EveryoneSomewhere'
  BY <1>8, <1>10, <1>11, SomeMoved DEF PlaceInv
<1>13. requested' = DOMAIN pendingSessionMessageQueues'
  BY <1>2, <1>3 DEF PlaceInv
<1> QED
  BY <1>2, <1>3, <1>12, <1>13 DEF PlaceInv

\* An empty queue at the head of the order, made by operator[] if there was none.
LEMMA PlaceSendEmpty ==
  ASSUME PlaceInv, SendRoundRobin_Empty
  PROVE  PlaceInv'
<1>1. PICK p : p = Head(roundRobinOrder)
  OBVIOUS
<1>2. /\ pc = "roundrobin" /\ HeadQueue = {} /\ pc' # "finalize"
      /\ outboundMessageQueues' = WithKey(outboundMessageQueues, p, {})
      /\ UNCHANGED <<outboundQueue, pendingSessionMessageQueues, requested, movedMessages,
                     inLink, informed, forgotten>>
  BY <1>1 DEF SendRoundRobin_Empty, NextQueue
<1>3. p \in DOMAIN outboundMessageQueues => outboundMessageQueues[p] = {}
  BY <1>1, <1>2 DEF HeadQueue
<1>4. /\ DOMAIN outboundMessageQueues' = DOMAIN outboundMessageQueues \cup {p}
      /\ outboundMessageQueues'[p] = {}
      /\ \A x \in DOMAIN outboundMessageQueues \ {p} :
           outboundMessageQueues'[x] = outboundMessageQueues[x]
  BY <1>2 DEF WithKey
<1>5. \A k \in Msgs : InPathQueue(k)' <=> InPathQueue(k)
  BY <1>3, <1>4 DEF InPathQueue
<1>6. \A k \in Msgs : Stays(k)
  BY <1>2, <1>5 DEF Stays, InQueue, InSessionQueue
<1>7. EveryoneSomewhere'
  BY <1>6, StaysSomewhere DEF PlaceInv, EveryoneSomewhere
<1> QED
  BY <1>2, <1>4, <1>7 DEF PlaceInv

\* Every step keeps every message in one place.
LEMMA PlaceStep == TypeOK /\ LoopInv /\ TurnInv /\ PlaceInv /\ [Next]_vars => PlaceInv'
<1> SUFFICES ASSUME TypeOK, LoopInv, TurnInv, PlaceInv, [Next]_vars PROVE PlaceInv'
  OBVIOUS
<1>1. CASE Pump
  BY <1>1, PlaceKept DEF Pump, localVars, linkVars
<1>2. CASE ProcessOutboundQueue_NotEmpty
  BY <1>2, PlaceProcess
<1>3. CASE ProcessOutboundQueue_Empty
  BY <1>3, PlaceKept DEF ProcessOutboundQueue_Empty, localVars, linkVars
<1>4. CASE StartRoundRobin
  BY <1>4, PlaceKept DEF StartRoundRobin, linkVars
<1>5. CASE Prune
  BY <1>5, PlaceKept DEF Prune, linkVars
<1>6. CASE Pruned
  BY <1>6, PlaceKept DEF Pruned, localVars, linkVars
<1>7. CASE SendRoundRobin_Empty
  BY <1>7, PlaceSendEmpty
<1>8. ASSUME NEW m \in Msgs, SendRoutingMessage(m) PROVE PlaceInv'
  <2>1. zeroID \in DOMAIN outboundMessageQueues /\ m \in outboundMessageQueues[zeroID]
    BY <1>8 DEF SendRoutingMessage, Top, TurnInv
  <2> QED
    BY <1>8, <2>1, PlaceSend DEF SendRoutingMessage, localVars
<1>9. ASSUME NEW m \in Msgs, SendRoundRobin_Send(m) PROVE PlaceInv'
  <2>1. PICK p : p = Head(roundRobinOrder)
    OBVIOUS
  <2>2. m \in HeadQueue
    BY <1>9 DEF SendRoundRobin_Send, Top
  <2>3. p \in DOMAIN outboundMessageQueues /\ m \in outboundMessageQueues[p]
    BY <2>1, <2>2 DEF HeadQueue
  <2> QED
    BY <1>9, <2>1, <2>3, PlaceSend DEF SendRoundRobin_Send, NextQueue
<1>10. ASSUME NEW m \in Msgs, FinalizeSessionRequest_Next(m) PROVE PlaceInv'
  BY <1>10, PlaceFinalize
<1>11. ASSUME NEW m \in Msgs, QueueMessage(m) PROVE PlaceInv'
  BY <1>11, PlaceQueueMessage
<1>12. ASSUME NEW m \in Msgs, LinkStatus(m) PROVE PlaceInv'
  BY <1>12, PlaceLinkStatus
<1>13. ASSUME NEW p \in PathIds, RemovePath(p) PROVE PlaceInv'
  BY <1>13, PlaceRemovePath
<1>14. ASSUME NEW r \in Routers, SessionEstablished(r) PROVE PlaceInv'
  BY <1>14, PlaceKept DEF SessionEstablished, localVars
<1>15. ASSUME NEW r \in Routers, SessionClosed(r) PROVE PlaceInv'
  BY <1>15, PlaceSessionClosed
<1>16. ASSUME NEW r \in Routers, NEW status \in SendStatus, OnSessionResult(r, status)
       PROVE  PlaceInv'
  BY <1>16, PlaceSessionResult
<1>17. CASE LinkActivity
  BY <1>17, PlaceKept DEF LinkActivity, localVars, linkVars
<1>18. CASE Elapse
  BY <1>18, PlaceKept DEF Elapse, localVars, linkVars
<1>19. CASE UNCHANGED vars
  BY <1>19, PlaceKept DEF vars, localVars, linkVars
<1> QED
  BY <1>1, <1>2, <1>3, <1>4, <1>5, <1>6, <1>7, <1>8, <1>9, <1>10, <1>11, <1>12, <1>13,
     <1>14, <1>15, <1>16, <1>17, <1>18, <1>19 DEF Next, LoopStep

\* A message in one place is counted once.
LEMMA PlaceIsAccount ==
  ASSUME TypeOK, PlaceInv
  PROVE  AccountedFor
<1> SUFFICES ASSUME NEW m \in Queued
             PROVE  Cardinality({i \in DOMAIN outboundQueue : outboundQueue[i] = m})
                      + Cardinality({r \in requested \cap DOMAIN pendingSessionMessageQueues :
                                       m \in pendingSessionMessageQueues[r]})
                      + Cardinality({p \in DOMAIN outboundMessageQueues :
                                       m \in outboundMessageQueues[p]})
                      + One(m \in movedMessages) + One(m \in inLink) + One(m \in forgotten)
                      + informed[m] = 1
  BY DEF AccountedFor
<1> DEFINE Q == {i \in DOMAIN outboundQueue : outboundQueue[i] = m}
           R == {r \in requested \cap DOMAIN pendingSessionMessageQueues :
                   m \in pendingSessionMessageQueues[r]}
           P == {p \in DOMAIN outboundMessageQueues : m \in outboundMessageQueues[p]}
<1>1. DOMAIN outboundQueue = 1..Len(outboundQueue) /\ outboundQueue \in Seq(Msgs)
  BY DEF TypeOK
<1>2. m \in Msgs
  <2>1. Range(outboundQueue) \subseteq Msgs
    BY <1>1 DEF Range
  <2>2. UNION Range(pendingSessionMessageQueues) \subseteq Msgs
    BY DEF TypeOK, Range
  <2>3. UNION Range(outboundMessageQueues) \subseteq Msgs
    BY DEF TypeOK, Range
  <2> QED
    BY <2>1, <2>2, <2>3 DEF Queued, TypeOK
<1>3. PICK w \in Places : OnlyIn(m, w)
  BY <1>2 DEF PlaceInv, EveryoneSomewhere
<1>4. InQueue(m) => Cardinality(Q) = 1
  <2>1. ASSUME NEW i \in DOMAIN outboundQueue, outboundQueue[i] = m PROVE Q = {i}
    BY <2>1 DEF PlaceInv, IsInjective
  <2> QED
    BY <1>1, <2>1, FS_Singleton DEF InQueue
<1>5. ~InQueue(m) => Cardinality(Q) = 0
  <2>1. ~InQueue(m) => Q = {}
    BY <1>1 DEF InQueue
  <2> QED
    BY <2>1, FS_EmptySet
<1>6. InSessionQueue(m) => Cardinality(R) = 1
  <2>1. InSessionQueue(m) => R = {RouterOf[m]}
    BY DEF InSessionQueue, PlaceInv
  <2> QED
    BY <2>1, FS_Singleton
<1>7. ~InSessionQueue(m) => Cardinality(R) = 0
  <2>1. ~InSessionQueue(m) => R = {}
    BY DEF InSessionQueue, PlaceInv
  <2> QED
    BY <2>1, FS_EmptySet
<1>8. InPathQueue(m) => Cardinality(P) = 1
  <2>1. InPathQueue(m) => P = {PathOf[m]}
    BY DEF InPathQueue, PlaceInv
  <2> QED
    BY <2>1, FS_Singleton
<1>9. ~InPathQueue(m) => Cardinality(P) = 0
  <2>1. ~InPathQueue(m) => P = {}
    BY DEF InPathQueue, PlaceInv
  <2> QED
    BY <2>1, FS_EmptySet
<1>10. w # "nowhere"
  <2>1. CASE informed[m] > 0
    BY <1>3, <2>1 DEF OnlyIn
  <2>2. CASE m \in Range(outboundQueue)
    BY <1>1, <1>3, <2>2 DEF OnlyIn, InQueue, Range
  <2>3. CASE m \in UNION Range(pendingSessionMessageQueues)
    <3>1. InSessionQueue(m)
      BY <2>3 DEF InSessionQueue, PlaceInv, Range
    <3> QED
      BY <1>3, <3>1 DEF OnlyIn
  <2>4. CASE m \in UNION Range(outboundMessageQueues)
    <3>1. InPathQueue(m)
      BY <2>4 DEF InPathQueue, PlaceInv, Range
    <3> QED
      BY <1>3, <3>1 DEF OnlyIn
  <2>5. CASE m \in movedMessages \/ m \in inLink \/ m \in forgotten
    BY <1>3, <2>5 DEF OnlyIn
  <2> QED
    BY <2>1, <2>2, <2>3, <2>4, <2>5 DEF Queued
<1> HIDE DEF Q, R, P
<1>11. Cardinality(Q) + Cardinality(R) + Cardinality(P)
         + One(m \in movedMessages) + One(m \in inLink) + One(m \in forgotten) + informed[m] = 1
  BY <1>3, <1>4, <1>5, <1>6, <1>7, <1>8, <1>9, <1>10 DEF OnlyIn, One, Places
<1> QED
  BY <1>11 DEF Q, R, P

-----------------------------------------------------------------------------
(* The theorems                                                            *)

IInv == TypeOK /\ LoopInv /\ TurnInv /\ PlaceInv

LEMMA Inductive == Init /\ [][Next]_vars => []IInv
<1>1. Init => IInv
  BY TypeInit, TurnInit, PlaceInit DEF IInv
<1>2. IInv /\ [Next]_vars => IInv'
  BY TypeStep, TurnStep, PlaceStep DEF IInv
<1> QED
  BY <1>1, <1>2, PTL

\* The variables of the handler keep their types whatever is queued, sent and removed.
THEOREM TypeCorrect == Spec => []TypeOK
<1>1. IInv => TypeOK
  BY DEF IInv
<1> QED
  BY <1>1, Inductive, PTL DEF Spec

\* For any number of paths each live path queue has exactly one turn in the round robin
\* of SendRoundRobin, and the queue of a path that RemovePath removed is not made again
\* by a message that ProcessOutboundQueue finds afterwards.
THEOREM OneTurnPerQueue == Spec => []TurnPerLiveQueue
<1>1. IInv => TurnPerLiveQueue
  BY DEF IInv, TurnInv
<1> QED
  BY <1>1, Inductive, PTL DEF Spec

\* For any messages and limits of the queues each message given to QueueMessage is in
\* exactly one place, and its SendStatusHandler is called at most once.
THEOREM MessagesAccountedFor == Spec => []AccountedFor
<1>1. IInv => AccountedFor
  BY PlaceIsAccount DEF IInv
<1> QED
  BY <1>1, Inductive, PTL DEF Spec
=============================================================================
