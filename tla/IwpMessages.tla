---------------------------- MODULE IwpMessages ----------------------------
(***************************************************************************)
(* The message layer of an established iwp session (llarp/iwp/session.cpp  *)
(* and message_buffer.cpp): one end submits messages, the other end puts   *)
(* their fragments together again, and UDP in between loses, duplicates,   *)
(* reorders and delays packets.  A session carries the two directions      *)
(* independently of each other; the module models one of them.             *)
(*                                                                         *)
(* The std::maps m_TXMsgs, m_RXMsgs and m_ReplayFilter are functions whose *)
(* DOMAIN is the set of keys present.  A bitmask of acks is the set of the *)
(* fragments whose bit is on.  Fragment contents are not modelled: packets *)
(* are authenticated, so InboundMessage::Verify() holds whenever           *)
(* IsCompleted() does.                                                     *)
(***************************************************************************)
EXTENDS Integers, FiniteSets, Sequences

CONSTANTS
  MsgIds,             \* the values m_TXID takes, one for each message submitted
  NumFrags,           \* NumFrags[m]: how many fragments message m is cut into
  MaxSendQueueSize,   \* how many messages may wait in m_TXMsgs
  DeliveryTimeout,    \* session.hpp:25
  ReplayWindow,       \* session.hpp:29
  ACKResendInterval,  \* session.hpp:31
  TXFlushInterval,    \* session.hpp:33
  TickInterval,       \* LINK_LAYER_TICK_INTERVAL, at most this long between ticks
  MaxLatency,         \* how long a packet may spend in queues and in the network
  MaxTime,            \* bound of the model: the clock stops here
  LastSubmit          \* bound of the model: nothing is submitted after this time

ASSUME MsgIdsAssumption == IsFiniteSet(MsgIds)

ASSUME NumFragsAssumption == NumFrags \in [MsgIds -> 1..8]

ASSUME TimeAssumption ==
  /\ MaxSendQueueSize \in Nat \ {0}
  /\ DeliveryTimeout \in Nat /\ ReplayWindow \in Nat
  /\ ACKResendInterval \in Nat /\ TXFlushInterval \in Nat
  /\ TickInterval \in Nat \ {0} /\ MaxLatency \in Nat
  /\ MaxTime \in Nat /\ LastSubmit \in Nat

\* The replay filter has to remember a message for longer than any packet of
\* it can be around: 500ms + 100ms + latency < 1200ms in the code's numbers.
ASSUME ReplayAssumption ==
  DeliveryTimeout + TickInterval + MaxLatency < ReplayWindow

VARIABLES
  now,            \* m_Parent->Now()
  txTick, rxTick, \* when the sender's and the receiver's link layer last ticked
  m_TXMsgs,       \* sender: messages not completed yet
  submitted,      \* submitted[m]: when m was given to SendMessageBuffer
  completions,    \* completions[m]: calls of m's CompletionHandler, in order
  m_RXMsgs,       \* receiver: messages whose fragments are being collected
  m_ReplayFilter, \* receiver: when a message was finished with
  delivered,      \* delivered[m]: how often m was handed to HandleMessage
  discarded,      \* discarded[m]: how long m was idle when it was given up
  net             \* packets on their way, or in a crypto queue of either end

txVars == <<txTick, m_TXMsgs, submitted, completions>>
rxVars == <<rxTick, m_RXMsgs, m_ReplayFilter, delivered, discarded>>
vars == <<now, txVars, rxVars, net>>

-----------------------------------------------------------------------------
(* std::map *)

\* map[k] = v
Put(f, k, v) == [x \in DOMAIN f \cup {k} |-> IF x = k THEN v ELSE f[x]]

\* map.emplace(k, v), which leaves an entry that is already there alone
Emplace(f, k, v) == IF k \in DOMAIN f THEN f ELSE Put(f, k, v)

\* map.erase for every key of K
Erase(f, K) == [x \in DOMAIN f \ K |-> f[x]]

EmptyMap == [x \in {} |-> 0]

-----------------------------------------------------------------------------
(* OutboundMessage and InboundMessage *)

Frags(m) == 0..(NumFrags[m] - 1)

\* The constructor marks fragment 0 acked: XMIT carries it.
OutboundMessage == [acks |-> {0}, lastFlush |-> now, startedAt |-> now]

\* m_LastACKSent starts as 0s, long before any time the clock shows.
NeverSent == -(ACKResendInterval + 1)

Packet(cmd, m, frags) == [cmd |-> cmd, id |-> m, frags |-> frags, at |-> now]

XMIT(m) == Packet("XMIT", m, {0})

\* The DATA packets FlushUnAcked sends for message m, given what was acked.
FlushUnAcked(m, acks) == {Packet("DATA", m, {i}) : i \in Frags(m) \ acks}

ACKS(m, acks) == Packet("ACKS", m, acks)

ShouldFlush(m) == now - m_TXMsgs[m].lastFlush >= TXFlushInterval

IsTransmitted_OffByOne(m, acks) == 0..(NumFrags[m] - 2) \subseteq acks

IsTransmitted(m, acks) == Frags(m) \subseteq acks

IsCompleted(m, acks) == Frags(m) \subseteq acks

TXTimedOut_SinceLastFlush(m) == now - m_TXMsgs[m].lastFlush > DeliveryTimeout

TXTimedOut(m) == now - m_TXMsgs[m].startedAt > DeliveryTimeout

RXTimedOut(m) == now - m_RXMsgs[m].lastActiveAt > DeliveryTimeout

ShouldSendACKS(m) == now > m_RXMsgs[m].lastACKSent + ACKResendInterval

\* Completed() and InformTimeout(): call the handler of every message of M.
Inform(M, status) ==
  completions' = [m \in MsgIds |-> IF m \in M THEN Append(completions[m], status)
                                              ELSE completions[m]]

-----------------------------------------------------------------------------
Init ==
  /\ now = 0 /\ txTick = 0 /\ rxTick = 0
  /\ m_TXMsgs = EmptyMap /\ submitted = EmptyMap
  /\ completions = [m \in MsgIds |-> <<>>]
  /\ m_RXMsgs = EmptyMap /\ m_ReplayFilter = EmptyMap
  /\ delivered = [m \in MsgIds |-> 0] /\ discarded = EmptyMap
  /\ net = {}

\* SendMessageBuffer: refuse when the queue is full, else send the message in
\* an XMIT and, when one packet does not hold it, DATA for the rest.
SendMessageBuffer(m) ==
  /\ m \notin DOMAIN submitted /\ now <= LastSubmit
  /\ submitted' = Put(submitted, m, now)
  /\ \/ /\ Cardinality(DOMAIN m_TXMsgs) >= MaxSendQueueSize
        /\ Inform({m}, "dropped")
        /\ UNCHANGED <<m_TXMsgs, net>>
     \/ /\ Cardinality(DOMAIN m_TXMsgs) < MaxSendQueueSize
        /\ m_TXMsgs' = Put(m_TXMsgs, m, OutboundMessage)
        /\ net' = net \cup {XMIT(m)} \cup FlushUnAcked(m, {0})
        /\ UNCHANGED completions
  /\ UNCHANGED <<now, txTick, rxVars>>

\* Session::Pump at the sender: send again what was not acked for a while.
PumpTX ==
  LET due == {m \in DOMAIN m_TXMsgs : ShouldFlush(m)}
  IN  /\ net' = net \cup UNION {FlushUnAcked(m, m_TXMsgs[m].acks) : m \in due}
      /\ m_TXMsgs' = [m \in DOMAIN m_TXMsgs |->
                        IF m \in due THEN [m_TXMsgs[m] EXCEPT !.lastFlush = now]
                                     ELSE m_TXMsgs[m]]
      /\ UNCHANGED <<now, txTick, submitted, completions, rxVars>>

\* Session::Pump at the receiver: ack what arrived of every incomplete message.
PumpRX ==
  LET due == {m \in DOMAIN m_RXMsgs : ShouldSendACKS(m)}
  IN  /\ net' = net \cup {ACKS(m, m_RXMsgs[m].acks) : m \in due}
      /\ m_RXMsgs' = [m \in DOMAIN m_RXMsgs |->
                        IF m \in due THEN [m_RXMsgs[m] EXCEPT !.lastACKSent = now]
                                     ELSE m_RXMsgs[m]]
      /\ UNCHANGED <<now, txVars, rxTick, m_ReplayFilter, delivered, discarded>>

\* Session::Tick at the sender: messages that took too long are dropped.
TickTX ==
  LET late == {m \in DOMAIN m_TXMsgs : TXTimedOut(m)}
  IN  /\ txTick' = now
      /\ Inform(late, "dropped")
      /\ m_TXMsgs' = Erase(m_TXMsgs, late)
      /\ UNCHANGED <<now, submitted, rxVars, net>>

Decayed_DeliveryTimeout(t) == t + DeliveryTimeout <= now

\* An entry of the replay filter made at time t has decayed.
Decayed(t) == t + ReplayWindow <= now

\* Session::Tick at the receiver: give up on idle messages, which moves them
\* to the replay filter, then decay the filter.
TickRX ==
  LET late == {m \in DOMAIN m_RXMsgs : RXTimedOut(m)}
      filter == [m \in DOMAIN m_ReplayFilter \cup late |->
                   IF m \in DOMAIN m_ReplayFilter THEN m_ReplayFilter[m] ELSE now]
  IN  /\ rxTick' = now
      /\ discarded' = [m \in DOMAIN discarded \cup late |->
                         IF m \in late THEN now - m_RXMsgs[m].lastActiveAt
                                       ELSE discarded[m]]
      /\ m_RXMsgs' = Erase(m_RXMsgs, late)
      /\ m_ReplayFilter' = Erase(filter, {m \in DOMAIN filter : Decayed(filter[m])})
      /\ UNCHANGED <<now, txVars, delivered, net>>

-----------------------------------------------------------------------------
(* Packets.  One that was sent stays in net until it is MaxLatency old: a    *)
(* packet may be handled once, more than once, or never (it was lost).       *)
(* HandlePlaintext ends with SendMACK, so a MACK leaves with the packet that *)
(* asked for it.                                                             *)

\* The message was handled, or given up, not long ago.
Replayed(m) == m \in DOMAIN m_ReplayFilter

MACK(m) == Packet("MACK", m, {})

\* HandleRecvMsgCompleted: hand the message up once, ack it, forget it.
RecvMsgCompleted(m) ==
  /\ m_ReplayFilter' = Emplace(m_ReplayFilter, m, now)
  /\ IF Replayed(m)
       THEN UNCHANGED <<delivered, net>>
       ELSE /\ delivered' = [delivered EXCEPT ![m] = @ + 1]
            /\ net' = net \cup {ACKS(m, Frags(m))}
  /\ m_RXMsgs' = Erase(m_RXMsgs, {m})

\* HandleData at the receiver: acks are the fragments it has of m by now.
GotFragments(m, acks, lastACKSent) ==
  IF IsCompleted(m, acks)
    THEN RecvMsgCompleted(m)
    ELSE /\ m_RXMsgs' = Put(m_RXMsgs, m, [acks |-> acks, lastActiveAt |-> now,
                                          lastACKSent |-> lastACKSent])
         /\ UNCHANGED <<m_ReplayFilter, delivered, net>>

HandleXMIT(p) ==
  /\ p.cmd = "XMIT"
  /\ \/ /\ Replayed(p.id)
        /\ net' = net \cup {MACK(p.id)}
        /\ UNCHANGED <<m_RXMsgs, m_ReplayFilter, delivered>>
     \/ /\ ~Replayed(p.id) /\ p.id \notin DOMAIN m_RXMsgs
        /\ GotFragments(p.id, p.frags, NeverSent)
     \/ /\ ~Replayed(p.id) /\ p.id \in DOMAIN m_RXMsgs
        /\ UNCHANGED <<m_RXMsgs, m_ReplayFilter, delivered, net>>
  /\ UNCHANGED <<now, txVars, rxTick, discarded>>

HandleDATA(p) ==
  /\ p.cmd = "DATA"
  /\ \/ /\ p.id \in DOMAIN m_RXMsgs
        /\ GotFragments(p.id, m_RXMsgs[p.id].acks \cup p.frags,
                        m_RXMsgs[p.id].lastACKSent)
     \/ /\ p.id \notin DOMAIN m_RXMsgs
        /\ net' = net \cup {IF Replayed(p.id) THEN MACK(p.id)
                                              ELSE Packet("NACK", p.id, {})}
        /\ UNCHANGED <<m_RXMsgs, m_ReplayFilter, delivered>>
  /\ UNCHANGED <<now, txVars, rxTick, discarded>>

\* Completed() at the sender.
Complete(m) == Inform({m}, "success") /\ m_TXMsgs' = Erase(m_TXMsgs, {m})

\* The bitmask of the packet replaces the one the sender has.
HandleACKS(p) ==
  /\ p.cmd = "ACKS" /\ p.id \in DOMAIN m_TXMsgs
  /\ \/ /\ IsTransmitted(p.id, p.frags)
        /\ Complete(p.id)
        /\ UNCHANGED net
     \/ /\ ~IsTransmitted(p.id, p.frags)
        /\ net' = net \cup FlushUnAcked(p.id, p.frags)
        /\ m_TXMsgs' = [m_TXMsgs EXCEPT ![p.id].acks = p.frags,
                                        ![p.id].lastFlush = now]
        /\ UNCHANGED completions
  /\ UNCHANGED <<now, txTick, submitted, rxVars>>

HandleMACK(p) ==
  /\ p.cmd = "MACK" /\ p.id \in DOMAIN m_TXMsgs
  /\ Complete(p.id)
  /\ UNCHANGED <<now, txTick, submitted, rxVars, net>>

HandleNACK(p) ==
  /\ p.cmd = "NACK" /\ p.id \in DOMAIN m_TXMsgs
  /\ net' = net \cup {XMIT(p.id)}
  /\ UNCHANGED <<now, txVars, rxVars>>

\* Time passes; the timer of each link layer is never more than TickInterval
\* late, and packets do not outlive MaxLatency.
AdvanceTime ==
  /\ now < MaxTime
  /\ now - txTick < TickInterval /\ now - rxTick < TickInterval
  /\ now' = now + 1
  /\ net' = {p \in net : now' - p.at <= MaxLatency}
  /\ UNCHANGED <<txVars, rxVars>>

Next ==
  \/ \E m \in MsgIds : SendMessageBuffer(m)
  \/ PumpTX \/ PumpRX \/ TickTX \/ TickRX \/ AdvanceTime
  \/ \E p \in net : \/ HandleXMIT(p) \/ HandleDATA(p)
                    \/ HandleACKS(p) \/ HandleMACK(p) \/ HandleNACK(p)

\* The timers of the event loop fire, and the clock goes on.
Fairness == WF_vars(TickTX) /\ WF_vars(TickRX) /\ WF_vars(AdvanceTime)

Spec == Init /\ [][Next]_vars /\ Fairness

-----------------------------------------------------------------------------
(* Properties *)

TXTypeOK ==
  /\ DOMAIN m_TXMsgs \subseteq MsgIds
  /\ \A m \in DOMAIN m_TXMsgs :
       /\ m_TXMsgs[m] \in [acks : SUBSET Nat, lastFlush : Nat, startedAt : Nat]
       /\ m_TXMsgs[m].acks \subseteq Frags(m)
  /\ DOMAIN submitted \subseteq MsgIds
  /\ \A m \in DOMAIN submitted : submitted[m] \in Nat
  /\ completions \in [MsgIds -> Seq({"success", "dropped"})]

RXTypeOK ==
  /\ DOMAIN m_RXMsgs \subseteq MsgIds
  /\ \A m \in DOMAIN m_RXMsgs :
       /\ m_RXMsgs[m] \in [acks : SUBSET Nat, lastActiveAt : Nat, lastACKSent : Int]
       /\ m_RXMsgs[m].acks \subseteq Frags(m)
  /\ DOMAIN m_ReplayFilter \subseteq MsgIds
  /\ \A m \in DOMAIN m_ReplayFilter : m_ReplayFilter[m] \in Nat
  /\ delivered \in [MsgIds -> Nat]
  /\ DOMAIN discarded \subseteq MsgIds
  /\ \A m \in DOMAIN discarded : discarded[m] \in Nat

NetTypeOK ==
  \A p \in net :
    /\ p.cmd \in {"XMIT", "DATA", "ACKS", "MACK", "NACK"}
    /\ p.id \in MsgIds /\ p.frags \subseteq Frags(p.id)
    /\ p.at \in Nat

\* Types of the state.  The fragments a packet or a bitmask names are fragments
\* of its message.
TypeOK ==
  /\ now \in Nat /\ txTick \in Nat /\ rxTick \in Nat
  /\ TXTypeOK /\ RXTypeOK /\ NetTypeOK

\* A message is handed to the router at most once, however its packets are
\* duplicated, reordered and sent again: m_ReplayFilter decays, so this rests
\* on how ReplayWindow compares with the life of a packet.
AtMostOnceDelivery == \A m \in MsgIds : delivered[m] <= 1

\* Every message is reported on, acked or dropped, by the first Tick after
\* DeliveryTimeout, whatever its fragments and resends went through.
TimelyCompletion ==
  \A m \in DOMAIN submitted :
    \/ completions[m] # <<>>
    \/ now <= submitted[m] + DeliveryTimeout + TickInterval

-----------------------------------------------------------------------------
(* Refinement *)

\* What the sender's caller knows of m.  A second call of the completion
\* handler has no counterpart in MessageDelivery.
Status(m) ==
  CASE m \notin DOMAIN submitted  -> "unsent"
    [] m \in DOMAIN submitted /\ completions[m] = <<>> -> "pending"
    [] m \in DOMAIN submitted /\ Len(completions[m]) = 1 -> completions[m][1]
    [] OTHER -> "again"

\* What became of m at the receiver.
Outcome(m) ==
  CASE delivered[m] = 0 /\ m \notin DOMAIN discarded -> "none"
    [] delivered[m] = 1 /\ m \notin DOMAIN discarded -> "delivered"
    [] delivered[m] = 0 /\ m \in DOMAIN discarded -> "abandoned"
    [] OTHER -> "again"

Service == INSTANCE MessageDelivery WITH
  status <- [m \in MsgIds |-> Status(m)],
  outcome <- [m \in MsgIds |-> Outcome(m)]

\* The session implements the delivery service: a message is handed up or
\* given up once, its handler is called once, with success only when the
\* receiver is done with the message, and it is called in the end.
ImplementsDelivery == Service!Spec
=============================================================================
