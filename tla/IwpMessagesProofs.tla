------------------------- MODULE IwpMessagesProofs -------------------------
(***************************************************************************)
(* Proofs about IwpMessages for every set of messages and every choice of  *)
(* the timeouts that satisfies ReplayAssumption.                           *)
(***************************************************************************)
EXTENDS IwpMessages, TLAPS

\* The receiver has handed m up or given it up.
Finished(m) == delivered[m] > 0 \/ m \in DOMAIN discarded

\* The sender's clock and timer.
ClockInv ==
  /\ txTick <= now /\ now <= txTick + TickInterval
  /\ \A m \in DOMAIN submitted : submitted[m] <= now

\* Messages the sender holds, and the calls of their handlers.
SenderInv ==
  /\ \A m \in DOMAIN m_TXMsgs :
       /\ m \in DOMAIN submitted
       /\ m_TXMsgs[m].startedAt = submitted[m]
       /\ txTick <= submitted[m] + DeliveryTimeout
       /\ completions[m] = <<>>
  /\ \A m \in MsgIds \ DOMAIN submitted : completions[m] = <<>>
  /\ \A m \in DOMAIN submitted \ DOMAIN m_TXMsgs :
       completions[m] \in {<<"success">>, <<"dropped">>}

\* Packets are young, those with fragments were sent while the sender held
\* the message, and those that ask it to complete tell the truth.
PacketOK(p) ==
  /\ p.id \in DOMAIN submitted
  /\ p.at <= now /\ now <= p.at + MaxLatency
  /\ p.cmd \in {"XMIT", "DATA"} =>
       p.at <= submitted[p.id] + DeliveryTimeout + TickInterval
  /\ p.cmd = "MACK" => Finished(p.id)
  /\ p.cmd = "ACKS" /\ IsTransmitted(p.id, p.frags) => Finished(p.id)

PacketInv == \A p \in net : PacketOK(p)

\* A finished message is in the filter until its packets are gone.
Remembered(m) ==
  /\ m \in DOMAIN submitted
  /\ \/ m \in DOMAIN m_ReplayFilter /\ m_ReplayFilter[m] >= submitted[m]
     \/ now >= submitted[m] + ReplayWindow

ReceiverInv ==
  /\ \A m \in DOMAIN m_ReplayFilter : Finished(m)
  /\ \A m \in DOMAIN m_RXMsgs :
       /\ m \in DOMAIN submitted /\ ~Finished(m)
       /\ ~IsCompleted(m, m_RXMsgs[m].acks)
  /\ \A m \in MsgIds : Finished(m) => Remembered(m)
  /\ \A m \in MsgIds : delivered[m] <= 1 /\ (m \in DOMAIN discarded => delivered[m] = 0)

IInv == TypeOK /\ ClockInv /\ SenderInv /\ PacketInv /\ ReceiverInv

-----------------------------------------------------------------------------
\* A new session satisfies the invariant.
LEMMA InitIInv == Init => IInv
BY NumFragsAssumption, TimeAssumption
DEF Init, IInv, TypeOK, TXTypeOK, RXTypeOK, NetTypeOK, ClockInv, SenderInv,
    PacketInv, ReceiverInv, Finished, EmptyMap

\* The timeouts and intervals are numbers.
LEMMA Constants ==
  /\ DeliveryTimeout \in Nat /\ TickInterval \in Nat /\ MaxLatency \in Nat
  /\ ReplayWindow \in Nat /\ ACKResendInterval \in Nat
BY TimeAssumption

\* A step that changes nothing preserves the invariant.
LEMMA StutterIInv ==
  ASSUME IInv, UNCHANGED vars
  PROVE  IInv'
<1>1. /\ UNCHANGED <<now, txTick, m_TXMsgs, submitted, completions, net>>
      /\ UNCHANGED <<rxTick, m_RXMsgs, m_ReplayFilter, delivered, discarded>>
  BY DEF vars, txVars, rxVars
<1>2. TXTypeOK'  BY <1>1 DEF IInv, TypeOK, TXTypeOK, Frags
<1>3. RXTypeOK'  BY <1>1 DEF IInv, TypeOK, RXTypeOK, Frags
<1>4. NetTypeOK'  BY <1>1 DEF IInv, TypeOK, NetTypeOK, Frags
<1>5. TypeOK'  BY <1>1, <1>2, <1>3, <1>4 DEF IInv, TypeOK
<1>6. ClockInv' /\ SenderInv'  BY <1>1 DEF IInv, ClockInv, SenderInv
<1>7. PacketInv'  BY <1>1 DEF IInv, PacketInv, PacketOK, Finished, IsTransmitted, Frags
<1>8. ReceiverInv'
  BY <1>1 DEF IInv, ReceiverInv, Finished, Remembered, IsCompleted, Frags
<1> QED  BY <1>5, <1>6, <1>7, <1>8 DEF IInv

LEMMA AdvanceTimeIInv == IInv /\ AdvanceTime => IInv'
<1> SUFFICES ASSUME IInv, AdvanceTime PROVE IInv'
  OBVIOUS
<1>1. /\ UNCHANGED <<txTick, m_TXMsgs, submitted, completions>>
      /\ UNCHANGED <<rxTick, m_RXMsgs, m_ReplayFilter, delivered, discarded>>
      /\ now' = now + 1 /\ now - txTick < TickInterval
      /\ net' = {p \in net : now' - p.at <= MaxLatency}
  BY DEF AdvanceTime, txVars, rxVars
<1>2. now \in Nat /\ txTick \in Nat
  BY DEF IInv, TypeOK
<1>3. TypeOK'
  BY <1>1, <1>2 DEF IInv, TypeOK, TXTypeOK, RXTypeOK, NetTypeOK
<1>4. ClockInv'
  BY <1>1, <1>2, Constants DEF IInv, TypeOK, TXTypeOK, ClockInv
<1>5. SenderInv'
  BY <1>1 DEF IInv, SenderInv
<1>6. PacketInv'
  <2> SUFFICES ASSUME NEW p \in net' PROVE PacketOK(p)'
    BY DEF PacketInv
  <2>1. p \in net /\ now' - p.at <= MaxLatency  BY <1>1
  <2>2. PacketOK(p) /\ p.at \in Nat  BY <2>1 DEF IInv, PacketInv, TypeOK, NetTypeOK
  <2> QED  BY <1>1, <1>2, <2>1, <2>2, Constants DEF PacketOK, Finished
<1>7. ReceiverInv'
  <2>1. ASSUME NEW m \in MsgIds, Remembered(m) PROVE Remembered(m)'
    BY <1>1, <1>2, <2>1, Constants DEF IInv, TypeOK, TXTypeOK, Remembered
  <2> QED  BY <1>1, <2>1 DEF IInv, ReceiverInv, Finished
<1> QED  BY <1>3, <1>4, <1>5, <1>6, <1>7 DEF IInv

\* While the sender holds a message, what it sends of it is in time.
LEMMA HeldInTime ==
  ASSUME IInv, NEW m \in DOMAIN m_TXMsgs
  PROVE  /\ m \in MsgIds /\ m \in DOMAIN submitted /\ submitted[m] \in Nat
         /\ now <= submitted[m] + DeliveryTimeout + TickInterval
<1>1. now \in Nat /\ txTick \in Nat /\ m \in MsgIds  BY DEF IInv, TypeOK, TXTypeOK
<1>2. m \in DOMAIN submitted /\ txTick <= submitted[m] + DeliveryTimeout
  BY DEF IInv, SenderInv
<1>3. submitted[m] \in Nat  BY <1>2 DEF IInv, TypeOK, TXTypeOK
<1>4. now <= txTick + TickInterval  BY DEF IInv, ClockInv
<1> QED  BY <1>1, <1>2, <1>3, <1>4, Constants

LEMMA SendMessageBufferIInv ==
  ASSUME IInv, NEW m \in MsgIds, SendMessageBuffer(m)
  PROVE  IInv'
<1>1. /\ UNCHANGED <<now, txTick>>
      /\ UNCHANGED <<rxTick, m_RXMsgs, m_ReplayFilter, delivered, discarded>>
      /\ m \notin DOMAIN submitted
      /\ submitted' = Put(submitted, m, now)
  BY DEF SendMessageBuffer, rxVars
<1>2. now \in Nat /\ txTick \in Nat  BY DEF IInv, TypeOK
<1>3. /\ DOMAIN submitted' = DOMAIN submitted \cup {m}
      /\ submitted'[m] = now
      /\ \A x \in DOMAIN submitted : submitted'[x] = submitted[x]
  BY <1>1 DEF Put
<1>4. m \notin DOMAIN m_TXMsgs /\ completions[m] = <<>>
  BY <1>1 DEF IInv, SenderInv
<1>5. ClockInv'
  BY <1>1, <1>2, <1>3 DEF IInv, ClockInv
<1>6. ReceiverInv'
  BY <1>1, <1>3 DEF IInv, ReceiverInv, Finished, Remembered
<1>7. ASSUME NEW p \in net PROVE PacketOK(p)'
  <2>1. PacketOK(p)  BY DEF IInv, PacketInv
  <2> QED  BY <1>1, <1>3, <2>1 DEF PacketOK, Finished
<1>8. CASE Inform({m}, "dropped") /\ UNCHANGED <<m_TXMsgs, net>>
  <2>1. /\ completions' \in [MsgIds -> Seq({"success", "dropped"})]
        /\ completions'[m] = <<"dropped">>
        /\ \A x \in MsgIds : x # m => completions'[x] = completions[x]
    BY <1>4, <1>8 DEF IInv, TypeOK, TXTypeOK, Inform
  <2>2. TypeOK'
    BY <1>1, <1>2, <1>3, <1>8, <2>1 DEF IInv, TypeOK, TXTypeOK, RXTypeOK, NetTypeOK
  <2>3. SenderInv'
    <3>1. DOMAIN m_TXMsgs \subseteq MsgIds /\ DOMAIN submitted \subseteq MsgIds
      BY DEF IInv, TypeOK, TXTypeOK
    <3> QED  BY <1>1, <1>3, <1>4, <1>8, <2>1, <3>1, Zenon DEF IInv, SenderInv
  <2>4. PacketInv'
    BY <1>7, <1>8 DEF PacketInv
  <2> QED  BY <1>5, <1>6, <2>2, <2>3, <2>4 DEF IInv
<1>9. CASE /\ m_TXMsgs' = Put(m_TXMsgs, m, OutboundMessage)
           /\ net' = net \cup {XMIT(m)} \cup FlushUnAcked(m, {0})
           /\ UNCHANGED completions
  <2>1. /\ DOMAIN m_TXMsgs' = DOMAIN m_TXMsgs \cup {m}
        /\ m_TXMsgs'[m] = [acks |-> {0}, lastFlush |-> now, startedAt |-> now]
        /\ \A x \in DOMAIN m_TXMsgs : m_TXMsgs'[x] = m_TXMsgs[x]
    BY <1>4, <1>9 DEF Put, OutboundMessage
  <2>2. NumFrags[m] \in 1..8 /\ 0 \in Frags(m)  BY NumFragsAssumption DEF Frags
  <2>3. ASSUME NEW p \in net' \ net
        PROVE  /\ p.cmd \in {"XMIT", "DATA"} /\ p.id = m /\ p.at = now
               /\ p.frags \subseteq Frags(m)
    BY <1>9, <2>2, <2>3 DEF XMIT, FlushUnAcked, Packet
  <2>4. TXTypeOK'
    BY <1>2, <1>3, <1>9, <2>1, <2>2 DEF IInv, TypeOK, TXTypeOK, Frags
  <2>5. NetTypeOK'
    BY <1>2, <2>3 DEF IInv, TypeOK, NetTypeOK, Frags
  <2>6. TypeOK'
    BY <1>1, <2>4, <2>5 DEF IInv, TypeOK, RXTypeOK, Frags
  <2>7. SenderInv'
    BY <1>1, <1>2, <1>3, <1>4, <1>9, <2>1, Constants
    DEF IInv, SenderInv, ClockInv
  <2>8. ASSUME NEW p \in net' \ net PROVE PacketOK(p)'
    BY <1>1, <1>2, <1>3, <2>3, <2>8, Constants DEF PacketOK
  <2>9. PacketInv'
    BY <1>7, <2>8 DEF PacketInv
  <2> QED  BY <1>5, <1>6, <2>6, <2>7, <2>9 DEF IInv
<1> QED  BY <1>8, <1>9 DEF SendMessageBuffer

LEMMA PumpTXIInv == ASSUME IInv, PumpTX PROVE IInv'
<1> DEFINE due == {m \in DOMAIN m_TXMsgs : ShouldFlush(m)}
<1>1. /\ UNCHANGED <<now, txTick, submitted, completions>>
      /\ UNCHANGED <<rxTick, m_RXMsgs, m_ReplayFilter, delivered, discarded>>
      /\ net' = net \cup UNION {FlushUnAcked(m, m_TXMsgs[m].acks) : m \in due}
      /\ m_TXMsgs' = [m \in DOMAIN m_TXMsgs |->
                        IF m \in due THEN [m_TXMsgs[m] EXCEPT !.lastFlush = now]
                                     ELSE m_TXMsgs[m]]
  BY DEF PumpTX, rxVars
<1>2. now \in Nat  BY DEF IInv, TypeOK
<1>3. DOMAIN m_TXMsgs' = DOMAIN m_TXMsgs  BY <1>1
<1>4. ASSUME NEW m \in DOMAIN m_TXMsgs
      PROVE  /\ m_TXMsgs'[m] \in [acks : SUBSET Nat, lastFlush : Nat, startedAt : Nat]
             /\ m_TXMsgs'[m].acks = m_TXMsgs[m].acks
             /\ m_TXMsgs'[m].startedAt = m_TXMsgs[m].startedAt
  <2>1. m_TXMsgs[m] \in [acks : SUBSET Nat, lastFlush : Nat, startedAt : Nat]
    BY DEF IInv, TypeOK, TXTypeOK
  <2>2. \/ m_TXMsgs'[m] = [m_TXMsgs[m] EXCEPT !.lastFlush = now]
        \/ m_TXMsgs'[m] = m_TXMsgs[m]
    BY <1>1
  <2> QED  BY <1>2, <2>1, <2>2
<1>5. ASSUME NEW p \in net' \ net
      PROVE  /\ p.cmd = "DATA" /\ p.id \in DOMAIN m_TXMsgs /\ p.at = now
             /\ p.frags \subseteq Frags(p.id)
  BY <1>1, <1>5 DEF FlushUnAcked, Packet
<1>6. TXTypeOK'
  BY <1>1, <1>3, <1>4 DEF IInv, TypeOK, TXTypeOK, Frags
<1>7. NetTypeOK'
  BY <1>2, <1>5 DEF IInv, TypeOK, TXTypeOK, NetTypeOK, Frags
<1>8. TypeOK'
  BY <1>1, <1>6, <1>7 DEF IInv, TypeOK, RXTypeOK, Frags
<1>9. ClockInv' /\ SenderInv' /\ ReceiverInv'
  BY <1>1, <1>3, <1>4 DEF IInv, ClockInv, SenderInv, ReceiverInv, Finished, Remembered
<1>10. ASSUME NEW p \in net' PROVE PacketOK(p)'
  <2>1. CASE p \in net
    <3>1. PacketOK(p)  BY <2>1 DEF IInv, PacketInv
    <3> QED  BY <1>1, <3>1 DEF PacketOK, Finished
  <2>2. CASE p \notin net
    BY <1>1, <1>2, <1>5, <2>2, HeldInTime, Constants DEF PacketOK
  <2> QED  BY <2>1, <2>2
<1> QED  BY <1>8, <1>9, <1>10 DEF IInv, PacketInv

LEMMA PumpRXIInv == ASSUME IInv, PumpRX PROVE IInv'
<1> DEFINE due == {m \in DOMAIN m_RXMsgs : ShouldSendACKS(m)}
<1>1. /\ UNCHANGED <<now, txTick, m_TXMsgs, submitted, completions>>
      /\ UNCHANGED <<rxTick, m_ReplayFilter, delivered, discarded>>
      /\ net' = net \cup {ACKS(m, m_RXMsgs[m].acks) : m \in due}
      /\ m_RXMsgs' = [m \in DOMAIN m_RXMsgs |->
                        IF m \in due THEN [m_RXMsgs[m] EXCEPT !.lastACKSent = now]
                                     ELSE m_RXMsgs[m]]
  BY DEF PumpRX, txVars
<1>2. now \in Nat  BY DEF IInv, TypeOK
<1>3. DOMAIN m_RXMsgs' = DOMAIN m_RXMsgs  BY <1>1
<1>4. ASSUME NEW m \in DOMAIN m_RXMsgs
      PROVE  /\ m_RXMsgs'[m] \in [acks : SUBSET Nat, lastActiveAt : Nat, lastACKSent : Int]
             /\ m_RXMsgs'[m].acks = m_RXMsgs[m].acks
  BY <1>1, <1>2 DEF IInv, TypeOK, RXTypeOK
<1>5. ASSUME NEW p \in net' \ net
      PROVE  /\ p.cmd = "ACKS" /\ p.id \in DOMAIN m_RXMsgs /\ p.at = now
             /\ p.frags = m_RXMsgs[p.id].acks
  BY <1>1, <1>5 DEF ACKS, Packet
<1>6. RXTypeOK'
  BY <1>1, <1>3, <1>4 DEF IInv, TypeOK, RXTypeOK, Frags
<1>7. NetTypeOK'
  BY <1>2, <1>5 DEF IInv, TypeOK, RXTypeOK, NetTypeOK, Frags
<1>8. TypeOK'
  BY <1>1, <1>6, <1>7 DEF IInv, TypeOK, TXTypeOK, Frags
<1>9. ClockInv' /\ SenderInv'
  BY <1>1 DEF IInv, ClockInv, SenderInv
<1>10. ReceiverInv'
  BY <1>1, <1>3, <1>4 DEF IInv, ReceiverInv, Finished, Remembered, IsCompleted, Frags
<1>11. ASSUME NEW p \in net' PROVE PacketOK(p)'
  <2>1. CASE p \in net
    <3>1. PacketOK(p)  BY <2>1 DEF IInv, PacketInv
    <3> QED  BY <1>1, <3>1 DEF PacketOK, Finished, IsTransmitted, Frags
  <2>2. CASE p \notin net
    <3>1. p.id \in DOMAIN submitted /\ ~IsTransmitted(p.id, p.frags)
      BY <1>5, <2>2 DEF IInv, ReceiverInv, IsTransmitted, IsCompleted
    <3> QED  BY <1>1, <1>2, <1>5, <2>2, <3>1, Constants DEF PacketOK, IsTransmitted, Frags
  <2> QED  BY <2>1, <2>2
<1> QED  BY <1>8, <1>9, <1>10, <1>11 DEF IInv, PacketInv

LEMMA TickTXIInv == ASSUME IInv, TickTX PROVE IInv'
<1> DEFINE late == {m \in DOMAIN m_TXMsgs : TXTimedOut(m)}
<1>1. /\ UNCHANGED <<now, submitted, net>>
      /\ UNCHANGED <<rxTick, m_RXMsgs, m_ReplayFilter, delivered, discarded>>
      /\ txTick' = now
      /\ Inform(late, "dropped")
      /\ m_TXMsgs' = Erase(m_TXMsgs, late)
  BY DEF TickTX, rxVars
<1>2. now \in Nat  BY DEF IInv, TypeOK
<1>3. /\ DOMAIN m_TXMsgs' = DOMAIN m_TXMsgs \ late
      /\ \A m \in DOMAIN m_TXMsgs \ late : m_TXMsgs'[m] = m_TXMsgs[m]
  BY <1>1 DEF Erase
<1>4. /\ completions' \in [MsgIds -> Seq({"success", "dropped"})]
      /\ \A m \in late : completions'[m] = <<"dropped">>
      /\ \A m \in MsgIds \ late : completions'[m] = completions[m]
  <2>1. completions \in [MsgIds -> Seq({"success", "dropped"})] /\ late \subseteq MsgIds
    BY DEF IInv, TypeOK, TXTypeOK
  <2>2. completions' = [m \in MsgIds |-> IF m \in late THEN Append(completions[m], "dropped")
                                                       ELSE completions[m]]
    BY <1>1 DEF Inform
  <2>3. \A m \in late : completions[m] = <<>>  BY DEF IInv, SenderInv
  <2>4. \A m \in late : completions'[m] = <<"dropped">>
    <3>1. Append(<<>>, "dropped") = <<"dropped">>  OBVIOUS
    <3> QED  BY <2>1, <2>2, <2>3, <3>1, Zenon
  <2>5. \A m \in MsgIds \ late : completions'[m] = completions[m]  BY <2>2
  <2>6. \A m \in MsgIds : completions'[m] \in Seq({"success", "dropped"})
    <3>1. <<"dropped">> \in Seq({"success", "dropped"})  OBVIOUS
    <3> QED  BY <2>1, <2>4, <2>5, <3>1, Zenon
  <2> QED  BY <2>2, <2>4, <2>5, <2>6, Zenon
<1>5. ASSUME NEW m \in DOMAIN m_TXMsgs \ late PROVE now <= submitted[m] + DeliveryTimeout
  <2>1. /\ m \in DOMAIN submitted /\ submitted[m] \in Nat
        /\ m_TXMsgs[m].startedAt = submitted[m]
    BY DEF IInv, SenderInv, TypeOK, TXTypeOK
  <2>2. ~(now - submitted[m] > DeliveryTimeout)  BY <2>1 DEF TXTimedOut
  <2> QED  BY <1>2, <2>1, <2>2, Constants
<1>6. TypeOK'
  <2>1. TXTypeOK'  BY <1>1, <1>3, <1>4, Zenon DEF IInv, TypeOK, TXTypeOK, Frags
  <2>2. RXTypeOK'  BY <1>1 DEF IInv, TypeOK, RXTypeOK, Frags
  <2>3. NetTypeOK'  BY <1>1 DEF IInv, TypeOK, NetTypeOK, Frags
  <2> QED  BY <1>1, <1>2, <2>1, <2>2, <2>3 DEF IInv, TypeOK
<1>7. ClockInv'
  BY <1>1, <1>2, Constants DEF IInv, ClockInv
<1>8. SenderInv'
  <2>1. DOMAIN m_TXMsgs \subseteq MsgIds /\ DOMAIN submitted \subseteq MsgIds
    BY DEF IInv, TypeOK, TXTypeOK
  <2>2. \A m \in DOMAIN m_TXMsgs' :
          /\ m \in DOMAIN submitted' /\ m_TXMsgs'[m].startedAt = submitted'[m]
          /\ txTick' <= submitted'[m] + DeliveryTimeout /\ completions'[m] = <<>>
    BY <1>1, <1>3, <1>4, <1>5, <2>1 DEF IInv, SenderInv
  <2>3. \A m \in MsgIds \ DOMAIN submitted' : completions'[m] = <<>>
    BY <1>1, <1>4 DEF IInv, SenderInv
  <2>4. \A m \in DOMAIN submitted' \ DOMAIN m_TXMsgs' :
          completions'[m] \in {<<"success">>, <<"dropped">>}
    BY <1>1, <1>3, <1>4, <2>1, Zenon DEF IInv, SenderInv
  <2> QED  BY <2>2, <2>3, <2>4 DEF SenderInv
<1>9. PacketInv' /\ ReceiverInv'
  BY <1>1 DEF IInv, PacketInv, PacketOK, ReceiverInv, Finished, Remembered
<1> QED  BY <1>6, <1>7, <1>8, <1>9 DEF IInv

LEMMA TickRXIInv == ASSUME IInv, TickRX PROVE IInv'
<1> DEFINE late == {m \in DOMAIN m_RXMsgs : RXTimedOut(m)}
           filter == [m \in DOMAIN m_ReplayFilter \cup late |->
                        IF m \in DOMAIN m_ReplayFilter THEN m_ReplayFilter[m] ELSE now]
           old == {m \in DOMAIN filter : Decayed(filter[m])}
<1>1. /\ UNCHANGED <<now, txTick, m_TXMsgs, submitted, completions, delivered, net>>
      /\ rxTick' = now
      /\ discarded' = [m \in DOMAIN discarded \cup late |->
                         IF m \in late THEN now - m_RXMsgs[m].lastActiveAt
                                       ELSE discarded[m]]
      /\ m_RXMsgs' = Erase(m_RXMsgs, late)
      /\ m_ReplayFilter' = Erase(filter, old)
  BY DEF TickRX, txVars
<1>2. now \in Nat  BY DEF IInv, TypeOK
<1>3. /\ DOMAIN m_RXMsgs' = DOMAIN m_RXMsgs \ late
      /\ \A m \in DOMAIN m_RXMsgs' : m_RXMsgs'[m] = m_RXMsgs[m]
  BY <1>1 DEF Erase
<1>4. /\ DOMAIN m_ReplayFilter' \subseteq DOMAIN m_ReplayFilter \cup late
      /\ \A m \in DOMAIN m_ReplayFilter' : m_ReplayFilter'[m] = filter[m]
      /\ \A m \in DOMAIN m_ReplayFilter \cup late :
           m \in DOMAIN m_ReplayFilter' \/ filter[m] + ReplayWindow <= now
  BY <1>1 DEF Erase, Decayed
<1>5. /\ DOMAIN discarded' = DOMAIN discarded \cup late
      /\ \A m \in late : discarded'[m] = now - m_RXMsgs[m].lastActiveAt
      /\ \A m \in DOMAIN discarded \ late : discarded'[m] = discarded[m]
  BY <1>1
<1> HIDE DEF old
<1>6. \A m \in late : discarded'[m] \in Nat
  <2> SUFFICES ASSUME NEW m \in late PROVE now - m_RXMsgs[m].lastActiveAt \in Nat
    BY <1>5
  <2>1. m_RXMsgs[m].lastActiveAt \in Nat  BY DEF IInv, TypeOK, RXTypeOK
  <2>2. now - m_RXMsgs[m].lastActiveAt > DeliveryTimeout  BY DEF RXTimedOut
  <2> QED  BY <1>2, <2>1, <2>2, Constants
<1>7. RXTypeOK'
  <2>1. \A m \in DOMAIN filter : filter[m] \in Nat /\ m \in MsgIds
    BY <1>2 DEF IInv, TypeOK, RXTypeOK
  <2>2. /\ DOMAIN m_RXMsgs' \subseteq MsgIds
        /\ \A m \in DOMAIN m_RXMsgs' :
             /\ m_RXMsgs'[m] \in [acks : SUBSET Nat, lastActiveAt : Nat, lastACKSent : Int]
             /\ m_RXMsgs'[m].acks \subseteq Frags(m)
    BY <1>3 DEF IInv, TypeOK, RXTypeOK
  <2>3. /\ DOMAIN m_ReplayFilter' \subseteq MsgIds
        /\ \A m \in DOMAIN m_ReplayFilter' : m_ReplayFilter'[m] \in Nat
    BY <1>4, <2>1, Zenon
  <2>4. /\ DOMAIN discarded' \subseteq MsgIds
        /\ \A m \in DOMAIN discarded' : discarded'[m] \in Nat
    BY <1>5, <1>6 DEF IInv, TypeOK, RXTypeOK
  <2>5. delivered' \in [MsgIds -> Nat]  BY <1>1 DEF IInv, TypeOK, RXTypeOK
  <2> QED  BY <2>2, <2>3, <2>4, <2>5, Zenon DEF RXTypeOK, Frags
<1>8. TypeOK'
  BY <1>1, <1>2, <1>7 DEF IInv, TypeOK, TXTypeOK, NetTypeOK, Frags
<1>9. ClockInv' /\ SenderInv'
  BY <1>1 DEF IInv, ClockInv, SenderInv
<1>10. \A m \in MsgIds : Finished(m)' <=> Finished(m) \/ m \in late
  BY <1>1, <1>5 DEF Finished
<1>11. PacketInv'
  BY <1>1, <1>10 DEF IInv, PacketInv, PacketOK, TypeOK, NetTypeOK, IsTransmitted, Frags
<1>12. ASSUME NEW m \in MsgIds, Finished(m)' PROVE Remembered(m)'
  <2>1. m \in DOMAIN submitted /\ submitted[m] \in Nat /\ submitted[m] <= now
    BY <1>10, <1>12 DEF IInv, ReceiverInv, Remembered, ClockInv, TypeOK, TXTypeOK
  <2>2. CASE now >= submitted[m] + ReplayWindow
    BY <1>1, <2>1, <2>2 DEF Remembered
  <2>3. CASE ~(now >= submitted[m] + ReplayWindow)
    <3>1. m \in DOMAIN filter /\ filter[m] >= submitted[m] /\ filter[m] \in Nat
      BY <1>2, <1>10, <1>12, <2>1, <2>3 DEF IInv, ReceiverInv, Remembered, TypeOK, RXTypeOK
    <3>2. m \in DOMAIN m_ReplayFilter'
      BY <1>2, <1>4, <2>1, <2>3, <3>1, Constants
    <3> QED  BY <1>1, <1>4, <2>1, <3>1, <3>2 DEF Remembered
  <2> QED  BY <2>2, <2>3
<1>13. ReceiverInv'
  <2>1. \A m \in DOMAIN m_ReplayFilter' : Finished(m)'
    BY <1>4, <1>10 DEF IInv, ReceiverInv, TypeOK, RXTypeOK
  <2>2. \A m \in DOMAIN m_RXMsgs' : /\ m \in DOMAIN submitted' /\ ~Finished(m)'
                                    /\ ~IsCompleted(m, m_RXMsgs[m].acks)'
    BY <1>1, <1>3, <1>10 DEF IInv, ReceiverInv, TypeOK, RXTypeOK, IsCompleted, Frags
  <2>3. \A m \in MsgIds : delivered'[m] <= 1 /\ (m \in DOMAIN discarded' => delivered'[m] = 0)
    BY <1>1, <1>5 DEF IInv, ReceiverInv, Finished, TypeOK, RXTypeOK
  <2> QED  BY <1>12, <2>1, <2>2, <2>3 DEF ReceiverInv
<1> QED  BY <1>8, <1>9, <1>11, <1>13 DEF IInv

\* A fragment of a message that arrives finds the message remembered, if the
\* receiver is finished with it: its packets do not outlive the filter entry.
LEMMA FragmentInTime ==
  ASSUME IInv, NEW p \in net, p.cmd \in {"XMIT", "DATA"}, ~Replayed(p.id)
  PROVE  /\ p.id \in MsgIds /\ p.id \in DOMAIN submitted /\ submitted[p.id] \in Nat
         /\ submitted[p.id] <= now /\ ~Finished(p.id)
<1>1. now \in Nat /\ p.at \in Nat /\ p.id \in MsgIds /\ PacketOK(p)
  BY DEF IInv, TypeOK, NetTypeOK, PacketInv
<1>2. p.id \in DOMAIN submitted /\ submitted[p.id] \in Nat /\ submitted[p.id] <= now
  BY <1>1 DEF IInv, TypeOK, TXTypeOK, PacketOK, ClockInv
<1>3. ~(now >= submitted[p.id] + ReplayWindow)
  BY <1>1, <1>2, Constants, ReplayAssumption DEF PacketOK
<1> QED  BY <1>1, <1>2, <1>3 DEF IInv, ReceiverInv, Remembered, Replayed

\* Fragments of a message that is not finished: it is collected or handed up.
LEMMA GotFragmentsIInv ==
  ASSUME IInv, NEW m \in DOMAIN submitted, submitted[m] \in Nat, submitted[m] <= now,
         m \in MsgIds, ~Finished(m), ~Replayed(m),
         NEW acks \in SUBSET Frags(m), NEW last \in Int,
         GotFragments(m, acks, last),
         UNCHANGED <<now, txVars, rxTick, discarded>>
  PROVE  IInv'
<1>1. UNCHANGED <<now, txTick, m_TXMsgs, submitted, completions, rxTick, discarded>>
  BY DEF txVars
<1>2. now \in Nat /\ acks \in SUBSET Nat  BY NumFragsAssumption DEF IInv, TypeOK, Frags
<1>3. ClockInv' /\ SenderInv' /\ TXTypeOK'
  BY <1>1 DEF IInv, ClockInv, SenderInv, TypeOK, TXTypeOK, Frags
<1>4. m \notin DOMAIN m_ReplayFilter /\ delivered[m] = 0 /\ m \notin DOMAIN discarded
  BY DEF Replayed, Finished, IInv, TypeOK, RXTypeOK
<1>5. CASE IsCompleted(m, acks)
  <2>1. RecvMsgCompleted(m)  BY <1>5 DEF GotFragments
  <2>2. /\ DOMAIN m_ReplayFilter' = DOMAIN m_ReplayFilter \cup {m}
        /\ m_ReplayFilter'[m] = now
        /\ \A x \in DOMAIN m_ReplayFilter : m_ReplayFilter'[x] = m_ReplayFilter[x]
    BY <1>4, <2>1 DEF RecvMsgCompleted, Emplace, Put
  <2>3. /\ delivered' = [delivered EXCEPT ![m] = @ + 1]
        /\ net' = net \cup {ACKS(m, Frags(m))}
    BY <2>1 DEF RecvMsgCompleted
  <2>4. /\ DOMAIN m_RXMsgs' = DOMAIN m_RXMsgs \ {m}
        /\ \A x \in DOMAIN m_RXMsgs' : m_RXMsgs'[x] = m_RXMsgs[x]
    BY <2>1 DEF RecvMsgCompleted, Erase
  <2>5. /\ delivered' \in [MsgIds -> Nat] /\ delivered'[m] = 1
        /\ \A x \in MsgIds : x # m => delivered'[x] = delivered[x]
    BY <1>4, <2>3 DEF IInv, TypeOK, RXTypeOK
  <2>6. \A x \in MsgIds : Finished(x)' <=> Finished(x) \/ x = m
    BY <1>1, <2>5 DEF Finished
  <2>7. RXTypeOK'
    BY <1>1, <1>2, <2>2, <2>4, <2>5 DEF IInv, TypeOK, RXTypeOK, Frags
  <2>8. NetTypeOK'
    <3> DEFINE q == ACKS(m, Frags(m))
    <3>1. q.cmd = "ACKS" /\ q.id = m /\ q.frags = Frags(m) /\ q.at = now
      BY DEF ACKS, Packet
    <3> HIDE DEF q
    <3>2. net' = net \cup {q}  BY <2>3 DEF q
    <3> QED  BY <1>2, <3>1, <3>2, Zenon DEF IInv, TypeOK, NetTypeOK, Frags
  <2>9. ASSUME NEW q \in net' PROVE PacketOK(q)'
    <3>1. CASE q \in net
      <4>1. PacketOK(q) /\ q.id \in MsgIds  BY <3>1 DEF IInv, PacketInv, TypeOK, NetTypeOK
      <4> QED  BY <1>1, <2>6, <4>1 DEF PacketOK, IsTransmitted, Frags
    <3>2. CASE q = ACKS(m, Frags(m))
      <4>1. q.cmd = "ACKS" /\ q.id = m /\ q.at = now  BY <3>2 DEF ACKS, Packet
      <4> QED  BY <1>1, <1>2, <2>6, <4>1, Constants DEF PacketOK
    <3> QED  BY <2>3, <2>9, <3>1, <3>2
  <2>10. \A x \in MsgIds : Finished(x)' => Remembered(x)'
    BY <1>1, <2>2, <2>6 DEF IInv, ReceiverInv, Remembered
  <2>11. ReceiverInv'
    <3>1. \A x \in DOMAIN m_ReplayFilter' : Finished(x)'
      BY <2>2, <2>6 DEF IInv, ReceiverInv, TypeOK, RXTypeOK
    <3>2. \A x \in DOMAIN m_RXMsgs' : /\ x \in DOMAIN submitted' /\ ~Finished(x)'
                                      /\ ~IsCompleted(x, m_RXMsgs[x].acks)'
      BY <1>1, <2>4, <2>6 DEF IInv, ReceiverInv, TypeOK, RXTypeOK, IsCompleted, Frags
    <3>3. \A x \in MsgIds : delivered'[x] <= 1 /\ (x \in DOMAIN discarded' => delivered'[x] = 0)
      BY <1>1, <1>4, <2>5 DEF IInv, ReceiverInv
    <3> QED  BY <2>10, <3>1, <3>2, <3>3 DEF ReceiverInv
  <2> QED  BY <1>1, <1>3, <2>7, <2>8, <2>9, <2>11 DEF IInv, TypeOK, PacketInv
<1>6. CASE ~IsCompleted(m, acks)
  <2> DEFINE msg == [acks |-> acks, lastActiveAt |-> now, lastACKSent |-> last]
  <2>1. m_RXMsgs' = Put(m_RXMsgs, m, msg) /\ UNCHANGED <<m_ReplayFilter, delivered, net>>
    BY <1>6 DEF GotFragments
  <2>2. /\ DOMAIN m_RXMsgs' = DOMAIN m_RXMsgs \cup {m}
        /\ m_RXMsgs'[m] = msg
        /\ \A x \in DOMAIN m_RXMsgs : x # m => m_RXMsgs'[x] = m_RXMsgs[x]
    BY <2>1 DEF Put
  <2>3. RXTypeOK' /\ NetTypeOK'
    BY <1>1, <1>2, <2>1, <2>2 DEF IInv, TypeOK, RXTypeOK, NetTypeOK, Frags
  <2>4. PacketInv'
    BY <1>1, <2>1 DEF IInv, PacketInv, PacketOK, Finished, IsTransmitted, Frags
  <2>5. ReceiverInv'
    BY <1>1, <1>6, <2>1, <2>2
    DEF IInv, ReceiverInv, Finished, Remembered, IsCompleted, Frags
  <2> QED  BY <1>1, <1>3, <2>3, <2>4, <2>5 DEF IInv, TypeOK
<1> QED  BY <1>5, <1>6

\* A reply of the receiver that says nothing false changes nothing else.
LEMMA ReplyIInv ==
  ASSUME IInv, NEW q, net' = net \cup {q},
         q.cmd \in {"XMIT", "MACK", "NACK"}, q.id \in MsgIds, q.frags \subseteq Frags(q.id),
         q.at = now, q.id \in DOMAIN submitted,
         q.cmd = "MACK" => Finished(q.id),
         q.cmd = "XMIT" => now <= submitted[q.id] + DeliveryTimeout + TickInterval,
         UNCHANGED <<now, txVars, rxVars>>
  PROVE  IInv'
<1>1. /\ UNCHANGED <<now, txTick, m_TXMsgs, submitted, completions>>
      /\ UNCHANGED <<rxTick, m_RXMsgs, m_ReplayFilter, delivered, discarded>>
  BY DEF txVars, rxVars
<1>2. now \in Nat  BY DEF IInv, TypeOK
<1>3. ClockInv' /\ SenderInv' /\ ReceiverInv'
  BY <1>1 DEF IInv, ClockInv, SenderInv, ReceiverInv, Finished, Remembered, IsCompleted, Frags
<1>4. TypeOK'
  BY <1>1, <1>2 DEF IInv, TypeOK, TXTypeOK, RXTypeOK, NetTypeOK, Frags
<1>5. ASSUME NEW r \in net' PROVE PacketOK(r)'
  <2>1. PacketOK(r) \/ r = q  BY <1>5 DEF IInv, PacketInv
  <2>2. CASE r = q
    BY <1>1, <1>2, <2>2, Constants DEF PacketOK, Finished
  <2>3. CASE PacketOK(r)
    BY <1>1, <2>3 DEF PacketOK, Finished, IsTransmitted, Frags
  <2> QED  BY <2>1, <2>2, <2>3
<1> QED  BY <1>3, <1>4, <1>5 DEF IInv, PacketInv

LEMMA HandleXMITIInv == ASSUME IInv, NEW p \in net, HandleXMIT(p) PROVE IInv'
<1>1. /\ p.id \in MsgIds /\ p.id \in DOMAIN submitted /\ p.frags \in SUBSET Frags(p.id)
      /\ p.cmd = "XMIT"
  BY DEF HandleXMIT, IInv, TypeOK, NetTypeOK, PacketInv, PacketOK
<1>2. UNCHANGED <<now, txVars, rxTick, discarded>>  BY DEF HandleXMIT
<1>3. CASE Replayed(p.id)
  <2> DEFINE q == MACK(p.id)
  <2>1. q.cmd = "MACK" /\ q.id = p.id /\ q.frags = {} /\ q.at = now  BY DEF MACK, Packet
  <2>2. net' = net \cup {q} /\ UNCHANGED <<m_RXMsgs, m_ReplayFilter, delivered>>
    BY <1>3 DEF HandleXMIT
  <2>3. Finished(p.id)  BY <1>3 DEF Replayed, IInv, ReceiverInv
  <2> HIDE DEF q
  <2> QED  BY <1>1, <1>2, <2>1, <2>2, <2>3, ReplyIInv DEF rxVars
<1>4. CASE ~Replayed(p.id) /\ p.id \notin DOMAIN m_RXMsgs
  <2>1. NeverSent \in Int  BY Constants DEF NeverSent
  <2>2. GotFragments(p.id, p.frags, NeverSent)  BY <1>4 DEF HandleXMIT
  <2>3. submitted[p.id] \in Nat /\ submitted[p.id] <= now /\ ~Finished(p.id)
    BY <1>1, <1>4, FragmentInTime
  <2> HIDE DEF NeverSent
  <2> QED  BY <1>1, <1>2, <1>4, <2>1, <2>2, <2>3, GotFragmentsIInv
<1>5. CASE ~Replayed(p.id) /\ p.id \in DOMAIN m_RXMsgs
  <2>1. UNCHANGED <<m_RXMsgs, m_ReplayFilter, delivered, net>>  BY <1>5 DEF HandleXMIT
  <2>2. UNCHANGED vars  BY <1>2, <2>1 DEF vars, rxVars
  <2> QED  BY <2>2, StutterIInv
<1> QED  BY <1>3, <1>4, <1>5

LEMMA HandleDATAIInv == ASSUME IInv, NEW p \in net, HandleDATA(p) PROVE IInv'
<1>1. /\ p.id \in MsgIds /\ p.id \in DOMAIN submitted /\ p.frags \in SUBSET Frags(p.id)
      /\ p.cmd = "DATA"
  BY Zenon DEF HandleDATA, IInv, TypeOK, NetTypeOK, PacketInv, PacketOK
<1>2. UNCHANGED <<now, txVars, rxTick, discarded>>  BY DEF HandleDATA
<1>3. CASE p.id \in DOMAIN m_RXMsgs
  <2> DEFINE acks == m_RXMsgs[p.id].acks \cup p.frags
             last == m_RXMsgs[p.id].lastACKSent
  <2>1. acks \in SUBSET Frags(p.id) /\ last \in Int
    BY <1>1, <1>3 DEF IInv, TypeOK, RXTypeOK
  <2>2. GotFragments(p.id, acks, last)  BY <1>3 DEF HandleDATA
  <2>3. ~Replayed(p.id)  BY <1>3 DEF IInv, ReceiverInv, Replayed
  <2>4. submitted[p.id] \in Nat /\ submitted[p.id] <= now /\ ~Finished(p.id)
    BY <1>1, <2>3, FragmentInTime
  <2> HIDE DEF acks, last
  <2> QED  BY <1>1, <1>2, <2>1, <2>2, <2>3, <2>4, GotFragmentsIInv
<1>4. CASE p.id \notin DOMAIN m_RXMsgs
  <2> DEFINE q == IF Replayed(p.id) THEN MACK(p.id) ELSE Packet("NACK", p.id, {})
  <2>1. /\ q.cmd = IF Replayed(p.id) THEN "MACK" ELSE "NACK"
        /\ q.id = p.id /\ q.frags = {} /\ q.at = now
    BY DEF MACK, Packet
  <2>2. net' = net \cup {q} /\ UNCHANGED <<m_RXMsgs, m_ReplayFilter, delivered>>
    BY <1>4 DEF HandleDATA
  <2>3. q.cmd = "MACK" => Finished(p.id)  BY <2>1 DEF Replayed, IInv, ReceiverInv
  <2>4. q.cmd \in {"MACK", "NACK"}  BY <2>1
  <2> HIDE DEF q
  <2> QED  BY <1>1, <1>2, <2>1, <2>2, <2>3, <2>4, ReplyIInv DEF rxVars
<1> QED  BY <1>3, <1>4

LEMMA HandleNACKIInv == ASSUME IInv, NEW p \in net, HandleNACK(p) PROVE IInv'
<1> DEFINE q == XMIT(p.id)
<1>1. q.cmd = "XMIT" /\ q.id = p.id /\ q.frags = {0} /\ q.at = now  BY DEF XMIT, Packet
<1>2. net' = net \cup {q} /\ UNCHANGED <<now, txVars, rxVars>> /\ p.id \in DOMAIN m_TXMsgs
  BY DEF HandleNACK
<1>3. /\ p.id \in MsgIds /\ p.id \in DOMAIN submitted
      /\ now <= submitted[p.id] + DeliveryTimeout + TickInterval
  BY <1>2, HeldInTime
<1>4. {0} \subseteq Frags(p.id)  BY <1>3, NumFragsAssumption DEF Frags
<1> HIDE DEF q
<1> QED  BY <1>1, <1>2, <1>3, <1>4, ReplyIInv

\* The sender completes a message the receiver is finished with.
LEMMA CompleteIInv ==
  ASSUME IInv, NEW m \in DOMAIN m_TXMsgs, Complete(m),
         UNCHANGED <<now, txTick, submitted, rxVars, net>>
  PROVE  IInv'
<1>1. UNCHANGED <<now, txTick, submitted, net, rxTick, m_RXMsgs, m_ReplayFilter, delivered, discarded>>
  BY DEF rxVars
<1>2. /\ DOMAIN m_TXMsgs' = DOMAIN m_TXMsgs \ {m}
      /\ \A x \in DOMAIN m_TXMsgs' : m_TXMsgs'[x] = m_TXMsgs[x]
  BY DEF Complete, Erase
<1>3. /\ m \in MsgIds /\ m \in DOMAIN submitted /\ completions[m] = <<>>
      /\ completions \in [MsgIds -> Seq({"success", "dropped"})]
  BY DEF IInv, TypeOK, TXTypeOK, SenderInv
<1>4. /\ completions'[m] = Append(completions[m], "success")
      /\ \A x \in MsgIds : x # m => completions'[x] = completions[x]
      /\ completions' \in [MsgIds -> Seq({"success", "dropped"})]
  BY <1>3 DEF Complete, Inform
<1>5. completions'[m] = <<"success">>  BY <1>3, <1>4
<1>6. TypeOK'
  BY <1>1, <1>2, <1>4 DEF IInv, TypeOK, TXTypeOK, RXTypeOK, NetTypeOK, Frags
<1>7. SenderInv'
  <2>1. DOMAIN m_TXMsgs \subseteq MsgIds /\ DOMAIN submitted \subseteq MsgIds
    BY DEF IInv, TypeOK, TXTypeOK
  <2>2. \A x \in DOMAIN m_TXMsgs' :
          /\ x \in DOMAIN submitted' /\ m_TXMsgs'[x].startedAt = submitted'[x]
          /\ txTick' <= submitted'[x] + DeliveryTimeout /\ completions'[x] = <<>>
    BY <1>1, <1>2, <1>4, <2>1 DEF IInv, SenderInv
  <2>3. \A x \in MsgIds \ DOMAIN submitted' : completions'[x] = <<>>
    BY <1>1, <1>3, <1>4 DEF IInv, SenderInv
  <2>4. \A x \in DOMAIN submitted' \ DOMAIN m_TXMsgs' :
          completions'[x] \in {<<"success">>, <<"dropped">>}
    BY <1>1, <1>2, <1>4, <1>5, <2>1, Zenon DEF IInv, SenderInv
  <2> QED  BY <2>2, <2>3, <2>4 DEF SenderInv
<1>8. ClockInv' /\ PacketInv'
  BY <1>1 DEF IInv, ClockInv, PacketInv, PacketOK, Finished, IsTransmitted, Frags
<1>9. ReceiverInv'
  BY <1>1 DEF IInv, ReceiverInv, Finished, Remembered, IsCompleted, Frags
<1> QED  BY <1>9, <1>6, <1>7, <1>8 DEF IInv

LEMMA HandleMACKIInv == ASSUME IInv, NEW p \in net, HandleMACK(p) PROVE IInv'
BY CompleteIInv DEF HandleMACK

LEMMA HandleACKSIInv == ASSUME IInv, NEW p \in net, HandleACKS(p) PROVE IInv'
<1>1. p.id \in DOMAIN m_TXMsgs /\ UNCHANGED <<now, txTick, submitted, rxVars>>
  BY DEF HandleACKS
<1>2. CASE IsTransmitted(p.id, p.frags)
  BY <1>1, <1>2, CompleteIInv DEF HandleACKS
<1>3. CASE ~IsTransmitted(p.id, p.frags)
  <2>1. /\ net' = net \cup FlushUnAcked(p.id, p.frags)
        /\ m_TXMsgs' = [m_TXMsgs EXCEPT ![p.id].acks = p.frags, ![p.id].lastFlush = now]
        /\ UNCHANGED completions
    BY <1>3 DEF HandleACKS
  <2>2. UNCHANGED <<now, txTick, submitted, rxTick, m_RXMsgs, m_ReplayFilter, delivered, discarded>>
    BY <1>1 DEF rxVars
  <2>3. now \in Nat /\ p.frags \subseteq Frags(p.id) /\ p.id \in MsgIds
    BY DEF IInv, TypeOK, NetTypeOK
  <2>4. p.frags \subseteq Nat  BY <2>3, NumFragsAssumption DEF Frags
  <2>5. DOMAIN m_TXMsgs' = DOMAIN m_TXMsgs  BY <2>1
  <2>6. ASSUME NEW m \in DOMAIN m_TXMsgs
        PROVE  /\ m_TXMsgs'[m] \in [acks : SUBSET Nat, lastFlush : Nat, startedAt : Nat]
               /\ m_TXMsgs'[m].acks \subseteq Frags(m)
               /\ m_TXMsgs'[m].startedAt = m_TXMsgs[m].startedAt
    <3>1. /\ m_TXMsgs[m] \in [acks : SUBSET Nat, lastFlush : Nat, startedAt : Nat]
          /\ m_TXMsgs[m].acks \subseteq Frags(m)
      BY DEF IInv, TypeOK, TXTypeOK
    <3>2. CASE m = p.id
      <4>1. m_TXMsgs'[m] = [m_TXMsgs[m] EXCEPT !.acks = p.frags, !.lastFlush = now]
        BY <1>1, <2>1, <3>2
      <4>2. /\ m_TXMsgs'[m].acks = p.frags /\ m_TXMsgs'[m].lastFlush = now
            /\ m_TXMsgs'[m].startedAt = m_TXMsgs[m].startedAt
        BY <3>1, <4>1
      <4> QED  BY <2>3, <2>4, <3>1, <3>2, <4>1, <4>2
    <3>3. CASE m # p.id
      <4>1. m_TXMsgs'[m] = m_TXMsgs[m]  BY <1>1, <2>1, <3>3
      <4> QED  BY <3>1, <4>1
    <3> QED  BY <3>2, <3>3
  <2>7. ASSUME NEW q \in net' \ net
        PROVE  q.cmd = "DATA" /\ q.id = p.id /\ q.at = now /\ q.frags \subseteq Frags(p.id)
    BY <2>1, <2>7 DEF FlushUnAcked, Packet
  <2>8. TXTypeOK'
    BY <2>1, <2>2, <2>5, <2>6 DEF IInv, TypeOK, TXTypeOK, Frags
  <2>9. NetTypeOK'
    BY <2>3, <2>7 DEF IInv, TypeOK, NetTypeOK, Frags
  <2>10. TypeOK'
    BY <2>2, <2>8, <2>9 DEF IInv, TypeOK, RXTypeOK, Frags
  <2>11. ClockInv' /\ SenderInv' /\ ReceiverInv'
    BY <2>1, <2>2, <2>5, <2>6 DEF IInv, ClockInv, SenderInv, ReceiverInv, Finished, Remembered
  <2>12. ASSUME NEW q \in net' PROVE PacketOK(q)'
    <3>1. CASE q \in net
      <4>1. PacketOK(q)  BY <3>1 DEF IInv, PacketInv
      <4> QED  BY <2>2, <4>1 DEF PacketOK, Finished
    <3>2. CASE q \notin net
      BY <1>1, <2>2, <2>3, <2>7, <3>2, HeldInTime, Constants DEF PacketOK
    <3> QED  BY <3>1, <3>2
  <2> QED  BY <2>10, <2>11, <2>12 DEF IInv, PacketInv
<1> QED  BY <1>2, <1>3

\* Every step of the session preserves the invariant.
LEMMA NextIInv == IInv /\ [Next]_vars => IInv'
<1> SUFFICES ASSUME IInv, [Next]_vars PROVE IInv'
  OBVIOUS
<1>1. CASE UNCHANGED vars
  BY <1>1, StutterIInv
<1>2. CASE \E m \in MsgIds : SendMessageBuffer(m)
  BY <1>2, SendMessageBufferIInv
<1>3. CASE PumpTX \/ PumpRX \/ TickTX \/ TickRX \/ AdvanceTime
  BY <1>3, PumpTXIInv, PumpRXIInv, TickTXIInv, TickRXIInv, AdvanceTimeIInv
<1>4. CASE \E p \in net : \/ HandleXMIT(p) \/ HandleDATA(p)
                          \/ HandleACKS(p) \/ HandleMACK(p) \/ HandleNACK(p)
  BY <1>4, HandleXMITIInv, HandleDATAIInv, HandleACKSIInv, HandleMACKIInv, HandleNACKIInv
<1> QED  BY <1>1, <1>2, <1>3, <1>4 DEF Next

\* The invariant holds in every state of every session.
LEMMA Invariance == Spec => []IInv
BY InitIInv, NextIInv, PTL DEF Spec

\* Type correctness: acks, packets and maps stay what the code takes them for.
THEOREM TypeCorrect == Spec => []TypeOK
<1>1. IInv => TypeOK  BY DEF IInv
<1> QED  BY <1>1, Invariance, PTL

\* HandleRecvMsgCompleted hands no message to the router twice, for any number
\* of messages and fragments and any loss, duplication, delay and reordering of
\* packets within MaxLatency, if ReplayWindow exceeds DeliveryTimeout plus a
\* timer interval plus MaxLatency.
THEOREM DeliveredAtMostOnce == Spec => []AtMostOnceDelivery
<1>1. IInv => AtMostOnceDelivery
  BY DEF IInv, ReceiverInv, AtMostOnceDelivery
<1> QED  BY <1>1, Invariance, PTL

\* The CompletionHandler of every message was called when DeliveryTimeout plus
\* a timer interval has passed since SendMessageBuffer.
THEOREM CompletedInTime == Spec => []TimelyCompletion
<1>1. IInv => TimelyCompletion
  <2> SUFFICES ASSUME IInv, NEW m \in DOMAIN submitted, completions[m] = <<>>
               PROVE  now <= submitted[m] + DeliveryTimeout + TickInterval
    BY DEF TimelyCompletion
  <2>1. m \in DOMAIN m_TXMsgs
    <3>1. <<>> \notin {<<"success">>, <<"dropped">>}  OBVIOUS
    <3> QED  BY <3>1, Zenon DEF IInv, SenderInv
  <2> QED  BY <2>1, HeldInTime
<1> QED  BY <1>1, Invariance, PTL

-----------------------------------------------------------------------------
(* The message layer of an iwp session implements MessageDelivery, by the     *)
(* invariant above.                                                           *)

st == [m \in MsgIds |-> Status(m)]
oc == [m \in MsgIds |-> Outcome(m)]

\* The status of a message, by where the sender keeps it.
LEMMA StatusFacts ==
  ASSUME IInv, NEW m \in MsgIds
  PROVE  /\ m \notin DOMAIN submitted => Status(m) = "unsent"
         /\ m \in DOMAIN m_TXMsgs => Status(m) = "pending"
         /\ completions[m] = <<"success">> => Status(m) = "success"
         /\ completions[m] = <<"dropped">> => Status(m) = "dropped"
         /\ Status(m) = "unsent" => m \notin DOMAIN submitted
<1>1. CASE m \notin DOMAIN submitted
  <2>1. completions[m] = <<>> /\ m \notin DOMAIN m_TXMsgs  BY <1>1 DEF IInv, SenderInv
  <2> QED  BY <1>1, <2>1 DEF Status
<1>2. CASE m \in DOMAIN m_TXMsgs
  <2>1. m \in DOMAIN submitted /\ completions[m] = <<>>  BY <1>2 DEF IInv, SenderInv
  <2> QED  BY <1>2, <2>1 DEF Status
<1>3. CASE m \in DOMAIN submitted \ DOMAIN m_TXMsgs
  <2>1. CASE completions[m] = <<"success">>
    BY <1>3, <2>1 DEF Status
  <2>2. CASE completions[m] = <<"dropped">>
    BY <1>3, <2>2 DEF Status
  <2> QED  BY <1>3, <2>1, <2>2 DEF IInv, SenderInv
<1> QED  BY <1>1, <1>2, <1>3 DEF IInv, SenderInv

\* The outcome of a message, by what the receiver did with it.
LEMMA OutcomeFacts ==
  ASSUME IInv, NEW m \in MsgIds
  PROVE  /\ ~Finished(m) <=> Outcome(m) = "none"
         /\ delivered[m] = 1 => Outcome(m) = "delivered"
         /\ m \in DOMAIN discarded => Outcome(m) = "abandoned"
<1>1. /\ delivered[m] \in Nat /\ delivered[m] <= 1
      /\ m \in DOMAIN discarded => delivered[m] = 0
  BY DEF IInv, TypeOK, RXTypeOK, ReceiverInv
<1>2. delivered[m] = 0 \/ delivered[m] = 1  BY <1>1
<1> QED  BY <1>1, <1>2 DEF Outcome, Finished

\* A new session is a new delivery service.
LEMMA InitService == Init => Service!Init
<1> SUFFICES ASSUME Init PROVE Service!Init
  OBVIOUS
<1>1. \A m \in MsgIds : Status(m) = "unsent" /\ Outcome(m) = "none"
  BY DEF Init, Status, Outcome, EmptyMap
<1> QED  BY <1>1 DEF Service!Init

\* A step that calls no handler and finishes no message is a stutter.
LEMMA StutterService ==
  ASSUME UNCHANGED <<submitted, completions, delivered, discarded>>
  PROVE  UNCHANGED <<st, oc>>
BY DEF st, oc, Status, Outcome

LEMMA SubmitService ==
  ASSUME IInv, IInv', NEW m \in MsgIds, SendMessageBuffer(m)
  PROVE  Service!Submit(m)
<1>1. /\ m \notin DOMAIN submitted /\ submitted' = Put(submitted, m, now)
      /\ UNCHANGED <<delivered, discarded>>
  BY DEF SendMessageBuffer, rxVars
<1>2. /\ DOMAIN submitted' = DOMAIN submitted \cup {m}
      /\ m \notin DOMAIN m_TXMsgs /\ completions[m] = <<>>
  BY <1>1 DEF Put, IInv, SenderInv
<1>3. \A x \in MsgIds : x # m => completions'[x] = completions[x]
  BY DEF SendMessageBuffer, Inform
<1>4. \A x \in MsgIds : x # m => Status(x)' = Status(x)
  BY <1>2, <1>3 DEF Status
<1>5. Status(m) = "unsent"  BY <1>1, StatusFacts
<1>6. Status(m)' \in {"pending", "dropped"}
  <2>1. CASE Inform({m}, "dropped") /\ UNCHANGED m_TXMsgs
    <3>1. completions'[m] = Append(completions[m], "dropped")  BY <2>1 DEF Inform
    <3>2. completions'[m] = <<"dropped">>  BY <1>2, <3>1
    <3> QED  BY <1>2, <3>2 DEF Status
  <2>2. CASE UNCHANGED completions
    BY <1>2, <2>2 DEF Status
  <2> QED  BY <2>1, <2>2 DEF SendMessageBuffer
<1>7. oc' = oc  BY <1>1 DEF oc, Outcome
<1> QED  BY <1>4, <1>5, <1>6, <1>7 DEF Service!Submit, Service!Set, oc

LEMMA DropService ==
  ASSUME IInv, IInv', TickTX
  PROVE  \E M \in SUBSET MsgIds : Service!Drop(M)
<1> DEFINE late == {m \in DOMAIN m_TXMsgs : TXTimedOut(m)}
<1>1. UNCHANGED <<submitted, delivered, discarded>> /\ Inform(late, "dropped")
  BY DEF TickTX, rxVars
<1>2. late \in SUBSET MsgIds  BY DEF IInv, TypeOK, TXTypeOK
<1>3. ASSUME NEW m \in late PROVE Status(m) = "pending" /\ Status(m)' = "dropped"
  <2>1. m \in MsgIds /\ m \in DOMAIN submitted /\ completions[m] = <<>>
    BY <1>2 DEF IInv, SenderInv
  <2>2. completions'[m] = Append(completions[m], "dropped")  BY <1>1, <2>1, Zenon DEF Inform
  <2>3. completions'[m] = <<"dropped">>  BY <2>1, <2>2
  <2> QED  BY <1>1, <2>1, <2>3 DEF Status
<1>4. ASSUME NEW m \in MsgIds \ late PROVE Status(m)' = Status(m)
  <2>1. completions'[m] = completions[m]  BY <1>1 DEF Inform
  <2> QED  BY <1>1, <2>1 DEF Status
<1>5. oc' = oc  BY <1>1 DEF oc, Outcome
<1> HIDE DEF late
<1>6. Service!Drop(late)
  BY <1>2, <1>3, <1>4, <1>5 DEF Service!Drop, Service!Is, Service!Set, oc
<1> QED  BY <1>2, <1>6

LEMMA AbandonService ==
  ASSUME IInv, IInv', TickRX
  PROVE  \E M \in SUBSET MsgIds : Service!Abandon(M)
<1> DEFINE late == {m \in DOMAIN m_RXMsgs : RXTimedOut(m)}
<1>1. /\ UNCHANGED <<submitted, completions, delivered>>
      /\ DOMAIN discarded' = DOMAIN discarded \cup late
  BY DEF TickRX, txVars
<1>2. late \in SUBSET MsgIds  BY DEF IInv, TypeOK, RXTypeOK
<1>3. ASSUME NEW m \in late
      PROVE  Status(m) # "unsent" /\ Outcome(m) = "none" /\ Outcome(m)' = "abandoned"
  <2>1. m \in DOMAIN submitted /\ ~Finished(m)  BY DEF IInv, ReceiverInv
  <2>2. m \in DOMAIN discarded' /\ m \in MsgIds  BY <1>1, <1>2
  <2>3. Status(m) # "unsent" /\ Outcome(m) = "none"
    BY <2>1, <2>2, StatusFacts, OutcomeFacts
  <2>4. delivered[m] = 0  BY <2>1, <2>2 DEF Finished, IInv, TypeOK, RXTypeOK
  <2>5. Outcome(m)' = "abandoned"  BY <1>1, <2>2, <2>4 DEF Outcome
  <2> QED  BY <2>3, <2>5
<1>4. \A m \in MsgIds \ late : Outcome(m)' = Outcome(m)  BY <1>1 DEF Outcome
<1>5. st' = st  BY <1>1 DEF st, Status
<1> HIDE DEF late
<1>6. Service!Abandon(late)
  BY <1>2, <1>3, <1>4, <1>5 DEF Service!Abandon, Service!Set, st
<1> QED  BY <1>2, <1>6

LEMMA SucceedService ==
  ASSUME IInv, NEW m \in DOMAIN m_TXMsgs, Finished(m), Complete(m),
         UNCHANGED <<submitted, delivered, discarded>>
  PROVE  m \in MsgIds /\ Service!Succeed(m)
<1>1. m \in MsgIds /\ m \in DOMAIN submitted /\ completions[m] = <<>>
  BY DEF IInv, SenderInv, TypeOK, TXTypeOK
<1>2. completions'[m] = Append(completions[m], "success")
  BY <1>1, Zenon DEF Complete, Inform
<1>3. completions'[m] = <<"success">>  BY <1>1, <1>2
<1>4. Status(m) = "pending" /\ Status(m)' = "success"
  BY <1>1, <1>3 DEF Status
<1>5. \A x \in MsgIds : x # m => Status(x)' = Status(x)
  BY DEF Complete, Inform, Status
<1>6. Outcome(m) # "none"  BY <1>1, OutcomeFacts
<1>7. oc' = oc  BY DEF oc, Outcome
<1> QED  BY <1>1, <1>4, <1>5, <1>6, <1>7 DEF Service!Succeed, Service!Set, oc

LEMMA DeliverService ==
  ASSUME IInv, NEW m \in MsgIds, m \in DOMAIN submitted, ~Finished(m), ~Replayed(m),
         NEW acks, NEW last, GotFragments(m, acks, last),
         UNCHANGED <<submitted, completions, discarded>>
  PROVE  Service!Deliver(m) \/ UNCHANGED <<st, oc>>
<1>1. CASE delivered' = [delivered EXCEPT ![m] = @ + 1]
  <2>0. delivered \in [MsgIds -> Nat]  BY DEF IInv, TypeOK, RXTypeOK
  <2>1. delivered[m] = 0 /\ m \notin DOMAIN discarded  BY <2>0 DEF Finished
  <2>2. delivered'[m] = 1 /\ \A x \in MsgIds : x # m => delivered'[x] = delivered[x]
    BY <1>1, <2>0, <2>1
  <2>3. Outcome(m) = "none" /\ Outcome(m)' = "delivered"  BY <2>1, <2>2 DEF Outcome
  <2>4. \A x \in MsgIds : x # m => Outcome(x)' = Outcome(x)  BY <2>2 DEF Outcome
  <2>5. Status(m) # "unsent"  BY StatusFacts
  <2>6. st' = st  BY DEF st, Status
  <2> QED  BY <2>3, <2>4, <2>5, <2>6 DEF Service!Deliver, Service!Set, st
<1>2. CASE UNCHANGED delivered
  BY <1>2, StutterService
<1> QED  BY <1>1, <1>2 DEF GotFragments, RecvMsgCompleted

\* A packet's handler is a step of the service, or a stutter.
LEMMA HandlerService ==
  ASSUME IInv, NEW p \in net,
         \/ HandleXMIT(p) \/ HandleDATA(p) \/ HandleACKS(p) \/ HandleMACK(p) \/ HandleNACK(p)
  PROVE  \/ \E m \in MsgIds : Service!Deliver(m) \/ Service!Succeed(m)
         \/ UNCHANGED <<st, oc>>
<1>1. p.id \in MsgIds /\ p.id \in DOMAIN submitted /\ PacketOK(p)
  BY DEF IInv, TypeOK, NetTypeOK, PacketInv, PacketOK
<1>2. CASE HandleXMIT(p)
  <2>1. UNCHANGED <<submitted, completions, discarded>> /\ p.cmd = "XMIT"
    BY <1>2 DEF HandleXMIT, txVars
  <2>2. CASE ~Replayed(p.id) /\ GotFragments(p.id, p.frags, NeverSent)
    <3>1. ~Finished(p.id)  BY <2>1, <2>2, FragmentInTime, Zenon
    <3> QED  BY <1>1, <2>1, <2>2, <3>1, DeliverService, Zenon
  <2>3. CASE UNCHANGED delivered
    BY <2>1, <2>3, StutterService
  <2> QED  BY <1>2, <2>2, <2>3 DEF HandleXMIT
<1>3. CASE HandleDATA(p)
  <2>1. UNCHANGED <<submitted, completions, discarded>> /\ p.cmd = "DATA"
    <3>1. UNCHANGED <<txVars, discarded>> /\ p.cmd = "DATA"  BY <1>3, Zenon DEF HandleDATA
    <3> QED  BY <3>1 DEF txVars
  <2>2. CASE p.id \in DOMAIN m_RXMsgs
    <3>1. ~Finished(p.id) /\ ~Replayed(p.id)
      BY <2>2 DEF IInv, ReceiverInv, Replayed
    <3>2. GotFragments(p.id, m_RXMsgs[p.id].acks \cup p.frags, m_RXMsgs[p.id].lastACKSent)
      BY <1>3, <2>2, Zenon DEF HandleDATA
    <3> QED  BY <1>1, <2>1, <3>1, <3>2, DeliverService, Zenon
  <2>3. CASE p.id \notin DOMAIN m_RXMsgs
    <3>1. UNCHANGED delivered  BY <1>3, <2>3 DEF HandleDATA
    <3> QED  BY <2>1, <3>1, StutterService
  <2> QED  BY <2>2, <2>3
<1>4. CASE HandleACKS(p)
  <2>1. /\ UNCHANGED <<submitted, delivered, discarded>>
        /\ p.cmd = "ACKS" /\ p.id \in DOMAIN m_TXMsgs
    BY <1>4 DEF HandleACKS, rxVars
  <2>2. CASE IsTransmitted(p.id, p.frags)
    <3>1. Finished(p.id) /\ Complete(p.id)
      BY <1>1, <1>4, <2>1, <2>2 DEF PacketOK, HandleACKS
    <3> QED  BY <2>1, <3>1, SucceedService
  <2>3. CASE ~IsTransmitted(p.id, p.frags)
    <3>1. UNCHANGED completions  BY <1>4, <2>3 DEF HandleACKS
    <3> QED  BY <2>1, <3>1, StutterService
  <2> QED  BY <2>2, <2>3
<1>5. CASE HandleMACK(p)
  <2>1. /\ UNCHANGED <<submitted, delivered, discarded>>
        /\ p.cmd = "MACK" /\ p.id \in DOMAIN m_TXMsgs /\ Complete(p.id)
    BY <1>5 DEF HandleMACK, rxVars
  <2> QED  BY <1>1, <2>1, SucceedService DEF PacketOK
<1>6. CASE HandleNACK(p)
  BY <1>6, StutterService DEF HandleNACK, txVars, rxVars
<1> QED  BY <1>2, <1>3, <1>4, <1>5, <1>6

\* Every step of the session is a step of the service, or a stutter.
LEMMA NextService ==
  ASSUME IInv, IInv', [Next]_vars
  PROVE  Service!Next \/ UNCHANGED <<st, oc>>
<1>1. CASE UNCHANGED vars \/ PumpTX \/ PumpRX \/ AdvanceTime
  BY <1>1, StutterService DEF vars, txVars, rxVars, PumpTX, PumpRX, AdvanceTime
<1>2. CASE \E m \in MsgIds : SendMessageBuffer(m)
  BY <1>2, SubmitService DEF Service!Next
<1>3. CASE TickTX
  BY <1>3, DropService DEF Service!Next
<1>4. CASE TickRX
  BY <1>4, AbandonService DEF Service!Next
<1>5. CASE \E p \in net : \/ HandleXMIT(p) \/ HandleDATA(p)
                          \/ HandleACKS(p) \/ HandleMACK(p) \/ HandleNACK(p)
  BY <1>5, HandlerService DEF Service!Next
<1> QED  BY <1>1, <1>2, <1>3, <1>4, <1>5 DEF Next

\* The message layer of a session implements the delivery service: every
\* message is handed up or given up once and its handler is called once, with
\* success only when the receiver is done with the message.  (That the handler
\* is called in the end is left to model checking.)
THEOREM DeliveryRefinement == Spec => Service!Safety
<1>1. IInv /\ IInv' /\ [Next]_vars => [Service!Next]_<<st, oc>>
  BY NextService
<1> QED  BY <1>1, InitService, Invariance, PTL DEF Spec, Service!Safety, st, oc
=============================================================================
