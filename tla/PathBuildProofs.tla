-------------------------- MODULE PathBuildProofs --------------------------
(***************************************************************************)
(* Theorems about PathBuild for a path of any number of hops.              *)
(***************************************************************************)
EXTENDS PathBuild, SequenceTheorems, TLAPS

Frame == [by : Hops, status : RecordStatus]

Message ==
  [creator : Hops, from : Hops, status : RecordStatus, frames : Seq(Frame),
   net : {"sent", "delivered"}, result : Results]

\* A message has a frame of every hop it came from and of those behind it, up to
\* its creator; only the creator's says what went wrong.
MessageOK(msg) ==
  /\ msg \in Message
  /\ msg.from <= msg.creator
  /\ msg.status = "SUCCESS" => msg.creator = NumHops
  /\ Len(msg.frames) = msg.creator - msg.from + 1
  /\ \A k \in 1..Len(msg.frames) :
       /\ msg.frames[k].by = msg.from + k - 1
       /\ msg.frames[k].status = IF msg.from + k - 1 = msg.creator THEN msg.status ELSE "SUCCESS"

MessageInv == \A msg \in lrsm : MessageOK(msg)

HopType ==
  [state : {"none", "put", "gone"}, age : 0..default_lifetime, destroy : BOOLEAN]

StateInv ==
  /\ status \in {"Building", "Established", "Failed", "Expired", "Gone"}
  /\ age \in 0..default_lifetime
  /\ lrcm \in [Hops -> {"none", "sent", "decrypted", "handled"}]
  /\ result \in [Nodes -> Results]
  /\ hop \in [Hops -> HopType]
  /\ latency \in {"none", "up", "down", "done"} \X Nodes

\* A hop is never older than the path.
AgeInv ==
  \A i \in Hops :
    /\ hop[i].age <= age
    /\ hop[i].state = "gone" /\ ~hop[i].destroy => age >= default_lifetime

IInv == StateInv /\ MessageInv /\ AgeInv

----------------------------------------------------------------------------
(* Messages                                                                 *)

\* Putting a frame in front of another keeps the order of the hops.
LEMMA AddFrameSeq ==
  ASSUME NEW S, NEW s \in Seq(S), NEW x \in S
  PROVE  /\ <<x>> \o s \in Seq(S)
         /\ Len(<<x>> \o s) = Len(s) + 1
         /\ (<<x>> \o s)[1] = x
         /\ \A k \in 2..Len(s) + 1 : (<<x>> \o s)[k] = s[k - 1]
OBVIOUS

\* A hop's own status message (CreateAndSend) is in order.
LEMMA CreatedOK ==
  ASSUME BuildAssumption, NEW i \in Hops, NEW st \in RecordStatus,
         st = "SUCCESS" => i = NumHops
  PROVE  MessageOK(CreateAndSend(i, st))
<1> DEFINE f == [by |-> i, status |-> st]
           m == CreateAndSend(i, st)
<1>1. f \in Frame
  BY DEF Frame
<1>2. /\ <<f>> \o <<>> \in Seq(Frame) /\ Len(<<f>> \o <<>>) = 1
      /\ (<<f>> \o <<>>)[1] = f
  BY <1>1
<1>3. m = [creator |-> i, from |-> i, status |-> st, frames |-> <<f>> \o <<>>,
           net |-> "sent", result |-> "pending"]
  BY DEF CreateAndSend, Send, AddFrame
<1> HIDE DEF m, f
<1>4. m \in Message /\ m.from = i /\ m.creator = i /\ m.status = st
      /\ Len(m.frames) = 1 /\ m.frames[1] = f
  BY <1>2, <1>3 DEF Message, Results
<1>5. f.by = i /\ f.status = st
  BY DEF f
<1>6. i \in Nat
  BY DEF Hops
<1>7. MessageOK(m)
  BY <1>4, <1>5, <1>6 DEF MessageOK
<1> QED
  BY <1>7 DEF m

\* So is one that a hop sends on with its own frame in front (AddFrame).
LEMMA ForwardedOK ==
  ASSUME BuildAssumption, NEW msg, MessageOK(msg), msg.from - 1 \in Hops
  PROVE  MessageOK(Send(msg.creator, msg.from - 1, msg.status,
                        AddFrame(msg.frames, msg.from - 1, "SUCCESS")))
<1> DEFINE i == msg.from - 1
           f == [by |-> i, status |-> "SUCCESS"]
           fs == <<f>> \o msg.frames
           m == Send(msg.creator, i, msg.status, AddFrame(msg.frames, i, "SUCCESS"))
<1>1. f \in Frame /\ msg.frames \in Seq(Frame) /\ f.by = i /\ f.status = "SUCCESS"
  BY DEF Frame, MessageOK, Message, RecordStatus
<1>2. /\ fs \in Seq(Frame) /\ Len(fs) = Len(msg.frames) + 1 /\ fs[1] = f
      /\ \A k \in 2..Len(msg.frames) + 1 : fs[k] = msg.frames[k - 1]
  BY <1>1, AddFrameSeq
<1>3. m = [creator |-> msg.creator, from |-> i, status |-> msg.status, frames |-> fs,
           net |-> "sent", result |-> "pending"]
  BY DEF Send, AddFrame
<1>4. msg.creator \in Nat /\ i \in Nat /\ msg.from = i + 1 /\ msg.from <= msg.creator
      /\ msg.creator \in Hops /\ msg.status \in RecordStatus /\ i \in Hops
  BY DEF Hops, MessageOK, Message
<1> HIDE DEF m, fs, f, i
<1>5. m \in Message /\ m.from = i /\ m.creator = msg.creator /\ m.status = msg.status
      /\ m.frames = fs
  BY <1>2, <1>3, <1>4 DEF Message, Results
<1>6. Len(fs) = msg.creator - i + 1
  BY <1>2, <1>4 DEF MessageOK
<1>7. ASSUME NEW k \in 1..Len(fs)
      PROVE  /\ fs[k].by = i + k - 1
             /\ fs[k].status = IF i + k - 1 = msg.creator THEN msg.status ELSE "SUCCESS"
  <2>1. CASE k = 1
    BY <2>1, <1>1, <1>2, <1>4
  <2>2. CASE k # 1
    <3>1. Len(msg.frames) \in Nat
      BY <1>1
    <3>2. k - 1 \in 1..Len(msg.frames) /\ k \in 2..Len(msg.frames) + 1
      BY <2>2, <1>2, <3>1
    <3>3. fs[k] = msg.frames[k - 1]
      BY <1>2, <3>2
    <3>4. /\ msg.frames[k - 1].by = msg.from + (k - 1) - 1
          /\ msg.frames[k - 1].status = IF msg.from + (k - 1) - 1 = msg.creator
                                          THEN msg.status ELSE "SUCCESS"
      BY <3>2 DEF MessageOK
    <3>5. msg.from + (k - 1) - 1 = i + k - 1
      BY <1>4, <3>2
    <3> QED
      BY <3>3, <3>4, <3>5
  <2> QED
    BY <2>1, <2>2
<1>8. /\ m.from <= m.creator /\ Len(m.frames) = m.creator - m.from + 1
      /\ m.status = "SUCCESS" => m.creator = NumHops
  BY <1>4, <1>5, <1>6 DEF MessageOK
<1>9. \A k \in 1..Len(m.frames) :
        /\ m.frames[k].by = m.from + k - 1
        /\ m.frames[k].status = IF m.from + k - 1 = m.creator THEN m.status ELSE "SUCCESS"
  BY <1>5, <1>7
<1>10. MessageOK(m)
  BY <1>5, <1>8, <1>9 DEF MessageOK
<1> QED
  BY <1>10 DEF m, i

\* What happens to a message on its way changes neither its frames nor its verdict.
LEMMA UpdatedOK ==
  ASSUME NEW msg, MessageOK(msg), NEW n \in {"sent", "delivered"}, NEW r \in Results
  PROVE  /\ MessageOK([msg EXCEPT !.net = n])
         /\ MessageOK([msg EXCEPT !.result = r])
BY DEF MessageOK, Message

\* What the client reads from such a message is what its creator wrote.
LEMMA ReadOK ==
  ASSUME BuildAssumption, NEW msg, MessageOK(msg), msg.from = 1
  PROVE  ReadFrames(msg.frames) = [at |-> msg.creator, status |-> msg.status]
<1> DEFINE fs == msg.frames
           c == msg.creator
           wrong == {i \in Hops : i > Len(fs) \/ fs[i].by # i \/ fs[i].status # "SUCCESS"}
           first == CHOOSE i \in wrong : \A j \in wrong : i <= j
<1>1. c \in Hops /\ Hops = 1..NumHops /\ NumHops \in Nat /\ c \in Nat /\ c >= 1
  BY DEF MessageOK, Message, Hops, BuildAssumption
<1>2. Len(fs) = c
  BY <1>1 DEF MessageOK
<1>3. \A k \in 1..c : fs[k].by = k /\ fs[k].status = IF k = c THEN msg.status ELSE "SUCCESS"
  <2> TAKE k \in 1..c
  <2>1. 1 + k - 1 = k
    BY <1>1
  <2> QED
    BY <1>2, <2>1 DEF MessageOK
<1>4. ReadFrames(fs) = IF wrong = {} THEN [at |-> NumHops, status |-> "SUCCESS"]
                       ELSE IF first > Len(fs) \/ fs[first].by # first
                              THEN [at |-> first, status |-> "FAIL_DECRYPT_ERROR"]
                              ELSE [at |-> first, status |-> fs[first].status]
  BY Zenon DEF ReadFrames
<1> HIDE DEF fs
<1>5. CASE msg.status = "SUCCESS"
  <2>1. c = NumHops
    BY <1>5 DEF MessageOK
  <2>2. wrong = {}
    BY <1>1, <1>2, <1>3, <1>5, <2>1
  <2> QED
    BY <1>4, <1>5, <2>1, <2>2 DEF fs
<1>6. CASE msg.status # "SUCCESS"
  <2>1. c \in wrong
    BY <1>1, <1>2, <1>3, <1>6
  <2>2. \A j \in wrong : c <= j
    BY <1>1, <1>2, <1>3
  <2>3. first \in wrong /\ \A j \in wrong : first <= j
    BY <2>1, <2>2, Zenon
  <2>4. first \in Hops /\ first <= c /\ c <= first
    <3> HIDE DEF first
    <3> QED
      BY <2>1, <2>2, <2>3
  <2> HIDE DEF first, wrong
  <2>5. first = c
    BY <1>1, <2>4
  <2>6. ~(first > Len(fs) \/ fs[first].by # first) /\ fs[first].status = msg.status
    BY <1>1, <1>2, <1>3, <2>5
  <2>7. wrong # {}
    BY <2>1
  <2> QED
    BY <1>4, <2>5, <2>6, <2>7 DEF fs
<1> QED
  BY <1>5, <1>6

----------------------------------------------------------------------------
(* The invariant                                                            *)

LEMMA InitIInv == BuildAssumption /\ Init => IInv
<1> SUFFICES ASSUME BuildAssumption, Init PROVE IInv
  OBVIOUS
<1>1. NumHops \in Nat /\ NumHops >= 1 /\ default_lifetime \in Nat
  BY DEF BuildAssumption
<1>2. StateInv
  BY <1>1 DEF Init, StateInv, Hops, Nodes, Results, HopType
<1>3. MessageInv /\ AgeInv
  BY DEF Init, MessageInv, AgeInv, Hops
<1> QED
  BY <1>2, <1>3 DEF IInv

\* Steps that leave the messages and the hops alone and the path's age, too.
LEMMA FramedIInv ==
  ASSUME IInv, StateInv', UNCHANGED <<age, hop, lrsm>> PROVE IInv'
BY DEF IInv, MessageInv, AgeInv

\* A hop that changes neither age nor, unless destroyed or old, leaves the map.
LEMMA MessagesGrow ==
  ASSUME MessageInv, NEW m, MessageOK(m), lrsm' = lrsm \union {m} PROVE MessageInv'
BY DEF MessageInv

LEMMA HandleDecryptedIInv == ASSUME IInv, NEW i \in Hops, HandleDecrypted(i) PROVE IInv'
<1>1. StateInv'
  BY DEF IInv, StateInv, HandleDecrypted
<1> QED
  BY <1>1, FramedIInv DEF HandleDecrypted

LEMMA RefuseLRCMIInv ==
  ASSUME BuildAssumption, IInv, NEW i \in Hops, NEW st \in {"FAIL_CONGESTION", "FAIL_DEST_INVALID"},
         RefuseLRCM(i, st)
  PROVE  IInv'
<1>1. StateInv'
  BY DEF IInv, StateInv, RefuseLRCM
<1>2. st \in RecordStatus
  BY DEF RecordStatus
<1>3. MessageOK(CreateAndSend(i, st))
  BY <1>2, CreatedOK
<1>4. MessageInv'
  BY <1>3, MessagesGrow DEF RefuseLRCM, IInv
<1>5. AgeInv'
  BY DEF AgeInv, IInv, RefuseLRCM
<1> QED
  BY <1>1, <1>4, <1>5 DEF IInv

\* The TransitHop is put with the age it has.
LEMMA PutTransitHopInv ==
  ASSUME IInv, NEW i \in Hops, PutTransitHop(i), age' = age
  PROVE  hop' \in [Hops -> HopType] /\ AgeInv'
<1>1. hop \in [Hops -> HopType]
  BY DEF IInv, StateInv
<1>2. hop' = [hop EXCEPT ![i] = [@ EXCEPT !.state = "put"]]
  BY DEF PutTransitHop
<1>3. ASSUME NEW j \in Hops
      PROVE  hop'[j] \in HopType /\ hop'[j].age = hop[j].age
             /\ hop'[j].destroy = hop[j].destroy /\ hop'[j].state \in {hop[j].state, "put"}
  BY <1>1, <1>2 DEF HopType
<1>4. AgeInv'
  BY <1>3 DEF AgeInv, IInv
<1> QED
  BY <1>1, <1>2, <1>3, <1>4

LEMMA SendLRCMIInv ==
  ASSUME BuildAssumption, IInv, NEW i \in Hops, SendLRCM(i) PROVE IInv'
<1>1. hop' \in [Hops -> HopType] /\ AgeInv'
  BY PutTransitHopInv DEF SendLRCM
<1>2. MessageInv'
  BY DEF IInv, MessageInv, SendLRCM
<1>3. i \in Nodes
  BY DEF Hops, Nodes, BuildAssumption
<1>4. lrcm' \in [Hops -> {"none", "sent", "decrypted", "handled"}]
  BY DEF IInv, StateInv, SendLRCM
<1>5. result' \in [Nodes -> Results]
  BY <1>3 DEF IInv, StateInv, SendLRCM, Results
<1>6. StateInv'
  BY <1>1, <1>4, <1>5 DEF IInv, StateInv, SendLRCM
<1> QED
  BY <1>1, <1>2, <1>6 DEF IInv

LEMMA SendPathConfirmIInv == ASSUME BuildAssumption, IInv, SendPathConfirm PROVE IInv'
<1>1. NumHops \in Hops /\ "SUCCESS" \in RecordStatus
  BY DEF BuildAssumption, Hops, RecordStatus
<1>2. hop' \in [Hops -> HopType] /\ AgeInv'
  BY <1>1, PutTransitHopInv DEF SendPathConfirm
<1>3. MessageOK(CreateAndSend(NumHops, "SUCCESS"))
  BY <1>1, CreatedOK
<1>4. MessageInv'
  BY <1>3, MessagesGrow DEF SendPathConfirm, IInv
<1>5. StateInv'
  BY <1>2 DEF IInv, StateInv, SendPathConfirm
<1> QED
  BY <1>2, <1>4, <1>5 DEF IInv

LEMMA OnForwardLRCMResultIInv ==
  ASSUME BuildAssumption, IInv, NEW i \in 0..NumHops - 1, NEW st \in SendFailures,
         OnForwardLRCMResult(i, st)
  PROVE  IInv'
<1>1. st \in RecordStatus /\ st # "SUCCESS"
  BY DEF RecordStatus, BuildAssumption
<1>2. MessageInv'
  <2>1. CASE i \in Hops
    <3>1. MessageOK(CreateAndSend(i, st))
      BY <1>1, <2>1, CreatedOK
    <3> QED
      BY <2>1, <3>1, MessagesGrow DEF OnForwardLRCMResult, IInv
  <2>2. CASE i \notin Hops
    BY <2>2 DEF OnForwardLRCMResult, IInv, MessageInv
  <2> QED
    BY <2>1, <2>2
<1>3. StateInv'
  BY DEF IInv, StateInv, OnForwardLRCMResult, Results
<1>4. AgeInv'
  BY DEF IInv, AgeInv, OnForwardLRCMResult
<1> QED
  BY <1>2, <1>3, <1>4 DEF IInv

LEMMA DeliveredOK ==
  ASSUME MessageInv, NEW msg \in lrsm PROVE \A m \in Delivered(msg) : MessageOK(m)
<1>1. MessageOK(msg)
  BY DEF MessageInv
<1>2. MessageOK([msg EXCEPT !.net = "delivered"])
  BY <1>1, UpdatedOK DEF Results
<1> QED
  BY <1>2 DEF Delivered, MessageInv

LEMMA TransitHopHandleLRSMIInv ==
  ASSUME BuildAssumption, IInv, NEW msg \in lrsm, TransitHopHandleLRSM(msg) PROVE IInv'
<1> DEFINE to == msg.from - 1
           m == Send(msg.creator, to, msg.status, AddFrame(msg.frames, to, "SUCCESS"))
<1>1. MessageInv /\ MessageOK(msg) /\ to \in Hops
  BY DEF IInv, MessageInv, TransitHopHandleLRSM
<1>2. \A x \in Delivered(msg) : MessageOK(x)
  BY <1>1, DeliveredOK
<1>3. MessageOK(m)
  BY <1>1, ForwardedOK
<1>4. lrsm' = Delivered(msg) \/ lrsm' = Delivered(msg) \union {m}
  BY DEF TransitHopHandleLRSM
<1> HIDE DEF m
<1>5. MessageInv'
  BY <1>2, <1>3, <1>4 DEF MessageInv
<1>6. StateInv' /\ AgeInv'
  BY DEF IInv, StateInv, AgeInv, TransitHopHandleLRSM
<1> QED
  BY <1>5, <1>6 DEF IInv

LEMMA PathHandleLRSMIInv ==
  ASSUME BuildAssumption, IInv, NEW msg \in lrsm, PathHandleLRSM(msg) PROVE IInv'
<1>1. MessageInv'
  BY DeliveredOK DEF IInv, MessageInv, PathHandleLRSM
<1>2. 1 \in Nodes
  BY DEF Nodes, BuildAssumption
<1>3. /\ UNCHANGED <<age, lrcm, result, hop>>
      /\ status' \in {status, "Failed"} /\ latency' \in {latency, <<"up", 1>>}
  BY DEF PathHandleLRSM, HandlePathConfirmMessage
<1>4. StateInv'
  BY <1>2, <1>3 DEF IInv, StateInv
<1>5. AgeInv'
  BY <1>3 DEF IInv, AgeInv
<1> QED
  BY <1>1, <1>4, <1>5 DEF IInv

LEMMA resultCallbackIInv ==
  ASSUME BuildAssumption, IInv, NEW msg \in lrsm, NEW res \in {"ok", "failed"},
         resultCallback(msg, res)
  PROVE  IInv'
<1>1. MessageOK(msg) /\ res \in Results
  BY DEF IInv, MessageInv, Results
<1>2. MessageOK([msg EXCEPT !.result = res])
  BY <1>1, UpdatedOK
<1>3. MessageInv'
  BY <1>2 DEF IInv, MessageInv, resultCallback
<1>4. msg.from \in Hops
  BY <1>1 DEF MessageOK, Message
<1> DEFINE d == hop[msg.from].destroy \/ (msg.status # "SUCCESS" \/ res = "failed")
<1>5. hop' = [hop EXCEPT ![msg.from] = [@ EXCEPT !.destroy = d]]
  BY DEF resultCallback
<1>6. d \in BOOLEAN /\ (hop[msg.from].destroy => d)
  OBVIOUS
<1>7. hop \in [Hops -> HopType]
  BY DEF IInv, StateInv
<1> HIDE DEF d
<1>8. hop' \in [Hops -> HopType]
  BY <1>4, <1>5, <1>6, <1>7 DEF HopType
<1>9. \A j \in Hops : hop'[j].age = hop[j].age /\ hop'[j].state = hop[j].state
                      /\ (hop[j].destroy => hop'[j].destroy)
  BY <1>4, <1>5, <1>6, <1>7 DEF HopType
<1>10. StateInv'
  BY <1>8 DEF IInv, StateInv, resultCallback
<1>11. AgeInv'
  BY <1>9 DEF IInv, AgeInv, resultCallback
<1> QED
  BY <1>3, <1>10, <1>11 DEF IInv

LEMMA RelayLatencyIInv == ASSUME BuildAssumption, IInv, RelayLatency PROVE IInv'
<1> DEFINE dir == latency[1]
           i == latency[2]
<1>1. NumHops \in Nat /\ NumHops >= 1 /\ Nodes = 0..NumHops
  BY DEF BuildAssumption, Nodes
<1>2. i \in Nodes
  BY DEF IInv, StateInv
<1>3. latency' = CASE dir = "up" /\ i < NumHops -> <<"up", i + 1>>
                   [] dir = "up" /\ i = NumHops -> <<"down", i - 1>>
                   [] dir = "down" /\ i > 0 -> <<"down", i - 1>>
                   [] OTHER -> <<"done", 0>>
  BY DEF RelayLatency
<1>4. latency' \in {"none", "up", "down", "done"} \X Nodes
  <2> HIDE DEF dir, i
  <2> QED
    BY <1>1, <1>2, <1>3
<1>5. StateInv'
  BY <1>4 DEF IInv, StateInv, RelayLatency
<1> QED
  BY <1>5, FramedIInv DEF RelayLatency

LEMMA PassTimeIInv == ASSUME BuildAssumption, IInv, PassTime PROVE IInv'
<1>1. default_lifetime \in Nat
  BY DEF BuildAssumption
<1>2. \A n \in 0..default_lifetime : Older(n) \in 0..default_lifetime
                                     /\ n <= Older(n)
  BY <1>1 DEF Older
<1>3. \A n, p \in 0..default_lifetime : n <= p => Older(n) <= Older(p) /\ n <= Older(p)
  BY <1>1 DEF Older
<1>4. hop \in [Hops -> HopType] /\ age \in 0..default_lifetime /\ age' = Older(age)
  BY DEF IInv, StateInv, PassTime
<1>5. ASSUME NEW j \in Hops
      PROVE  /\ hop'[j] \in HopType /\ hop'[j].age \in {hop[j].age, Older(hop[j].age)}
             /\ hop'[j].state = hop[j].state /\ hop'[j].destroy = hop[j].destroy
  <2>1. hop[j] \in HopType /\ hop[j].age \in 0..default_lifetime
    BY <1>4 DEF HopType
  <2>2. hop'[j] = hop[j] \/ hop'[j] = [hop[j] EXCEPT !.age = Older(hop[j].age)]
    BY DEF PassTime
  <2>3. Older(hop[j].age) \in 0..default_lifetime
    BY <1>2, <2>1
  <2> QED
    BY <2>1, <2>2, <2>3 DEF HopType
<1>6. hop' \in [Hops -> HopType]
  BY <1>5 DEF PassTime
<1>7. StateInv'
  BY <1>2, <1>4, <1>6 DEF IInv, StateInv, PassTime
<1>8. MessageInv'
  BY DEF IInv, MessageInv, PassTime
<1>9. ASSUME NEW j \in Hops PROVE hop'[j].age <= age'
  <2>1. hop[j].age \in 0..default_lifetime /\ hop[j].age <= age
    BY <1>4 DEF HopType, IInv, AgeInv
  <2> QED
    BY <1>3, <1>4, <1>5, <2>1
<1>10. age >= default_lifetime => age' >= default_lifetime
  BY <1>1, <1>4 DEF Older
<1>11. AgeInv'
  BY <1>5, <1>9, <1>10 DEF IInv, AgeInv
<1> QED
  BY <1>7, <1>8, <1>11 DEF IInv

\* The only step in which a hop leaves: it is destroyed, or as old as the path can be.
LEMMA ExpireTransitHopIInv ==
  ASSUME BuildAssumption, IInv, NEW i \in Hops, ExpireTransitHop(i) PROVE IInv'
<1>1. hop \in [Hops -> HopType] /\ age \in Nat /\ default_lifetime \in Nat
  BY DEF IInv, StateInv, BuildAssumption
<1>2. hop' = [hop EXCEPT ![i] = [@ EXCEPT !.state = "gone"]]
  BY DEF ExpireTransitHop
<1>3. \A j \in Hops : hop'[j] \in HopType /\ hop'[j].age = hop[j].age
                      /\ hop'[j].destroy = hop[j].destroy
                      /\ (j # i => hop'[j].state = hop[j].state)
  BY <1>1, <1>2 DEF HopType
<1>4. ~hop[i].destroy => age >= default_lifetime
  <2>1. ~hop[i].destroy => hop[i].age >= default_lifetime
    BY DEF ExpireTransitHop, TransitHopExpired
  <2>2. hop[i].age \in Nat /\ hop[i].age <= age
    BY <1>1 DEF HopType, IInv, AgeInv
  <2> QED
    BY <1>1, <2>1, <2>2
<1>5. hop' \in [Hops -> HopType]
  BY <1>1, <1>2, <1>3
<1>6. StateInv'
  BY <1>5 DEF IInv, StateInv, ExpireTransitHop
<1>7. AgeInv'
  BY <1>3, <1>4 DEF IInv, AgeInv, ExpireTransitHop
<1>8. MessageInv'
  BY DEF IInv, MessageInv, ExpireTransitHop
<1> QED
  BY <1>6, <1>7, <1>8 DEF IInv

LEMMA ClientTimersIInv == ASSUME IInv, BuildTimeout \/ ExpirePath PROVE IInv'
<1>1. StateInv' /\ UNCHANGED <<age, hop, lrsm>>
  BY DEF IInv, StateInv, BuildTimeout, ExpirePath
<1> QED
  BY <1>1, FramedIInv

LEMMA NextIInv == ASSUME BuildAssumption, IInv, [Next]_vars PROVE IInv'
<1>1. CASE UNCHANGED vars
  BY <1>1 DEF vars, IInv, StateInv, MessageInv, AgeInv
<1>2. CASE \E i \in Hops : \/ HandleDecrypted(i) \/ SendLRCM(i) \/ ExpireTransitHop(i)
                           \/ \E st \in {"FAIL_CONGESTION", "FAIL_DEST_INVALID"} : RefuseLRCM(i, st)
  BY <1>2, HandleDecryptedIInv, SendLRCMIInv, ExpireTransitHopIInv, RefuseLRCMIInv
<1>3. CASE SendPathConfirm
  BY <1>3, SendPathConfirmIInv
<1>4. CASE \E i \in 0..NumHops - 1, st \in SendFailures : OnForwardLRCMResult(i, st)
  BY <1>4, OnForwardLRCMResultIInv
<1>5. CASE \E msg \in lrsm : \/ TransitHopHandleLRSM(msg) \/ PathHandleLRSM(msg)
                             \/ \E res \in {"ok", "failed"} : resultCallback(msg, res)
  BY <1>5, TransitHopHandleLRSMIInv, PathHandleLRSMIInv, resultCallbackIInv
<1>6. CASE RelayLatency
  BY <1>6, RelayLatencyIInv
<1>7. CASE PassTime
  BY <1>7, PassTimeIInv
<1>8. CASE BuildTimeout \/ ExpirePath
  BY <1>8, ClientTimersIInv
<1> QED
  BY <1>1, <1>2, <1>3, <1>4, <1>5, <1>6, <1>7, <1>8 DEF Next

LEMMA Invariance == Spec => []IInv
<1>1. Init => IInv
  BY InitIInv, BuildAssumption
<1>2. IInv /\ [Next]_vars => IInv'
  BY NextIInv, BuildAssumption
<1> QED
  BY <1>1, <1>2, PTL DEF Spec

----------------------------------------------------------------------------
(* Theorems                                                                 *)

\* The state of client, relays and messages of a build keeps its type.
THEOREM TypeCorrect == Spec => []TypeOK
<1>1. IInv => TypeOK
  <2> SUFFICES ASSUME IInv PROVE TypeOK
    OBVIOUS
  <2>1. ASSUME NEW msg \in lrsm
        PROVE  /\ msg.creator \in Hops /\ msg.from \in 1..msg.creator /\ msg.status \in RecordStatus
               /\ msg.net \in {"sent", "delivered"} /\ msg.result \in Results
    BY DEF IInv, MessageInv, MessageOK, Message, Hops
  <2> QED
    BY <2>1 DEF IInv, StateInv, TypeOK, HopType
<1> QED
  BY <1>1, Invariance, PTL

\* Whatever the number of hops, the client that decrypts the frames of a status
\* message (Path::HandleLRSM) reads the status its creator wrote and the place of
\* the creator: AddFrame keeps the frames in the order of the hops.
THEOREM VerdictRead == Spec => []VerdictIsCreators
<1>1. IInv => VerdictIsCreators
  BY ReadOK, BuildAssumption DEF IInv, MessageInv, VerdictIsCreators
<1> QED
  BY <1>1, Invariance, PTL

\* Whatever the number of hops, a TransitHop that was not destroyed by a failure
\* stays until the client's path has reached its lifetime.
THEOREM NoHopExpiresEarly == Spec => []HopsOutlivePath
<1>1. IInv => HopsOutlivePath
  BY DEF IInv, AgeInv, HopsOutlivePath
<1> QED
  BY <1>1, Invariance, PTL

----------------------------------------------------------------------------
(* Client and relays agree                                                  *)

\* The LRCM went through the hops in order and left a TransitHop at each.
CommitInv ==
  /\ \A i, j \in Hops : j < i /\ lrcm[i] # "none" => lrcm[j] = "handled" /\ hop[j].state # "none"
  /\ \A i \in Hops : result[i] # "none" => lrcm[i] = "handled"
  /\ lrcm[NumHops] = "handled" => hop[NumHops].state # "none"

\* The confirmation sent by hop j was delivered.
Confirmed(j) ==
  \E m \in lrsm : m.status = "SUCCESS" /\ m.from = j /\ m.net = "delivered"

\* Where a message comes from: a failure from a hop that was told of a failure
\* or did not go on itself, a confirmation from the end of the path.
Origin(m) ==
  /\ m.status # "SUCCESS" =>
       /\ m.creator < NumHops
       /\ \/ result[m.creator] = "failed"
          \/ lrcm[m.creator] = "handled" /\ lrcm[m.creator + 1] = "none"
  /\ m.status = "SUCCESS" =>
       lrcm[NumHops] = "handled" /\ \A j \in m.from + 1..NumHops : Confirmed(j)

OriginInv == \A m \in lrsm : Origin(m)

\* A hop sends one confirmation.
UniqueInv ==
  \A m1, m2 \in lrsm :
    m1.status = "SUCCESS" /\ m2.status = "SUCCESS" /\ m1.from = m2.from => m1 = m2

\* Only a failure, or a message reported as not sent, destroys a hop.
Doomed(i) == \E m \in lrsm : m.from = i /\ (m.result = "failed" \/ m.status # "SUCCESS")

DestroyInv == \A i \in Hops : hop[i].destroy => Doomed(i)

LatencyInv ==
  /\ latency[1] # "none" => Confirmed(1)
  /\ status = "Established" => latency[1] # "none"

AgreeInv == CommitInv /\ OriginInv /\ UniqueInv /\ DestroyInv /\ LatencyInv

\* No message is forgotten, nor what became of it.
KeepsUp ==
  \A m \in lrsm : \E n \in lrsm' :
    /\ n.from = m.from /\ n.status = m.status
    /\ m.net = "delivered" => n.net = "delivered"
    /\ m.result = "failed" => n.result = "failed"

\* What the origin of a message rests on does not change any more.
CommitKept ==
  \A i \in Hops :
    /\ result[i] = "failed" => result'[i] = "failed"
    /\ lrcm[i] = "handled" => lrcm'[i] = "handled"
    /\ i < NumHops /\ lrcm[i] = "handled" /\ lrcm[i + 1] = "none" => lrcm'[i + 1] = "none"

LEMMA ConfirmedKept == ASSUME KeepsUp, NEW j, Confirmed(j) PROVE Confirmed(j)'
BY DEF KeepsUp, Confirmed

LEMMA DestroyKept ==
  ASSUME KeepsUp, DestroyInv, \A i \in Hops : hop'[i].destroy => hop[i].destroy
  PROVE  DestroyInv'
<1> SUFFICES ASSUME NEW i \in Hops, hop'[i].destroy PROVE Doomed(i)'
  BY DEF DestroyInv
<1>1. PICK m \in lrsm : m.from = i /\ (m.result = "failed" \/ m.status # "SUCCESS")
  BY DEF DestroyInv, Doomed
<1>2. PICK n \in lrsm' : n.from = m.from /\ n.status = m.status
                         /\ (m.result = "failed" => n.result = "failed")
  BY DEF KeepsUp
<1> QED
  BY <1>1, <1>2 DEF Doomed

LEMMA OriginKept ==
  ASSUME BuildAssumption, KeepsUp, CommitKept, NEW m, m.creator \in Hops, Origin(m)
  PROVE  Origin(m)'
<1>1. NumHops \in Hops
  BY DEF BuildAssumption, Hops
<1>2. CASE m.status = "SUCCESS"
  <2>1. lrcm'[NumHops] = "handled"
    BY <1>1, <1>2 DEF Origin, CommitKept
  <2>2. \A j \in m.from + 1..NumHops : Confirmed(j)'
    BY <1>2, ConfirmedKept DEF Origin
  <2> QED
    BY <1>2, <2>1, <2>2 DEF Origin
<1>3. CASE m.status # "SUCCESS"
  BY <1>3 DEF Origin, CommitKept
<1> QED
  BY <1>2, <1>3

\* Steps that send no status message.
LEMMA SameMessages ==
  ASSUME BuildAssumption, IInv, AgreeInv, lrsm' = lrsm, CommitKept, CommitInv',
         \A i \in Hops : hop'[i].destroy => hop[i].destroy
  PROVE  /\ OriginInv' /\ UniqueInv' /\ DestroyInv'
         /\ \A j : Confirmed(j) => Confirmed(j)'
<1>1. KeepsUp
  BY DEF KeepsUp
<1>2. \A m \in lrsm : m.creator \in Hops
  BY DEF IInv, MessageInv, MessageOK, Message
<1>3. OriginInv'
  BY <1>1, <1>2, OriginKept DEF OriginInv, AgreeInv
<1>4. UniqueInv'
  BY DEF UniqueInv, AgreeInv
<1>5. DestroyInv'
  BY <1>1, DestroyKept DEF AgreeInv
<1> QED
  BY <1>1, <1>3, <1>4, <1>5, ConfirmedKept

\* Steps that do nothing to the LRCM and its hops.
LEMMA SameCommit ==
  ASSUME CommitInv, UNCHANGED <<lrcm, result>>,
         \A i \in Hops : hop[i].state # "none" => hop'[i].state # "none", NumHops \in Hops
  PROVE  CommitKept /\ CommitInv'
BY DEF CommitKept, CommitInv

LEMMA InitAgree == ASSUME BuildAssumption, Init PROVE AgreeInv
<1>1. \A i \in Hops : i \in Nodes /\ i # 0 /\ hop[i].destroy = FALSE /\ result[i] = "none"
  BY DEF Init, Hops, Nodes
<1>2. 1 \in Hops /\ NumHops \in Hops /\ \A i \in Hops : i >= 1
  BY DEF BuildAssumption, Hops
<1>3. CommitInv
  <2>1. ASSUME NEW i \in Hops, lrcm[i] # "none" PROVE i = 1
    BY <2>1 DEF Init
  <2>2. \A i, j \in Hops : j < i => i # 1
    BY DEF Hops
  <2>3. lrcm[NumHops] # "handled"
    BY <1>2 DEF Init
  <2> QED
    BY <1>1, <2>1, <2>2, <2>3 DEF CommitInv
<1>4. OriginInv /\ UniqueInv
  BY DEF Init, OriginInv, UniqueInv
<1>5. DestroyInv
  BY <1>1 DEF DestroyInv
<1>6. LatencyInv
  BY DEF Init, LatencyInv
<1> QED
  BY <1>3, <1>4, <1>5, <1>6 DEF AgreeInv

LEMMA HandleDecryptedAgree ==
  ASSUME BuildAssumption, IInv, AgreeInv, NEW i \in Hops, HandleDecrypted(i) PROVE AgreeInv'
<1>1. lrcm \in [Hops -> {"none", "sent", "decrypted", "handled"}] /\ NumHops \in Hops
  BY DEF IInv, StateInv, BuildAssumption, Hops
<1>2. \A j \in Hops : lrcm'[j] = IF j = i THEN "decrypted" ELSE lrcm[j]
  BY <1>1 DEF HandleDecrypted
<1>3. lrcm[i] = "sent" /\ UNCHANGED <<status, age, result, hop, lrsm, latency>>
  BY DEF HandleDecrypted
<1>4. \A j \in Hops : (lrcm[j] = "handled" <=> lrcm'[j] = "handled")
                      /\ (lrcm[j] = "none" <=> lrcm'[j] = "none")
  BY <1>2, <1>3
<1>5. \A j \in Hops : j < NumHops => j + 1 \in Hops
  BY DEF Hops, BuildAssumption
<1>6. CommitKept /\ CommitInv'
  BY <1>1, <1>3, <1>4, <1>5 DEF CommitKept, CommitInv, AgreeInv
<1>7. OriginInv' /\ UniqueInv' /\ DestroyInv' /\ LatencyInv'
  BY <1>3, <1>6, SameMessages DEF LatencyInv, AgreeInv
<1> QED
  BY <1>6, <1>7 DEF AgreeInv

\* The next hop gets the LRCM only from a hop that has put its TransitHop.
LEMMA SendLRCMAgree ==
  ASSUME BuildAssumption, IInv, AgreeInv, NEW i \in Hops, SendLRCM(i) PROVE AgreeInv'
<1>1. /\ lrcm \in [Hops -> {"none", "sent", "decrypted", "handled"}] /\ NumHops \in Hops
      /\ hop \in [Hops -> HopType] /\ result \in [Nodes -> Results]
      /\ \A j \in Hops : j \in Nodes
  BY DEF IInv, StateInv, BuildAssumption, Hops, Nodes
<1>2. i < NumHops /\ lrcm[i] = "decrypted" /\ i + 1 \in Hops /\ i # i + 1
  BY DEF SendLRCM, Hops, BuildAssumption
<1>3. UNCHANGED <<status, age, lrsm, latency>>
  BY DEF SendLRCM
<1>4. \A j \in Hops : hop'[j].destroy = hop[j].destroy
                      /\ hop'[j].state = IF j = i THEN "put" ELSE hop[j].state
  BY <1>1 DEF SendLRCM, PutTransitHop, HopType
<1>5. \A j \in Hops : j # i /\ j # i + 1 => lrcm'[j] = lrcm[j]
  BY <1>1, <1>2 DEF SendLRCM
<1>6. lrcm'[i] = "handled" /\ (lrcm'[i + 1] = "sent" \/ lrcm'[i + 1] = lrcm[i + 1])
  BY <1>1, <1>2 DEF SendLRCM
<1>7. \A j \in Hops : result'[j] = result[j] \/ j = i
  BY <1>1 DEF SendLRCM
<1>8. lrcm[i + 1] = "none" /\ result[i] = "none"
  <2>1. i < i + 1
    BY DEF Hops
  <2>2. lrcm[i + 1] # "none" => lrcm[i] = "handled"
    BY <1>2, <2>1 DEF AgreeInv, CommitInv
  <2>3. result[i] # "none" => lrcm[i] = "handled"
    BY DEF AgreeInv, CommitInv
  <2> QED
    BY <1>2, <2>2, <2>3
<1>9. \A j \in Hops : lrcm[j] = "handled" => j # i /\ j # i + 1
  BY <1>2, <1>8
<1>10. CommitKept
  <2>1. ASSUME NEW j \in Hops, j < NumHops, lrcm[j] = "handled", lrcm[j + 1] = "none"
        PROVE  lrcm'[j + 1] = "none"
    <3>1. j # i /\ j + 1 \in Hops /\ j + 1 # i
      BY <1>2, <1>9, <2>1 DEF Hops, BuildAssumption
    <3>2. j + 1 # i + 1
      BY <3>1 DEF Hops
    <3> QED
      BY <1>5, <2>1, <3>1, <3>2
  <2>2. \A j \in Hops : lrcm[j] = "handled" => lrcm'[j] = "handled"
    BY <1>5, <1>9
  <2>3. \A j \in Hops : result[j] = "failed" => result'[j] = "failed"
    BY <1>7, <1>8
  <2> QED
    BY <2>1, <2>2, <2>3 DEF CommitKept
<1>11. CommitInv'
  <2>1. ASSUME NEW k \in Hops, NEW j \in Hops, j < k, lrcm'[k] # "none"
        PROVE  lrcm'[j] = "handled" /\ hop'[j].state # "none"
    <3>1. CASE j = i
      BY <1>4, <1>6, <3>1
    <3>2. CASE j # i
      <4>1. lrcm[j] = "handled" /\ hop[j].state # "none"
        <5>1. CASE k = i + 1
          <6>1. j < i
            BY <2>1, <3>2, <5>1 DEF Hops
          <6> QED
            BY <6>1, <1>2 DEF AgreeInv, CommitInv
        <5>2. CASE k # i + 1
          <6>1. lrcm[k] # "none"
            BY <1>2, <1>5, <2>1, <5>2
          <6> QED
            BY <6>1, <2>1 DEF AgreeInv, CommitInv
        <5> QED
          BY <5>1, <5>2
      <4> QED
        BY <1>4, <1>5, <1>9, <3>2, <4>1
    <3> QED
      BY <3>1, <3>2
  <2>2. ASSUME NEW j \in Hops, result'[j] # "none" PROVE lrcm'[j] = "handled"
    <3>1. CASE j = i
      BY <1>6, <3>1
    <3>2. CASE j # i
      BY <1>5, <1>7, <1>9, <2>2, <3>2 DEF AgreeInv, CommitInv
    <3> QED
      BY <3>1, <3>2
  <2>3. lrcm'[NumHops] = "handled" => hop'[NumHops].state # "none"
    <3>1. i # NumHops
      BY <1>2 DEF Hops
    <3>2. lrcm'[NumHops] = "handled" => lrcm[NumHops] = "handled"
      BY <1>1, <1>5, <1>6, <3>1
    <3> QED
      BY <1>1, <1>4, <3>1, <3>2 DEF AgreeInv, CommitInv
  <2> QED
    BY <2>1, <2>2, <2>3 DEF CommitInv
<1>12. OriginInv' /\ UniqueInv' /\ DestroyInv' /\ LatencyInv'
  BY <1>3, <1>4, <1>10, <1>11, SameMessages DEF LatencyInv, AgreeInv
<1> QED
  BY <1>11, <1>12 DEF AgreeInv

\* Time, expiry and the latency message.
LEMMA TimersAgree ==
  ASSUME BuildAssumption, IInv, AgreeInv,
         PassTime \/ BuildTimeout \/ ExpirePath \/ RelayLatency \/ \E i \in Hops : ExpireTransitHop(i)
  PROVE  AgreeInv'
<1>1. hop \in [Hops -> HopType] /\ NumHops \in Hops
  BY DEF IInv, StateInv, BuildAssumption, Hops
<1>2. UNCHANGED <<lrcm, result, lrsm>>
  BY DEF PassTime, BuildTimeout, ExpirePath, RelayLatency, ExpireTransitHop
<1>3. \A j \in Hops : /\ hop'[j].destroy => hop[j].destroy
                      /\ hop[j].state # "none" => hop'[j].state # "none"
  <2>1. CASE PassTime
    BY <1>1, <2>1 DEF PassTime, HopType
  <2>2. CASE BuildTimeout \/ ExpirePath \/ RelayLatency
    BY <2>2 DEF BuildTimeout, ExpirePath, RelayLatency
  <2>3. CASE \E i \in Hops : ExpireTransitHop(i)
    BY <1>1, <2>3 DEF ExpireTransitHop, HopType
  <2> QED
    BY <2>1, <2>2, <2>3
<1>4. CommitKept /\ CommitInv'
  BY <1>1, <1>2, <1>3, SameCommit DEF AgreeInv
<1>5. OriginInv' /\ UniqueInv' /\ DestroyInv' /\ \A j : Confirmed(j) => Confirmed(j)'
  BY <1>2, <1>3, <1>4, SameMessages
<1>6. latency' = latency \/ (latency[1] # "none" /\ latency'[1] # "none")
  <2>1. CASE RelayLatency
    BY <2>1 DEF RelayLatency
  <2>2. CASE ~RelayLatency
    BY <2>2 DEF PassTime, BuildTimeout, ExpirePath, ExpireTransitHop
  <2> QED
    BY <2>1, <2>2
<1>7. status' = "Established" => status = "Established" \/ latency[1] # "none"
  <2>1. CASE RelayLatency
    BY <2>1 DEF RelayLatency
  <2>2. CASE ~RelayLatency
    BY <2>2 DEF PassTime, BuildTimeout, ExpirePath, ExpireTransitHop
  <2> QED
    BY <2>1, <2>2
<1>8. LatencyInv'
  BY <1>5, <1>6, <1>7 DEF LatencyInv, AgreeInv
<1> QED
  BY <1>4, <1>5, <1>8 DEF AgreeInv

\* Steps that send one more status message.
LEMMA NewMessage ==
  ASSUME BuildAssumption, IInv, AgreeInv, NEW m, lrsm' = lrsm \union {m}, CommitKept, CommitInv',
         Origin(m)', UNCHANGED latency, status' = "Established" => status = "Established",
         \A i \in Hops : hop'[i].destroy => hop[i].destroy,
         m.status = "SUCCESS" => \A n \in lrsm : n.status # "SUCCESS"
  PROVE  AgreeInv'
<1>1. KeepsUp
  BY DEF KeepsUp
<1>2. \A n \in lrsm : n.creator \in Hops
  BY DEF IInv, MessageInv, MessageOK, Message
<1>3. \A n \in lrsm : Origin(n)'
  BY <1>1, <1>2, OriginKept DEF OriginInv, AgreeInv
<1>4. OriginInv'
  BY <1>3 DEF OriginInv
<1>5. UniqueInv'
  BY DEF UniqueInv, AgreeInv
<1>6. DestroyInv'
  BY <1>1, DestroyKept DEF AgreeInv
<1>7. LatencyInv'
  BY <1>1, ConfirmedKept DEF LatencyInv, AgreeInv
<1> QED
  BY <1>4, <1>5, <1>6, <1>7 DEF AgreeInv

LEMMA CreatedFields ==
  ASSUME NEW i, NEW st
  PROVE  /\ CreateAndSend(i, st).status = st /\ CreateAndSend(i, st).from = i
         /\ CreateAndSend(i, st).creator = i
BY DEF CreateAndSend, Send

LEMMA RefuseLRCMAgree ==
  ASSUME BuildAssumption, IInv, AgreeInv, NEW i \in Hops,
         NEW st \in {"FAIL_CONGESTION", "FAIL_DEST_INVALID"}, RefuseLRCM(i, st)
  PROVE  AgreeInv'
<1> DEFINE m == CreateAndSend(i, st)
<1>1. /\ lrcm \in [Hops -> {"none", "sent", "decrypted", "handled"}] /\ NumHops \in Hops
  BY DEF IInv, StateInv, BuildAssumption, Hops
<1>2. i < NumHops /\ lrcm[i] = "decrypted" /\ i + 1 \in Hops /\ i < i + 1 /\ i # NumHops
  BY DEF RefuseLRCM, Hops, BuildAssumption
<1>3. /\ lrsm' = lrsm \union {m} /\ UNCHANGED <<status, age, result, hop, latency>>
      /\ \A j \in Hops : lrcm'[j] = IF j = i THEN "handled" ELSE lrcm[j]
  BY <1>1 DEF RefuseLRCM
<1>4. lrcm[i + 1] = "none"
  BY <1>2 DEF AgreeInv, CommitInv
<1>5. \A j \in Hops : j < NumHops => j + 1 \in Hops
  BY DEF Hops, BuildAssumption
<1>6. CommitKept
  BY <1>2, <1>3, <1>5 DEF CommitKept
<1>7. CommitInv'
  BY <1>1, <1>2, <1>3 DEF CommitInv, AgreeInv
<1>8. Origin(m)'
  <2>1. m.status # "SUCCESS" /\ m.creator = i
    BY CreatedFields
  <2>2. lrcm'[i] = "handled" /\ lrcm'[i + 1] = "none"
    BY <1>2, <1>3, <1>4
  <2> HIDE DEF m
  <2> QED
    BY <1>2, <2>1, <2>2 DEF Origin
<1>9. m.status # "SUCCESS"
  BY CreatedFields
<1> HIDE DEF m
<1> QED
  BY <1>3, <1>6, <1>7, <1>8, <1>9, NewMessage

LEMMA SendPathConfirmAgree ==
  ASSUME BuildAssumption, IInv, AgreeInv, SendPathConfirm PROVE AgreeInv'
<1> DEFINE m == CreateAndSend(NumHops, "SUCCESS")
<1>1. /\ lrcm \in [Hops -> {"none", "sent", "decrypted", "handled"}] /\ NumHops \in Hops
      /\ hop \in [Hops -> HopType] /\ \A j \in Hops : j <= NumHops
  BY DEF IInv, StateInv, BuildAssumption, Hops
<1>2. /\ lrcm[NumHops] = "decrypted"
      /\ lrsm' = lrsm \union {m} /\ UNCHANGED <<status, age, result, latency>>
      /\ \A j \in Hops : lrcm'[j] = IF j = NumHops THEN "handled" ELSE lrcm[j]
  BY <1>1 DEF SendPathConfirm
<1>3. \A j \in Hops : /\ hop'[j].destroy = hop[j].destroy
                      /\ hop'[j].state = IF j = NumHops THEN "put" ELSE hop[j].state
  BY <1>1 DEF SendPathConfirm, PutTransitHop, HopType
<1>4. \A n \in lrsm : n.status # "SUCCESS"
  BY <1>2 DEF AgreeInv, OriginInv, Origin
<1>5. \A j \in Hops : j < NumHops => j + 1 \in Hops
  BY DEF Hops, BuildAssumption
<1>6. CommitKept
  BY <1>2, <1>5 DEF CommitKept
<1>7. CommitInv'
  BY <1>1, <1>2, <1>3 DEF CommitInv, AgreeInv
<1>8. Origin(m)'
  <2>1. m.status = "SUCCESS" /\ m.from = NumHops
    BY CreatedFields
  <2>2. NumHops + 1..NumHops = {}
    BY DEF BuildAssumption
  <2> HIDE DEF m
  <2> QED
    BY <1>1, <1>2, <2>1, <2>2 DEF Origin
<1> HIDE DEF m
<1> QED
  BY <1>2, <1>3, <1>4, <1>6, <1>7, <1>8, NewMessage

LEMMA OnForwardLRCMResultAgree ==
  ASSUME BuildAssumption, IInv, AgreeInv, NEW i \in 0..NumHops - 1, NEW st \in SendFailures,
         OnForwardLRCMResult(i, st)
  PROVE  AgreeInv'
<1> DEFINE m == CreateAndSend(i, st)
<1>1. /\ NumHops \in Hops /\ i \in Nodes /\ i < NumHops /\ \A j \in Hops : j \in Nodes
      /\ result \in [Nodes -> Results]
  BY DEF IInv, StateInv, BuildAssumption, Hops, Nodes
<1>2. /\ result[i] = "pending" /\ UNCHANGED <<age, lrcm, hop, latency>>
      /\ \A j \in Nodes : result'[j] = IF j = i THEN "failed" ELSE result[j]
      /\ status' = "Established" => status = "Established"
  BY <1>1 DEF OnForwardLRCMResult
<1>3. CommitKept
  BY <1>1, <1>2 DEF CommitKept
<1>4. CommitInv'
  BY <1>1, <1>2 DEF CommitInv, AgreeInv
<1>5. CASE i \in Hops
  <2>1. lrsm' = lrsm \union {m}
    BY <1>5 DEF OnForwardLRCMResult
  <2>2. m.status = st /\ m.creator = i /\ st # "SUCCESS"
    BY CreatedFields DEF BuildAssumption
  <2> HIDE DEF m
  <2>3. Origin(m)'
    BY <1>1, <1>2, <2>2 DEF Origin
  <2> QED
    BY <1>2, <1>3, <1>4, <2>1, <2>2, <2>3, NewMessage
<1>6. CASE i \notin Hops
  <2>1. lrsm' = lrsm
    BY <1>6 DEF OnForwardLRCMResult
  <2>2. OriginInv' /\ UniqueInv' /\ DestroyInv' /\ \A j : Confirmed(j) => Confirmed(j)'
    BY <1>2, <1>3, <1>4, <2>1, SameMessages
  <2>3. LatencyInv'
    BY <1>2, <2>2 DEF LatencyInv, AgreeInv
  <2> QED
    BY <1>4, <2>2, <2>3 DEF AgreeInv
<1> QED
  BY <1>5, <1>6

\* Steps that change one message, and may send it on.
LEMMA ReplacedMessage ==
  ASSUME BuildAssumption, IInv, AgreeInv, NEW msg \in lrsm, NEW n,
         n.from = msg.from, n.status = msg.status, n.creator = msg.creator,
         msg.net = "delivered" => n.net = "delivered",
         msg.result = "failed" => n.result = "failed",
         NEW extra, \A e \in extra : Origin(e)',
         lrsm' = ((lrsm \ {msg}) \union {n}) \union extra,
         UNCHANGED <<lrcm, result>>,
         \A i \in Hops : hop[i].state # "none" => hop'[i].state # "none",
         \A e \in extra : e.status = "SUCCESS" =>
           \A o \in lrsm : o.status = "SUCCESS" => o.from # e.from,
         \A e1, e2 \in extra : e1 = e2
  PROVE  CommitInv' /\ OriginInv' /\ UniqueInv' /\ KeepsUp
<1>1. NumHops \in Hops /\ \A m \in lrsm : m.creator \in Hops
  BY DEF IInv, MessageInv, MessageOK, Message, BuildAssumption, Hops
<1>2. CommitKept /\ CommitInv'
  BY <1>1, SameCommit DEF AgreeInv
<1>3. KeepsUp
  BY DEF KeepsUp
<1>4. \A m \in lrsm : Origin(m)'
  BY <1>1, <1>2, <1>3, OriginKept DEF OriginInv, AgreeInv
<1>5. Origin(n)'
  BY <1>4 DEF Origin
<1>6. OriginInv'
  BY <1>4, <1>5 DEF OriginInv
<1>7. UniqueInv'
  <2> SUFFICES ASSUME NEW m1 \in lrsm', NEW m2 \in lrsm', m1.status = "SUCCESS",
                      m2.status = "SUCCESS", m1.from = m2.from
               PROVE  m1 = m2
    BY DEF UniqueInv
  <2>1. \A o \in lrsm : o.status = "SUCCESS" /\ msg.status = "SUCCESS" /\ o.from = msg.from => o = msg
    BY DEF UniqueInv, AgreeInv
  <2>2. CASE m1 \in extra \/ m2 \in extra
    BY <2>2
  <2>3. CASE m1 \notin extra /\ m2 \notin extra
    BY <2>1, <2>3 DEF UniqueInv, AgreeInv
  <2> QED
    BY <2>2, <2>3
<1> QED
  BY <1>2, <1>3, <1>6, <1>7

LEMMA DeliveredFields ==
  ASSUME IInv, NEW msg \in lrsm
  PROVE  LET n == [msg EXCEPT !.net = "delivered"] IN
         /\ n.from = msg.from /\ n.status = msg.status /\ n.creator = msg.creator
         /\ n.net = "delivered" /\ n.result = msg.result
BY DEF IInv, MessageInv, MessageOK, Message

\* A hop sends a confirmation on once: the one behind it is delivered only once.
LEMMA TransitHopHandleLRSMAgree ==
  ASSUME BuildAssumption, IInv, AgreeInv, NEW msg \in lrsm, TransitHopHandleLRSM(msg)
  PROVE  AgreeInv'
<1> DEFINE to == msg.from - 1
           n == [msg EXCEPT !.net = "delivered"]
           e == Send(msg.creator, to, msg.status, AddFrame(msg.frames, to, "SUCCESS"))
           extra == IF hop[to].state = "put" THEN {e} ELSE {}
<1>1. /\ msg.net = "sent" /\ to \in Hops /\ UNCHANGED <<status, age, lrcm, result, hop, latency>>
      /\ lrsm' = ((lrsm \ {msg}) \union {n}) \union extra
  BY DEF TransitHopHandleLRSM, Delivered
<1>2. /\ n.from = msg.from /\ n.status = msg.status /\ n.creator = msg.creator
      /\ n.net = "delivered" /\ n.result = msg.result
  BY DeliveredFields
<1>3. e.from = to /\ e.status = msg.status /\ e.creator = msg.creator
  BY DEF Send
<1>4. msg.from \in Nat /\ msg.from = to + 1 /\ to \in Nat /\ msg.from \in Hops /\ NumHops \in Nat
  BY <1>1 DEF IInv, MessageInv, MessageOK, Message, Hops, BuildAssumption
<1>5. msg.creator \in Hops
  BY DEF IInv, MessageInv, MessageOK, Message
<1> HIDE DEF n, e, to
<1>6. KeepsUp
  BY <1>1, <1>2 DEF KeepsUp
<1>7. Origin(msg)
  BY DEF AgreeInv, OriginInv
<1>8. ASSUME NEW x \in extra PROVE Origin(x)'
  <2>1. x = e
    OBVIOUS
  <2>2. CASE msg.status = "SUCCESS"
    <3>1. ASSUME NEW j \in to + 1..NumHops PROVE Confirmed(j)'
      <4>1. CASE j = msg.from
        BY <1>1, <1>2, <2>2, <4>1 DEF Confirmed
      <4>2. CASE j # msg.from
        <5>1. j \in msg.from + 1..NumHops
          BY <1>4, <4>2
        <5>2. Confirmed(j)
          BY <1>7, <2>2, <5>1 DEF Origin
        <5> QED
          BY <1>6, <5>2, ConfirmedKept
      <4> QED
        BY <4>1, <4>2
    <3>2. lrcm'[NumHops] = "handled"
      BY <1>1, <1>7, <2>2 DEF Origin
    <3> QED
      BY <1>3, <2>1, <2>2, <3>1, <3>2 DEF Origin
  <2>3. CASE msg.status # "SUCCESS"
    BY <1>1, <1>3, <1>7, <2>1, <2>3 DEF Origin
  <2> QED
    BY <2>2, <2>3
<1>9. ASSUME NEW x \in extra, x.status = "SUCCESS", NEW o \in lrsm, o.status = "SUCCESS"
      PROVE  o.from # x.from
  <2>1. SUFFICES ASSUME o.from = to PROVE FALSE
    BY <1>3
  <2>2. msg.from \in o.from + 1..NumHops /\ Origin(o)
    BY <1>4, <2>1 DEF Hops, AgreeInv, OriginInv
  <2>3. Confirmed(msg.from)
    BY <1>9, <2>2 DEF Origin
  <2>4. PICK d \in lrsm : d.status = "SUCCESS" /\ d.from = msg.from /\ d.net = "delivered"
    BY <2>3 DEF Confirmed
  <2>5. d = msg
    BY <1>3, <1>9, <2>4 DEF AgreeInv, UniqueInv
  <2> QED
    BY <1>1, <2>4, <2>5
<1>10. \A e1, e2 \in extra : e1 = e2
  OBVIOUS
<1>11. \A i \in Hops : hop[i].state # "none" => hop'[i].state # "none"
  BY <1>1
<1> HIDE DEF extra
<1>12. CommitInv' /\ OriginInv' /\ UniqueInv'
  BY <1>1, <1>2, <1>8, <1>9, <1>10, <1>11, ReplacedMessage
<1>13. DestroyInv'
  BY <1>1, <1>6, DestroyKept DEF AgreeInv
<1>14. LatencyInv'
  BY <1>1, <1>6, ConfirmedKept DEF LatencyInv, AgreeInv
<1> QED
  BY <1>12, <1>13, <1>14 DEF AgreeInv

\* The client sends its latency message after the confirmation of hop 1.
LEMMA PathHandleLRSMAgree ==
  ASSUME BuildAssumption, IInv, AgreeInv, NEW msg \in lrsm, PathHandleLRSM(msg)
  PROVE  AgreeInv'
<1> DEFINE n == [msg EXCEPT !.net = "delivered"]
<1>1. /\ msg.from = 1 /\ UNCHANGED <<lrcm, result, hop>> /\ lrsm' = (lrsm \ {msg}) \union {n}
  BY DEF PathHandleLRSM, Delivered
<1>2. /\ n.from = msg.from /\ n.status = msg.status /\ n.creator = msg.creator
      /\ n.net = "delivered" /\ n.result = msg.result
  BY DeliveredFields
<1>3. ReadFrames(msg.frames).status = msg.status
  <2>1. MessageOK(msg)
    BY DEF IInv, MessageInv
  <2>2. ReadFrames(msg.frames) = [at |-> msg.creator, status |-> msg.status]
    BY <1>1, <2>1, ReadOK
  <2> QED
    BY <2>2
<1>4. /\ latency' = latency \/ msg.status = "SUCCESS"
      /\ latency' = latency \/ latency'[1] # "none"
      /\ status' = "Established" => status = "Established"
  BY <1>3 DEF PathHandleLRSM, HandlePathConfirmMessage
<1> HIDE DEF n
<1> DEFINE extra == {}
<1>5. /\ lrsm' = ((lrsm \ {msg}) \union {n}) \union extra
      /\ \A e \in extra : Origin(e)' /\ (e.status = "SUCCESS" =>
           \A o \in lrsm : o.status = "SUCCESS" => o.from # e.from)
      /\ \A e1, e2 \in extra : e1 = e2
      /\ \A i \in Hops : hop[i].state # "none" => hop'[i].state # "none"
  BY <1>1
<1> HIDE DEF extra
<1>6. CommitInv' /\ OriginInv' /\ UniqueInv' /\ KeepsUp
  BY <1>1, <1>2, <1>5, ReplacedMessage
<1>7. DestroyInv'
  BY <1>1, <1>6, DestroyKept DEF AgreeInv
<1>8. msg.status = "SUCCESS" => Confirmed(1)'
  BY <1>1, <1>2 DEF Confirmed
<1>9. LatencyInv'
  BY <1>4, <1>6, <1>8, ConfirmedKept DEF LatencyInv, AgreeInv
<1> QED
  BY <1>6, <1>7, <1>9 DEF AgreeInv

\* A hop is doomed by the message whose report destroys it.
LEMMA resultCallbackAgree ==
  ASSUME BuildAssumption, IInv, AgreeInv, NEW msg \in lrsm, NEW res \in {"ok", "failed"},
         resultCallback(msg, res)
  PROVE  AgreeInv'
<1> DEFINE n == [msg EXCEPT !.result = res]
           extra == {}
<1>1. /\ msg.result = "pending" /\ lrsm' = (lrsm \ {msg}) \union {n}
      /\ UNCHANGED <<status, age, lrcm, result, latency>>
  BY DEF resultCallback
<1>2. /\ n.from = msg.from /\ n.status = msg.status /\ n.creator = msg.creator
      /\ n.net = msg.net /\ n.result = res
  BY DEF IInv, MessageInv, MessageOK, Message
<1>3. hop \in [Hops -> HopType] /\ msg.from \in Hops
  BY DEF IInv, StateInv, MessageInv, MessageOK, Message
<1>4. \A j \in Hops : hop'[j].state = hop[j].state
  BY <1>3 DEF resultCallback, HopType
<1>5. \A j \in Hops : j # msg.from => hop'[j].destroy = hop[j].destroy
  BY <1>3 DEF resultCallback
<1>6. hop'[msg.from].destroy =>
        hop[msg.from].destroy \/ msg.status # "SUCCESS" \/ res = "failed"
  BY <1>3 DEF resultCallback, HopType
<1> HIDE DEF n
<1>7. /\ lrsm' = ((lrsm \ {msg}) \union {n}) \union extra
      /\ \A e \in extra : Origin(e)' /\ (e.status = "SUCCESS" =>
           \A o \in lrsm : o.status = "SUCCESS" => o.from # e.from)
      /\ \A e1, e2 \in extra : e1 = e2
      /\ \A i \in Hops : hop[i].state # "none" => hop'[i].state # "none"
  BY <1>1, <1>4
<1> HIDE DEF extra
<1>8. CommitInv' /\ OriginInv' /\ UniqueInv' /\ KeepsUp
  BY <1>1, <1>2, <1>7, ReplacedMessage
<1>9. DestroyInv'
  <2> SUFFICES ASSUME NEW i \in Hops, hop'[i].destroy PROVE Doomed(i)'
    BY DEF DestroyInv
  <2>1. CASE hop[i].destroy
    <3>1. PICK m \in lrsm : m.from = i /\ (m.result = "failed" \/ m.status # "SUCCESS")
      BY <2>1 DEF AgreeInv, DestroyInv, Doomed
    <3>2. PICK k \in lrsm' : k.from = m.from /\ k.status = m.status
                             /\ (m.result = "failed" => k.result = "failed")
      BY <1>8 DEF KeepsUp
    <3> QED
      BY <3>1, <3>2 DEF Doomed
  <2>2. CASE ~hop[i].destroy
    <3>1. i = msg.from /\ (n.status # "SUCCESS" \/ n.result = "failed")
      BY <1>2, <1>5, <1>6, <2>2
    <3> QED
      BY <1>1, <1>2, <3>1 DEF Doomed
  <2> QED
    BY <2>1, <2>2
<1>10. LatencyInv'
  BY <1>1, <1>8, ConfirmedKept DEF LatencyInv, AgreeInv
<1> QED
  BY <1>8, <1>9, <1>10 DEF AgreeInv

LEMMA NextAgree == ASSUME BuildAssumption, IInv, AgreeInv, [Next]_vars PROVE AgreeInv'
<1>1. CASE UNCHANGED vars
  BY <1>1 DEF vars, AgreeInv, CommitInv, OriginInv, Origin, UniqueInv, DestroyInv, Doomed,
              LatencyInv, Confirmed
<1>2. CASE \E i \in Hops : \/ HandleDecrypted(i) \/ SendLRCM(i)
                           \/ \E st \in {"FAIL_CONGESTION", "FAIL_DEST_INVALID"} : RefuseLRCM(i, st)
  BY <1>2, HandleDecryptedAgree, SendLRCMAgree, RefuseLRCMAgree
<1>3. CASE SendPathConfirm
  BY <1>3, SendPathConfirmAgree
<1>4. CASE \E i \in 0..NumHops - 1, st \in SendFailures : OnForwardLRCMResult(i, st)
  BY <1>4, OnForwardLRCMResultAgree
<1>5. CASE \E msg \in lrsm : \/ TransitHopHandleLRSM(msg) \/ PathHandleLRSM(msg)
                             \/ \E res \in {"ok", "failed"} : resultCallback(msg, res)
  BY <1>5, TransitHopHandleLRSMAgree, PathHandleLRSMAgree, resultCallbackAgree
<1>6. CASE PassTime \/ BuildTimeout \/ ExpirePath \/ RelayLatency \/ \E i \in Hops : ExpireTransitHop(i)
  BY <1>6, TimersAgree
<1> QED
  BY <1>1, <1>2, <1>3, <1>4, <1>5, <1>6 DEF Next

\* Whatever the number of hops: when the client has established a path that is
\* not old yet and no router was told that a message failed that was delivered,
\* every hop has its TransitHop and will not destroy it.  The confirmation came
\* through every hop, so each of them put its hop (SendLRCM, SendPathConfirm); and
\* only a failed status or a failed send makes resultCallback destroy one.
THEOREM EndsAgree == Spec => []EstablishedHasHops
<1>1. Init => AgreeInv
  BY InitAgree, BuildAssumption
<1>2. IInv /\ AgreeInv /\ [Next]_vars => AgreeInv'
  BY NextAgree, BuildAssumption
<1>3. IInv /\ AgreeInv => EstablishedHasHops
  <2> SUFFICES ASSUME IInv, AgreeInv, status = "Established", age < default_lifetime, ~Misreported,
                      NEW i \in Hops
               PROVE  hop[i].state = "put" /\ ~hop[i].destroy
    BY DEF EstablishedHasHops
  <2>1. Confirmed(1)
    BY DEF AgreeInv, LatencyInv
  <2>2. PICK c \in lrsm : c.status = "SUCCESS" /\ c.from = 1 /\ c.net = "delivered"
    BY <2>1 DEF Confirmed
  <2>3. lrcm[NumHops] = "handled" /\ \A j \in 1 + 1..NumHops : Confirmed(j)
    BY <2>2 DEF AgreeInv, OriginInv, Origin
  <2>4. i \in Nat /\ i >= 1 /\ i <= NumHops /\ NumHops \in Hops /\ NumHops \in Nat
    BY BuildAssumption DEF Hops, BuildAssumption
  <2>5. Confirmed(i)
    BY <2>1, <2>3, <2>4
  <2>6. \A j \in Hops : lrcm[j] = "handled"
    BY <2>3, <2>4 DEF AgreeInv, CommitInv, Hops
  <2>7. hop[i].state # "none"
    BY <2>3, <2>4 DEF AgreeInv, CommitInv
  <2>8. ~hop[i].destroy
    <3> SUFFICES ASSUME hop[i].destroy PROVE FALSE
      OBVIOUS
    <3>1. PICK m \in lrsm : m.from = i /\ (m.result = "failed" \/ m.status # "SUCCESS")
      BY DEF AgreeInv, DestroyInv, Doomed
    <3>2. CASE m.status = "SUCCESS"
      <4>1. PICK d \in lrsm : d.status = "SUCCESS" /\ d.from = i /\ d.net = "delivered"
        BY <2>5 DEF Confirmed
      <4>2. d = m
        BY <3>1, <3>2, <4>1 DEF AgreeInv, UniqueInv
      <4> QED
        BY <3>1, <3>2, <4>1, <4>2 DEF Misreported
    <3>3. CASE m.status # "SUCCESS"
      <4> DEFINE k == m.creator
      <4>1. k \in Hops /\ k < NumHops /\ (result[k] = "failed" \/ lrcm[k + 1] = "none")
        BY <3>3 DEF AgreeInv, OriginInv, Origin, IInv, MessageInv, MessageOK, Message
      <4>2. k \in 0..NumHops - 1 /\ k + 1 \in Hops
        BY <2>4, <4>1 DEF Hops
      <4>3. lrcm[k + 1] = "handled"
        BY <2>6, <4>2
      <4> HIDE DEF k
      <4> QED
        BY <4>1, <4>2, <4>3 DEF Misreported
    <3> QED
      BY <3>2, <3>3
  <2>9. age \in Nat /\ default_lifetime \in Nat /\ hop[i].state \in {"none", "put", "gone"}
    BY BuildAssumption DEF IInv, StateInv, HopType, BuildAssumption
  <2>10. hop[i].state # "gone"
    BY <2>8, <2>9 DEF IInv, AgeInv
  <2> QED
    BY <2>7, <2>8, <2>9, <2>10
<1> QED
  BY <1>1, <1>2, <1>3, Invariance, PTL DEF Spec
=============================================================================
