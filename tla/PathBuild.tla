------------------------------ MODULE PathBuild ------------------------------
(***************************************************************************)
(* The build of one path across the network: the commit message (LRCM,     *)
(* llarp/messages/relay_commit.cpp) travels from the client, node 0, over  *)
(* the hops 1..NumHops, each of which puts a TransitHop into its           *)
(* PathContext; status messages (LRSM, relay_status.cpp) travel back; the  *)
(* client then sends a latency message to the last hop, and the path is    *)
(* established when the reply is there.                                    *)
(*                                                                         *)
(* A message that a node sends may be delivered at any time or never.      *)
(* SendToOrQueue reports the outcome to a callback, and that report may be *)
(* wrong in one direction: what is reported as a success was delivered,    *)
(* but a message reported as failed may have been delivered too, or be     *)
(* delivered later; or the callback is never called (OutboundMessages and  *)
(* IwpMessages).  Handing work to a worker thread and back is part of the  *)
(* delay of the message, except between HandleDecrypted, which reads the   *)
(* clock, and the function it posts to the event loop.                     *)
(*                                                                         *)
(* The link layer delivers a message at most once and the ids of a path    *)
(* are random, so that no hop finds the TransitHop it is about to put: the *)
(* FAIL_DUPLICATE_HOP branches are left out.                               *)
(***************************************************************************)
EXTENDS Naturals, Sequences, FiniteSets

CONSTANTS
  NumHops,
  build_timeout, default_lifetime,
  SendFailures         \* the LR_StatusRecord flags OnForwardLRCMResult may report

ASSUME BuildAssumption ==
  /\ NumHops \in Nat \ {0}
  /\ build_timeout \in Nat /\ default_lifetime \in Nat
  /\ build_timeout < default_lifetime
  /\ SendFailures \subseteq {"FAIL_TIMEOUT", "FAIL_CANNOT_CONNECT", "FAIL_DEST_INVALID",
                             "FAIL_DEST_UNKNOWN", "FAIL_CONGESTION"}

Hops == 1..NumHops
Nodes == 0..NumHops

VARIABLES
  status,   \* the client's Path: _status, or "Gone" when no map has it any more
  age,      \* time since buildStarted
  lrcm,     \* lrcm[i]: the commit message for hop i
  result,   \* result[i]: what node i was told about the LRCM it sent to hop i + 1
  hop,      \* hop[i]: the TransitHop of hop i
  lrsm,     \* the status messages sent so far
  latency   \* the first latency message and its reply: <<"up" or "down", node>>

vars == <<status, age, lrcm, result, hop, lrsm, latency>>

Results == {"none", "pending", "ok", "failed"}
RecordStatus == SendFailures \union {"SUCCESS", "FAIL_CONGESTION", "FAIL_DEST_INVALID"}

Init ==
  /\ status = "Building" /\ age = 0
  /\ lrcm = [i \in Hops |-> IF i = 1 THEN "sent" ELSE "none"]
  /\ result = [i \in Nodes |-> IF i = 0 THEN "pending" ELSE "none"]
  /\ hop = [i \in Hops |-> [state |-> "none", age |-> 0, destroy |-> FALSE]]
  /\ lrsm = {}
  /\ latency = <<"none", 0>>

----------------------------------------------------------------------------
(* Status messages                                                          *)

AddFrame_AtEnd(frames, i, newStatus) == Append(frames, [by |-> i, status |-> newStatus])

\* A frame that only the client and hop i can read; it becomes frames[0].
AddFrame(frames, i, newStatus) == <<[by |-> i, status |-> newStatus]>> \o frames

\* SendMessage by hop i to the node below it.
Send(creator, i, st, frames) ==
  [creator |-> creator, from |-> i, status |-> st, frames |-> frames,
   net |-> "sent", result |-> "pending"]

CreateAndSend(i, st) == Send(i, i, st, AddFrame(<<>>, i, st))

\* Path::HandleLRSM: what the client reads, frame by frame, with the keys of
\* its hops in order.
ReadFrames(frames) ==
  LET wrong == {i \in Hops : i > Len(frames) \/ frames[i].by # i \/ frames[i].status # "SUCCESS"}
      first == CHOOSE i \in wrong : \A j \in wrong : i <= j
  IN IF wrong = {} THEN [at |-> NumHops, status |-> "SUCCESS"]
     ELSE IF first > Len(frames) \/ frames[first].by # first
            THEN [at |-> first, status |-> "FAIL_DECRYPT_ERROR"]
            ELSE [at |-> first, status |-> frames[first].status]

HandlePathConfirmMessage_Restarts ==
  /\ latency' = IF status = "Building" THEN <<"up", 1>> ELSE latency
  /\ age' = 0
  /\ UNCHANGED status

\* The path stays in ePathBuilding until the latency message is answered.
HandlePathConfirmMessage ==
  /\ latency' = IF status = "Building" THEN <<"up", 1>> ELSE latency
  /\ UNCHANGED <<status, age>>

\* Those of lrsm, with msg delivered.
Delivered(msg) == (lrsm \ {msg}) \union {[msg EXCEPT !.net = "delivered"]}

\* A status message reaches the relay below its sender, which adds its own
\* frame and sends it on if it has the TransitHop.
TransitHopHandleLRSM(msg) ==
  LET to == msg.from - 1 IN
  /\ msg.net = "sent" /\ to \in Hops
  /\ lrsm' = IF hop[to].state = "put"
               THEN Delivered(msg) \union {Send(msg.creator, to, msg.status,
                                                AddFrame(msg.frames, to, "SUCCESS"))}
               ELSE Delivered(msg)
  /\ UNCHANGED <<status, age, lrcm, result, hop, latency>>

\* It reaches the client: nothing happens when PathContext has dropped the path.
PathHandleLRSM(msg) ==
  /\ msg.net = "sent" /\ msg.from = 1
  /\ lrsm' = Delivered(msg)
  /\ \/ status = "Gone" /\ UNCHANGED <<status, age, latency>>
     \/ /\ status # "Gone" /\ ReadFrames(msg.frames).status = "SUCCESS"
        /\ HandlePathConfirmMessage
     \/ /\ status # "Gone" /\ ReadFrames(msg.frames).status # "SUCCESS"
        /\ status' = "Failed"
        /\ UNCHANGED <<age, latency>>
  /\ UNCHANGED <<lrcm, result, hop>>

resultCallback_Inverted(msg, res) ==
  /\ msg.result = "pending"
  /\ res = "ok" => msg.net = "delivered"
  /\ lrsm' = (lrsm \ {msg}) \union {[msg EXCEPT !.result = res]}
  /\ hop' = [hop EXCEPT ![msg.from].destroy =
               @ \/ (msg.status # "SUCCESS" \/ res = "ok")]
  /\ UNCHANGED <<status, age, lrcm, result, latency>>

\* The link layer reports what became of a status message; the hop goes when the
\* message is a failure or was not sent.
resultCallback(msg, res) ==
  /\ msg.result = "pending"
  /\ res = "ok" => msg.net = "delivered"
  /\ lrsm' = (lrsm \ {msg}) \union {[msg EXCEPT !.result = res]}
  /\ hop' = [hop EXCEPT ![msg.from].destroy =
               @ \/ (msg.status # "SUCCESS" \/ res = "failed")]
  /\ UNCHANGED <<status, age, lrcm, result, latency>>

----------------------------------------------------------------------------
(* Commit messages                                                          *)

\* Hop i decrypts the LRCM on a worker thread, and its TransitHop starts to age.
\* (A message that cannot be read goes no further, like one never delivered.)
HandleDecrypted(i) ==
  /\ lrcm[i] = "sent"
  /\ lrcm' = [lrcm EXCEPT ![i] = "decrypted"]
  /\ UNCHANGED <<status, age, result, hop, lrsm, latency>>

PutTransitHop(i) == hop' = [hop EXCEPT ![i].state = "put"]

\* SendLRCM refuses the build: the limit of its client's address is hit, or the
\* next hop is not allowed.  The TransitHop is not put.
RefuseLRCM(i, st) ==
  /\ i < NumHops /\ lrcm[i] = "decrypted"
  /\ st = "FAIL_CONGESTION" => i = 1
  /\ lrcm' = [lrcm EXCEPT ![i] = "handled"]
  /\ lrsm' = lrsm \union {CreateAndSend(i, st)}
  /\ UNCHANGED <<status, age, result, hop, latency>>

\* SendLRCM goes on to the next hop.  When ForwardLRCM cannot queue the message
\* it says so, but SendLRCM does not look.
SendLRCM(i) ==
  /\ i < NumHops /\ lrcm[i] = "decrypted"
  /\ PutTransitHop(i)
  /\ \/ /\ lrcm' = [lrcm EXCEPT ![i] = "handled", ![i + 1] = "sent"]
        /\ result' = [result EXCEPT ![i] = "pending"]
     \/ /\ lrcm' = [lrcm EXCEPT ![i] = "handled"]
        /\ UNCHANGED result
  /\ UNCHANGED <<status, age, lrsm, latency>>

\* The last hop.
SendPathConfirm ==
  /\ lrcm[NumHops] = "decrypted"
  /\ lrcm' = [lrcm EXCEPT ![NumHops] = "handled"]
  /\ PutTransitHop(NumHops)
  /\ lrsm' = lrsm \union {CreateAndSend(NumHops, "SUCCESS")}
  /\ UNCHANGED <<status, age, result, latency>>

\* The link layer reports that the LRCM of node i was not sent: a relay sends a
\* status message, the client (sentHandler) fails the path.  Nothing happens on
\* success.
OnForwardLRCMResult(i, st) ==
  /\ result[i] = "pending"
  /\ result' = [result EXCEPT ![i] = "failed"]
  /\ lrsm' = IF i \in Hops THEN lrsm \union {CreateAndSend(i, st)} ELSE lrsm
  /\ status' = IF i = 0 /\ status # "Gone" THEN "Failed" ELSE status
  /\ UNCHANGED <<age, lrcm, hop, latency>>

----------------------------------------------------------------------------
(* The latency message and time                                             *)

\* A hop that has the path passes the message on, the last one turns it round.
\* The client establishes the path, whatever state it is in.
RelayLatency ==
  LET dir == latency[1] i == latency[2] IN
  /\ dir \in {"up", "down"}
  /\ i \in Hops => hop[i].state = "put"
  /\ latency' = CASE dir = "up" /\ i < NumHops -> <<"up", i + 1>>
                  [] dir = "up" /\ i = NumHops -> <<"down", i - 1>>
                  [] dir = "down" /\ i > 0 -> <<"down", i - 1>>
                  [] OTHER -> <<"done", 0>>
  /\ status' = IF dir = "down" /\ i = 0 /\ status # "Gone" THEN "Established" ELSE status
  /\ UNCHANGED <<age, lrcm, result, hop, lrsm>>

Older(n) == IF n < default_lifetime THEN n + 1 ELSE n

PassTime ==
  /\ age < default_lifetime \/ \E i \in Hops : hop[i].state = "put" /\ hop[i].age < default_lifetime
  /\ age' = Older(age)
  /\ hop' = [i \in Hops |-> IF lrcm[i] \in {"decrypted", "handled"}
                              THEN [hop[i] EXCEPT !.age = Older(@)] ELSE hop[i]]
  /\ UNCHANGED <<status, lrcm, result, lrsm, latency>>

TransitHopExpired_NoAge(i) == hop[i].destroy

TransitHopExpired(i) == hop[i].destroy \/ hop[i].age >= default_lifetime

\* ExpirePaths of hop i.
ExpireTransitHop(i) ==
  /\ hop[i].state = "put" /\ TransitHopExpired(i)
  /\ hop' = [hop EXCEPT ![i].state = "gone"]
  /\ UNCHANGED <<status, age, lrcm, result, lrsm, latency>>

\* Path::Tick: the build has taken too long.
BuildTimeout ==
  /\ status = "Building" /\ age >= build_timeout
  /\ status' = "Expired"
  /\ UNCHANGED <<age, lrcm, result, hop, lrsm, latency>>

\* ExpirePaths of the client.
ExpirePath ==
  /\ \/ status \in {"Failed", "Expired"}
     \/ status = "Established" /\ age >= default_lifetime
  /\ status' = "Gone"
  /\ UNCHANGED <<age, lrcm, result, hop, lrsm, latency>>

Next ==
  \/ \E i \in Hops : \/ HandleDecrypted(i) \/ SendLRCM(i) \/ ExpireTransitHop(i)
                     \/ \E st \in {"FAIL_CONGESTION", "FAIL_DEST_INVALID"} : RefuseLRCM(i, st)
  \/ SendPathConfirm
  \/ \E i \in 0..NumHops - 1, st \in SendFailures : OnForwardLRCMResult(i, st)
  \/ \E msg \in lrsm : \/ TransitHopHandleLRSM(msg) \/ PathHandleLRSM(msg)
                       \/ \E res \in {"ok", "failed"} : resultCallback(msg, res)
  \/ RelayLatency \/ PassTime \/ BuildTimeout \/ ExpirePath

\* Clocks go on and every router ticks; the network owes nothing.
Spec ==
  /\ Init /\ [][Next]_vars
  /\ WF_vars(PassTime) /\ WF_vars(BuildTimeout) /\ WF_vars(ExpirePath)
  /\ \A i \in Hops : WF_vars(ExpireTransitHop(i))

----------------------------------------------------------------------------
(* Properties                                                               *)

TypeOK ==
  /\ status \in {"Building", "Established", "Failed", "Expired", "Gone"}
  /\ age \in 0..default_lifetime
  /\ lrcm \in [Hops -> {"none", "sent", "decrypted", "handled"}]
  /\ result \in [Nodes -> Results]
  /\ hop \in [Hops -> [state : {"none", "put", "gone"}, age : 0..default_lifetime,
                       destroy : BOOLEAN]]
  /\ \A msg \in lrsm :
       /\ msg.creator \in Hops /\ msg.from \in 1..msg.creator /\ msg.status \in RecordStatus
       /\ msg.net \in {"sent", "delivered"} /\ msg.result \in Results
  /\ latency \in {"none", "up", "down", "done"} \X Nodes

\* What the client reads in the frames of a status message is what its creator
\* wrote, at the creator's place in the path: every hop on the way back puts
\* its own frame in front (AddFrame), so the keys of the hops fit in order and
\* the client stops at the frame that says why the build failed.
VerdictIsCreators ==
  \A msg \in lrsm :
    msg.from = 1 => ReadFrames(msg.frames) = [at |-> msg.creator, status |-> msg.status]

\* No relay lets a hop expire of age that the client still uses: hops begin to
\* age after the path does (TransitHop::ExpireTime and Path::ExpireTime).
HopsOutlivePath ==
  \A i \in Hops : hop[i].state = "gone" /\ ~hop[i].destroy => age >= default_lifetime

\* A message was reported as not sent although it has been delivered.
Misreported ==
  \/ \E i \in 0..NumHops - 1 :
       result[i] = "failed" /\ lrcm[i + 1] \in {"decrypted", "handled"}
  \/ \E msg \in lrsm : msg.result = "failed" /\ msg.net = "delivered"

\* The ends agree: a path that is established at the client and not yet old has
\* all its hops, unless some router was told that a message failed that was
\* delivered all the same; only such a report makes a relay destroy a hop of a
\* path that gets confirmed.
EstablishedHasHops ==
  status = "Established" /\ age < default_lifetime /\ ~Misreported
    => \A i \in Hops : hop[i].state = "put" /\ ~hop[i].destroy

\* Nothing is left behind for ever by a build, wherever it got stuck: relays
\* whose status message or whose callback was lost drop the hop by its age.
HopsGoAway == (\E i \in Hops : hop[i].state = "put") ~> (\A i \in Hops : hop[i].state # "put")
=============================================================================
