------------------------------ MODULE MCTraffic ------------------------------
(* What comes in and goes on: packets that a link session hands to worker threads
   for decryption (PlaintextQueue), the messages in them (Messages) and the traffic
   on paths (RelayTraffic).  Only the one chosen at the start moves.           *)
EXTENDS Messages

CONSTANTS Packets, BadPackets, Threads, PlaintextQueueSize

VARIABLES m_DecryptNext, jobs, thread, m_PlaintextRecv, m_PlaintextEmpty, m_Wakeup, handling,
          linked, received, handled, overflowed

Plain == INSTANCE PlaintextQueue

plainVars == <<m_DecryptNext, jobs, thread, m_PlaintextRecv, m_PlaintextEmpty, m_Wakeup,
               handling, linked, received, handled, overflowed>>

(* Hops: pathEnd and otherEnd end here, middle is relayed, ours is an own path.
   ask is answered on its path, move is moved over to the other one; up1, up2,
   down1 and down2 are relayed; reply is for an own path.                      *)
CONSTANTS pathEnd, otherEnd, middle, ours, ask, move, up1, up2, down1, down2, reply,
          NoAnswer, transit_hop_queue_size, MaxArrived

Hops == {pathEnd, otherEnd, middle, ours}
RelayMsgs == {ask, move, up1, up2, down1, down2, reply}
Kind == [h \in Hops |-> CASE h = middle -> "transit" [] h = ours -> "own" [] OTHER -> "endpoint"]
HopOf == [m \in RelayMsgs |-> CASE m \in {ask, move} -> pathEnd [] m = reply -> ours
                               [] OTHER -> middle]
DirOf == [m \in RelayMsgs |-> IF m \in {down1, down2, reply} THEN "down" ELSE "up"]
AnswerOn == [m \in RelayMsgs |-> CASE m = ask -> pathEnd [] m = move -> otherEnd
                                  [] OTHER -> NoAnswer]

VARIABLES queue, relayJobs, relaying, gather, relayCalls, m_Pump, live, stopping, arrived, sent,
          dropped

Relay == INSTANCE RelayTraffic
           WITH Messages <- RelayMsgs, jobs <- relayJobs, thread <- relaying, calls <- relayCalls

relayVars == <<queue, relayJobs, relaying, gather, relayCalls, m_Pump, live, stopping, arrived,
               sent, dropped>>

VARIABLE moves   \* "plaintext", "relay" or "codec"

NoCodec == parser = "" /\ type = "" /\ held = <<>> /\ last = <<>>

-----------------------------------------------------------------------------
TrafficInit ==
  /\ Plain!Init /\ Relay!Init
  /\ \/ moves \in {"plaintext", "relay"} /\ NoCodec
     \/ moves = "codec" /\ Init

TrafficNext ==
  \/ moves = "plaintext" /\ Plain!Next /\ UNCHANGED <<relayVars, vars, moves>>
  \/ moves = "relay" /\ Relay!Next /\ UNCHANGED <<plainVars, vars, moves>>
  \/ moves = "codec" /\ Next /\ UNCHANGED <<plainVars, relayVars, moves>>

\* Each component's fairness.  The one that does not move has nothing enabled.
TrafficSpec ==
  /\ TrafficInit /\ [][TrafficNext]_<<plainVars, relayVars, vars, moves>>
  /\ WF_plainVars(Plain!LoopStep) /\ \A t \in Threads : WF_plainVars(Plain!ThreadStep(t))
  /\ WF_relayVars(Relay!LoopStep) /\ \A t \in Threads : WF_relayVars(Relay!ThreadStep(t))

\* Packets are handled, in time, but for those that a full queue loses: the wake-up of
\* the event loop is not lost between the worker's flag and the pop.
PlaintextHandled == Plain!PlaintextHandled

\* A relayed message is in exactly one place: not lost, not sent twice.
RelayedOnce == Relay!RelayedOnce

\* A relayed message is sent on, but for those dropped at a full upstream queue
\* or left on an expired hop; no worker waits for ever.
RelayedOn == Relay!RelayedOn

\* Whatever messages came before, refused ones included: a message that is handled has
\* exactly the fields that were sent and valid signatures, and it was whole; and an
\* intact message of our protocol version is handled (ProcessFrom, ParseMessageBuffer
\* and the BEncode, DecodeKey and Clear of every type).
CodecsAgree == moves = "codec" => MessagesUnderstood
==============================================================================
