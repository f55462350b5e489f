-------------------------- MODULE MessageDelivery --------------------------
(***************************************************************************)
(* What an established link session promises for the messages given to     *)
(* ILinkSession::SendMessageBuffer with a CompletionHandler.               *)
(***************************************************************************)
CONSTANT MsgIds

VARIABLES
  status,   \* status[m]: what the sender's completion handler was told
  outcome   \* outcome[m]: what the receiver did with the message

Init ==
  /\ status = [m \in MsgIds |-> "unsent"]
  /\ outcome = [m \in MsgIds |-> "none"]

Is(f, M, v) == \A m \in M : f[m] = v

Set(f, M, v) == [m \in MsgIds |-> IF m \in M THEN v ELSE f[m]]

Submit(m) ==
  /\ status[m] = "unsent"
  /\ \E s \in {"pending", "dropped"} : status' = Set(status, {m}, s)
  /\ UNCHANGED outcome

\* The receiver hands m to its router.  The sender may have given up.
Deliver(m) ==
  /\ status[m] # "unsent" /\ outcome[m] = "none"
  /\ outcome' = Set(outcome, {m}, "delivered")
  /\ UNCHANGED status

\* The receiver gives up the messages M, of which it has a part.
Abandon(M) ==
  /\ \A m \in M : status[m] # "unsent" /\ outcome[m] = "none"
  /\ outcome' = Set(outcome, M, "abandoned")
  /\ UNCHANGED status

Succeed(m) ==
  /\ status[m] = "pending" /\ outcome[m] # "none"
  /\ status' = Set(status, {m}, "success")
  /\ UNCHANGED outcome

Drop(M) ==
  /\ Is(status, M, "pending")
  /\ status' = Set(status, M, "dropped")
  /\ UNCHANGED outcome

Next ==
  \/ \E m \in MsgIds : Submit(m) \/ Deliver(m) \/ Succeed(m)
  \/ \E M \in SUBSET MsgIds : Abandon(M) \/ Drop(M)

Safety == Init /\ [][Next]_<<status, outcome>>

\* A pending message is reported on in the end.
Spec ==
  Safety /\ \A m \in MsgIds : WF_<<status, outcome>>(Succeed(m) \/ Drop({m}))
=============================================================================
