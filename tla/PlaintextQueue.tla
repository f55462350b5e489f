--------------------------- MODULE PlaintextQueue ---------------------------
(* How a link session's packets get from the event loop to the worker threads
   that decrypt them, and back (iwp/session.cpp, iwp/linklayer.cpp).  A worker
   pushes what it decrypted into m_PlaintextRecv, clears m_PlaintextEmpty and
   triggers the link layer's wakeup; the loop, woken up, does nothing for a
   session whose flag is set, and otherwise sets the flag and empties the queue.

   The flag, the queue and the wakeup are three objects, each atomic: a worker
   interleaves with the loop between any two of its steps.  m_PlaintextRecv is
   a ThreadQueue; here it is the FIFO queue that component implements.         *)
EXTENDS Sequences, FiniteSets, Naturals

CONSTANTS
  Packets,             \* the packets of the session, each received at most once
  BadPackets,          \* those that do not decrypt or have another version
  Threads,             \* the worker threads
  PlaintextQueueSize

VARIABLES
  m_DecryptNext,       \* packets waiting for the next pump
  jobs,                \* batches handed to QueueWork that no thread has taken
  thread,              \* what each worker thread is doing
  m_PlaintextRecv, m_PlaintextEmpty,
  m_Wakeup,            \* the wakeup is triggered and the loop has not served it
  handling,            \* the loop is inside HandlePlaintext
  linked,              \* the session is in m_AuthedLinks or m_Pending
  received, handled, overflowed   \* packets so far: all; processed; lost to a full queue

vars == <<m_DecryptNext, jobs, thread, m_PlaintextRecv, m_PlaintextEmpty, m_Wakeup, handling,
          linked, received, handled, overflowed>>

Idle == [at |-> "idle", msgs |-> {}]

TypeOK ==
  /\ m_DecryptNext \subseteq Packets
  /\ jobs \subseteq SUBSET Packets
  /\ thread \in [Threads -> [at : {"idle", "push", "clear", "wakeup"}, msgs : SUBSET Packets]]
  /\ m_PlaintextRecv \in Seq(SUBSET Packets) /\ Len(m_PlaintextRecv) <= PlaintextQueueSize
  /\ {m_PlaintextEmpty, m_Wakeup, handling, linked} \subseteq BOOLEAN
  /\ {received, handled, overflowed} \subseteq SUBSET Packets

Init ==
  /\ m_DecryptNext = {} /\ jobs = {} /\ thread = [t \in Threads |-> Idle]
  /\ m_PlaintextRecv = <<>> /\ m_PlaintextEmpty = TRUE
  /\ m_Wakeup = FALSE /\ handling = FALSE /\ linked = TRUE
  /\ received = {} /\ handled = {} /\ overflowed = {}

-----------------------------------------------------------------------------
(* The event loop.  Nothing else runs on it while it is in HandlePlaintext.    *)

HandleSessionData(p) ==
  /\ ~handling /\ linked /\ p \notin received
  /\ received' = received \union {p}
  /\ m_DecryptNext' = m_DecryptNext \union {p}
  /\ UNCHANGED <<jobs, thread, m_PlaintextRecv, m_PlaintextEmpty, m_Wakeup, handling, linked,
                 handled, overflowed>>

\* Mutant: the batch is cleared before it is handed over.
ClearBeforeHandover ==
  /\ ~handling /\ linked /\ m_DecryptNext # {}
  /\ jobs' = jobs \union {{}}
  /\ m_DecryptNext' = {}
  /\ UNCHANGED <<thread, m_PlaintextRecv, m_PlaintextEmpty, m_Wakeup, handling, linked,
                 received, handled, overflowed>>
Pump ==
  /\ ~handling /\ linked /\ m_DecryptNext # {}
  /\ jobs' = jobs \union {m_DecryptNext}
  /\ m_DecryptNext' = {}
  /\ UNCHANGED <<thread, m_PlaintextRecv, m_PlaintextEmpty, m_Wakeup, handling, linked,
                 received, handled, overflowed>>

\* HandlePlaintext is called only for the sessions that are in the two tables.
HandleWakeupPlaintext ==
  /\ ~handling /\ m_Wakeup
  /\ m_Wakeup' = FALSE
  /\ handling' = (linked /\ ~m_PlaintextEmpty)
  /\ m_PlaintextEmpty' = (m_PlaintextEmpty \/ linked)
  /\ UNCHANGED <<m_DecryptNext, jobs, thread, m_PlaintextRecv, linked, received, handled,
                 overflowed>>

\* One turn of HandlePlaintext's loop, or its end.
HandlePlaintext ==
  /\ handling
  /\ \/ /\ m_PlaintextRecv # <<>>
        /\ handled' = handled \union Head(m_PlaintextRecv)
        /\ m_PlaintextRecv' = Tail(m_PlaintextRecv)
        /\ UNCHANGED <<handling, m_Wakeup>>
     \/ /\ m_PlaintextRecv = <<>>
        /\ handling' = FALSE
        /\ m_Wakeup' = TRUE
        /\ UNCHANGED <<handled, m_PlaintextRecv>>
  /\ UNCHANGED <<m_DecryptNext, jobs, thread, m_PlaintextEmpty, linked, received, overflowed>>

\* The link layer forgets the session (it timed out or was closed); threads
\* that hold it go on.
Removed ==
  /\ ~handling /\ linked
  /\ linked' = FALSE
  /\ UNCHANGED <<m_DecryptNext, jobs, thread, m_PlaintextRecv, m_PlaintextEmpty, m_Wakeup,
                 handling, received, handled, overflowed>>

-----------------------------------------------------------------------------
(* DecryptWorker, on a worker thread.                                          *)

TakeJob(t) ==
  /\ thread[t].at = "idle"
  /\ \E msgs \in jobs :
       /\ jobs' = jobs \ {msgs}
       /\ thread' = [thread EXCEPT ![t] = [at |-> "push", msgs |-> msgs \ BadPackets]]
  /\ UNCHANGED <<m_DecryptNext, m_PlaintextRecv, m_PlaintextEmpty, m_Wakeup, handling, linked,
                 received, handled, overflowed>>

DecryptWorkerStep(t) ==
  \/ /\ thread[t].at = "push"
     /\ IF Len(m_PlaintextRecv) < PlaintextQueueSize
        THEN m_PlaintextRecv' = Append(m_PlaintextRecv, thread[t].msgs) /\ UNCHANGED overflowed
        ELSE overflowed' = overflowed \union thread[t].msgs /\ UNCHANGED m_PlaintextRecv
     /\ thread' = [thread EXCEPT ![t] = [at |-> "clear", msgs |-> {}]]
     /\ UNCHANGED <<m_PlaintextEmpty, m_Wakeup>>
  \/ /\ thread[t].at = "clear"
     /\ m_PlaintextEmpty' = FALSE
     /\ thread' = [thread EXCEPT ![t].at = "wakeup"]
     /\ UNCHANGED <<m_PlaintextRecv, overflowed, m_Wakeup>>
  \/ /\ thread[t].at = "wakeup"
     /\ m_Wakeup' = TRUE
     /\ thread' = [thread EXCEPT ![t] = Idle]
     /\ UNCHANGED <<m_PlaintextRecv, m_PlaintextEmpty, overflowed>>

DecryptWorker(t) ==
  DecryptWorkerStep(t) /\ UNCHANGED <<m_DecryptNext, jobs, handling, linked, received, handled>>

-----------------------------------------------------------------------------
LoopStep == Pump \/ HandleWakeupPlaintext \/ HandlePlaintext
ThreadStep(t) == TakeJob(t) \/ DecryptWorker(t)

Next ==
  \/ \E p \in Packets : HandleSessionData(p)
  \/ LoopStep \/ Removed
  \/ \E t \in Threads : ThreadStep(t)

\* The loop serves what is triggered on it and a worker thread goes on with its job.
Spec ==
  /\ Init /\ [][Next]_vars
  /\ WF_vars(LoopStep) /\ \A t \in Threads : WF_vars(ThreadStep(t))

-----------------------------------------------------------------------------
\* Every packet that reached the session is processed, unless it is bad, was
\* lost to a full queue, or the session went away first: no order of the
\* workers' push, clear and wakeup with the loop's test and pops strands one.
PlaintextHandled ==
  (linked /\ ~(received \subseteq handled \union overflowed \union BadPackets))
    ~> (~linked \/ received \subseteq handled \union overflowed \union BadPackets)
==============================================================================
