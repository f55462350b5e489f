----------------------------- MODULE MCHandover -----------------------------
(* What threads hand over is not lost or stuck: functions given to the event
   loop (EventLoop), pushes into a queue whose owner disables it, and pushes and
   pops that wait for each other (ThreadQueue).  Only the one chosen at the start
   moves.  a, b and d are given to the loop by other threads, e is an I/O handler,
   x and y are queued by functions that run on the loop thread.                *)
EXTENDS EventLoop, Integers

CONSTANTS a, b, d, e, x, y

SpawnSome == [c \in Calls |-> CASE c = e -> <<x, y>> [] c = a -> <<x>> [] OTHER -> <<>>]

CONSTANTS Pushers, Poppers, PushOps, PopOps, Capacity, NumGenerations, MaxPushes, MaxDisables

VARIABLES
  m_states, m_data, m_pushIndex, m_popIndex, m_waitingPoppers, m_popSemaphore,
  m_waitingPushers, m_pushSemaphore, pc, op, loaded, saved, secondTry, taken, pushed, disables,
  moves   \* "loop", "disabled" or "served"

Queue == INSTANCE ThreadQueue WITH Start <- 0
Served == INSTANCE ThreadQueue
            WITH PopOps <- {"popFront"}, MaxPushes <- 2, MaxDisables <- 0, Start <- 0

queueVars == <<m_states, m_data, m_pushIndex, m_popIndex, m_waitingPoppers, m_popSemaphore,
               m_waitingPushers, m_pushSemaphore, pc, op, loaded, saved, secondTry, taken,
               pushed, disables>>

HandoverInit == Init /\ Queue!Init /\ moves \in {"loop", "disabled", "served"}

HandoverNext ==
  \/ moves = "loop" /\ Next /\ UNCHANGED <<queueVars, moves>>
  \/ moves = "disabled" /\ Queue!Next /\ UNCHANGED <<vars, moves>>
  \/ moves = "served" /\ Served!Next /\ UNCHANGED <<vars, moves>>

HandoverSpec ==
  /\ HandoverInit /\ [][HandoverNext]_<<vars, queueVars, moves>>
  /\ WF_vars(moves = "loop" /\ LoopStep)
  /\ \A w \in Workers : WF_vars(WorkerStep(w))
  /\ \A t \in Pushers : WF_queueVars(Queue!PushStep(t))
  /\ \A t \in Poppers : WF_queueVars(Queue!PopStep(t))
  /\ \A t \in Poppers : WF_queueVars(moves = "served" /\ Served!StartPop(t))
  /\ WF_queueVars(disables.notify /\ Queue!disable)

\* Nobody who uses a queue is stuck.  "All push operations will fail fast (including
\* blocked operations)" once it is disabled: a push in progress returns.  While it is
\* served, all its elements are eventually handed to a popping thread and all blocked
\* pushes return: no wake-up is lost between the check of the indexes and the wait on
\* the semaphore.
NobodyStuck ==
  /\ Queue!DisabledPushReturns
  /\ (moves = "served" /\ Served!Busy) ~> ~Served!Busy
==============================================================================
