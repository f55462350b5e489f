------------------------------ MODULE EventLoop ------------------------------
(* uv::Loop: the event-loop thread that runs the functions other threads and its
   own handlers give to call, call_soon and call_later.  m_LogicCalls is the
   bounded first-in first-out queue of FifoQueue; pushBack blocks while it is
   full.  The loop thread's call stack is explicit, because call_soon may flush
   the queue from inside a function that the queue's flush is running.        *)
EXTENDS Naturals, Sequences, FiniteSets, TLAPS

CONSTANTS
  Calls,         \* the functions
  Workers,       \* the other threads
  WorkerCalls,   \* the functions they give to the loop
  EventCalls,    \* the functions libuv runs itself: timers and I/O handlers
  Delayed,       \* the functions given to call_later
  Spawn,         \* Spawn[c]: the functions c gives to call_soon, in order
  QueueSize      \* event_loop_queue_size

ASSUME LoopAssumption ==
  /\ WorkerCalls \subseteq Calls /\ EventCalls \subseteq Calls /\ Delayed \subseteq WorkerCalls
  /\ WorkerCalls \cap EventCalls = {}
  /\ Spawn \in [Calls -> Seq(Calls)] /\ QueueSize \in Nat \ {0}

VARIABLES
  started,        \* m_EventLoopThreadID has a value
  m_LogicCalls,   \* the queued functions
  wake,           \* m_WakeUp has been sent and not handled
  stack,          \* the loop thread's frames, innermost first
  worker,         \* worker -> [at, call]
  timers,         \* delayed functions with a timer running
  toCall,         \* functions that no thread has called yet
  dropped         \* functions refused before the loop ran

vars == <<started, m_LogicCalls, wake, stack, worker, timers, toCall, dropped>>

Free == [at |-> "free"]
Run(c) == [frame |-> "run", todo |-> Spawn[c]]
Flush == [frame |-> "flush"]
Push(c) == [frame |-> "push", call |-> c]
full == Len(m_LogicCalls) >= QueueSize

Init ==
  /\ started = FALSE /\ m_LogicCalls = <<>> /\ wake = FALSE /\ stack = <<>>
  /\ worker = [w \in Workers |-> Free]
  /\ timers = {} /\ toCall = WorkerCalls \cup EventCalls /\ dropped = {}

run ==
  /\ ~started /\ started' = TRUE
  /\ UNCHANGED <<m_LogicCalls, wake, stack, worker, timers, toCall, dropped>>

-----------------------------------------------------------------------------
(* Other threads *)

\* call, call_soon or call_later: before the loop runs, the function is dropped
\* when the queue is full.
call_soon(w, c) ==
  /\ worker[w] = Free /\ c \in toCall \cap WorkerCalls
  /\ toCall' = toCall \ {c}
  /\ IF started
       THEN /\ worker' = [worker EXCEPT ![w] = [at |-> "push", call |-> c]]
            /\ UNCHANGED <<m_LogicCalls, dropped>>
       ELSE /\ worker' = [worker EXCEPT ![w] = [at |-> "send"]]
            /\ IF full THEN dropped' = dropped \cup {c} /\ UNCHANGED m_LogicCalls
                       ELSE /\ m_LogicCalls' = Append(m_LogicCalls, c)
                            /\ UNCHANGED dropped
  /\ UNCHANGED <<started, wake, stack, timers>>

pushBack(w) ==
  /\ worker[w].at = "push" /\ ~full
  /\ m_LogicCalls' = Append(m_LogicCalls, worker[w].call)
  /\ worker' = [worker EXCEPT ![w] = [at |-> "send"]]
  /\ UNCHANGED <<started, wake, stack, timers, toCall, dropped>>

send(w) ==
  /\ worker[w].at = "send"
  /\ wake' = TRUE
  /\ worker' = [worker EXCEPT ![w] = Free]
  /\ UNCHANGED <<started, m_LogicCalls, stack, timers, toCall, dropped>>

-----------------------------------------------------------------------------
(* The loop thread *)

Polling == started /\ stack = <<>>

tick_event_loop ==
  /\ Polling /\ wake
  /\ wake' = FALSE /\ stack' = <<Flush>>
  /\ UNCHANGED <<started, m_LogicCalls, worker, timers, toCall, dropped>>

\* libuv runs an I/O handler.
IoEvent(c) ==
  /\ Polling /\ c \in toCall \cap EventCalls
  /\ stack' = <<Run(c)>>
  /\ toCall' = toCall \ {c}
  /\ UNCHANGED <<started, m_LogicCalls, wake, worker, timers, dropped>>

TimerEvent_NeverFires(c) == c \in timers /\ FALSE /\ UNCHANGED vars
TimerEvent(c) ==
  /\ Polling /\ c \in timers
  /\ stack' = <<Run(c)>>
  /\ timers' = timers \ {c}
  /\ UNCHANGED <<started, m_LogicCalls, wake, worker, toCall, dropped>>

FlushLogic_Once ==
  /\ stack # <<>> /\ Head(stack) = Flush
  /\ IF m_LogicCalls = <<>>
       THEN stack' = Tail(stack) /\ UNCHANGED <<m_LogicCalls, timers>>
       ELSE LET c == Head(m_LogicCalls)
            IN /\ m_LogicCalls' = Tail(m_LogicCalls)
               /\ stack' = <<Run(c)>> \o Tail(stack) /\ UNCHANGED timers
  /\ UNCHANGED <<started, wake, worker, toCall, dropped>>

\* The function call_later queues starts the timer, unless the delay is over.
call_later(c) == c \in Delayed /\ timers' = timers \cup {c} /\ UNCHANGED stack

\* One round of the loop in FlushLogic.
FlushLogic ==
  /\ stack # <<>> /\ Head(stack) = Flush
  /\ IF m_LogicCalls = <<>>
       THEN stack' = Tail(stack) /\ UNCHANGED <<m_LogicCalls, timers>>
       ELSE LET c == Head(m_LogicCalls)
            IN /\ m_LogicCalls' = Tail(m_LogicCalls)
               /\ \/ stack' = <<Run(c)>> \o stack /\ UNCHANGED timers
                  \/ call_later(c)
  /\ UNCHANGED <<started, wake, worker, toCall, dropped>>

Return ==
  /\ stack # <<>> /\ Head(stack).frame = "run" /\ Head(stack).todo = <<>>
  /\ stack' = Tail(stack)
  /\ UNCHANGED <<started, m_LogicCalls, wake, worker, timers, toCall, dropped>>

\* The running function calls call_soon: a full queue is flushed first.
call_soon_inEventLoop ==
  /\ stack # <<>> /\ Head(stack).frame = "run" /\ Head(stack).todo # <<>>
  /\ LET f == Head(stack)
         rest == <<[f EXCEPT !.todo = Tail(f.todo)]>> \o Tail(stack)
         push == <<Push(Head(f.todo))>>
     IN stack' = (IF full THEN <<Flush>> \o push ELSE push) \o rest
  /\ UNCHANGED <<started, m_LogicCalls, wake, worker, timers, toCall, dropped>>

pushBack_inEventLoop ==
  /\ stack # <<>> /\ Head(stack).frame = "push" /\ ~full
  /\ m_LogicCalls' = Append(m_LogicCalls, Head(stack).call)
  /\ wake' = TRUE
  /\ stack' = Tail(stack)
  /\ UNCHANGED <<started, worker, timers, toCall, dropped>>

LoopStep ==
  \/ run \/ tick_event_loop \/ (\E c \in Calls : TimerEvent(c))
  \/ FlushLogic \/ Return \/ call_soon_inEventLoop \/ pushBack_inEventLoop
WorkerStep(w) == pushBack(w) \/ send(w)

Next ==
  \/ LoopStep \/ \E c \in Calls : IoEvent(c)
  \/ \E w \in Workers : WorkerStep(w) \/ \E c \in WorkerCalls : call_soon(w, c)

\* The loop thread, and a thread inside a call, are scheduled; timers fire.
Spec == Init /\ [][Next]_vars /\ WF_vars(LoopStep) /\ \A w \in Workers : WF_vars(WorkerStep(w))

-----------------------------------------------------------------------------
Frames == [frame : {"run"}, todo : Seq(Calls)] \cup {Flush} \cup {Push(c) : c \in Calls}
WorkerStates == {Free, [at |-> "send"]} \cup {[at |-> "push", call |-> c] : c \in Calls}

TypeOK ==
  /\ started \in BOOLEAN /\ wake \in BOOLEAN
  /\ m_LogicCalls \in Seq(Calls) /\ Len(m_LogicCalls) <= QueueSize
  /\ stack \in Seq(Frames)
  /\ worker \in [Workers -> WorkerStates]
  /\ timers \subseteq Calls /\ toCall \subseteq Calls /\ dropped \subseteq Calls

\* No wake-up is lost: when the loop thread waits in libuv and the queue has a
\* function, the wake-up is pending or about to be sent.
WakeupPending ==
  Polling /\ m_LogicCalls # <<>> => wake \/ \E w \in Workers : worker[w].at = "send"

\* Inductive form: also while the loop thread runs a handler of libuv, at the
\* bottom of its stack, since the flush that follows a wake-up is not under way.
Bottom == stack[Len(stack)]
WakeupKept ==
  (stack = <<>> \/ Bottom.frame = "run") /\ m_LogicCalls # <<>>
    => wake \/ \E w \in Workers : worker[w].at = "send"

Pending(c) ==
  \/ \E i \in DOMAIN m_LogicCalls : m_LogicCalls[i] = c
  \/ \E w \in Workers : worker[w].at = "push" /\ worker[w].call = c
  \/ \E i \in DOMAIN stack : stack[i].frame = "push" /\ stack[i].call = c
  \/ c \in timers

\* "Queues a function ... and triggers it to be called as soon as possible": a
\* function that was given to the loop is run.
EventuallyCalled == \A c \in Calls : Pending(c) ~> ~Pending(c)

\* The loop thread waits in pushBack for a place in the queue it alone empties.
LoopBlocked == stack # <<>> /\ Head(stack).frame = "push" /\ full

\* Blocking on its own queue is the only way in which the loop fails to run the
\* functions it was given: none is forgotten in the queue, in a thread that
\* waits for a place, in a nested flush or in a timer.
CalledUnlessBlocked ==
  (\E c \in Calls : Pending(c)) ~> (\A c \in Calls : ~Pending(c)) \/ LoopBlocked

-----------------------------------------------------------------------------
(* Theorems: the loop's state is well typed and it loses no wake-up, for every
   set of functions, every number of threads and every queue size.           *)

\* What the proofs use of the sequences that stand for the queue and the stack.
LEMMA SeqFacts ==
  ASSUME NEW S, NEW s \in Seq(S)
  PROVE  /\ s # <<>> => Head(s) \in S /\ Tail(s) \in Seq(S) /\ Len(s) \in Nat /\ Len(s) > 0
                        /\ Len(Tail(s)) = Len(s) - 1
         /\ \A e \in S : Append(s, e) \in Seq(S) /\ Len(Append(s, e)) = Len(s) + 1
                         /\ Append(s, e) # <<>>
         /\ \A e \in S : <<e>> \o s \in Seq(S)
  OBVIOUS

\* A frame pushed on a stack that is not empty leaves the bottom frame alone.
LEMMA BottomOfPush ==
  ASSUME NEW S, NEW s \in Seq(S), NEW e \in S, s # <<>>
  PROVE  LET t == <<e>> \o s IN t # <<>> /\ t[Len(t)] = s[Len(s)]
  OBVIOUS

\* A frame popped off a stack of two or more leaves the bottom frame alone.
LEMMA BottomOfTail ==
  ASSUME NEW S, NEW s \in Seq(S), s # <<>>, Tail(s) # <<>>
  PROVE  Tail(s)[Len(Tail(s))] = s[Len(s)]
  OBVIOUS

\* The innermost frame of a stack of one is its bottom frame.
LEMMA BottomOfOne ==
  ASSUME NEW S, NEW s \in Seq(S), s # <<>>, Tail(s) = <<>>
  PROVE  s[Len(s)] = Head(s)
<1>1. Len(s) \in Nat /\ Len(Tail(s)) = Len(s) - 1
  OBVIOUS
<1>2. Len(Tail(s)) = 0
  <2>1. Len(<<>>) = 0
    OBVIOUS
  <2> QED BY <2>1, Zenon
<1>3. Len(s) = 1
  BY <1>1, <1>2
<1>4. Head(s) = s[1]
  OBVIOUS
<1> QED BY <1>3, <1>4

LEMMA FrameFacts ==
  /\ \A c \in Calls : Run(c) \in Frames /\ Run(c).frame = "run" /\ Push(c) \in Frames
  /\ Flush \in Frames /\ Flush.frame # "run"
  /\ \A f \in Frames : f.frame = "run" => f.todo \in Seq(Calls)
  /\ \A f \in Frames : f.frame = "push" => f.call \in Calls
<1>1. \A c \in Calls : Run(c) \in Frames /\ Run(c).frame = "run" /\ Push(c) \in Frames
  BY LoopAssumption DEF Frames, Run
<1>2. Flush \in Frames /\ Flush.frame # "run"
  BY DEF Frames, Flush
<1>3. ASSUME NEW f \in Frames
      PROVE  (f.frame = "run" => f.todo \in Seq(Calls)) /\ (f.frame = "push" => f.call \in Calls)
  <2>1. CASE f \in [frame : {"run"}, todo : Seq(Calls)]
    BY <2>1
  <2>2. CASE f = Flush
    BY <2>2 DEF Flush
  <2>3. ASSUME NEW c \in Calls, f = Push(c) PROVE f.frame = "push" /\ f.call \in Calls
    BY <2>3 DEF Push
  <2> QED BY <2>1, <2>2, <2>3 DEF Frames
<1> QED BY <1>1, <1>2, <1>3

LEMMA WorkerFacts ==
  /\ Free \in WorkerStates /\ [at |-> "send"] \in WorkerStates
  /\ \A c \in Calls : [at |-> "push", call |-> c] \in WorkerStates
  /\ \A s \in WorkerStates : s.at = "push" => s.call \in Calls
<1>1. Free \in WorkerStates /\ [at |-> "send"] \in WorkerStates
  BY DEF WorkerStates
<1>2. \A c \in Calls : [at |-> "push", call |-> c] \in WorkerStates
  BY DEF WorkerStates
<1>3. ASSUME NEW s \in WorkerStates, s.at = "push" PROVE s.call \in Calls
  <2>1. s # Free /\ s # [at |-> "send"]
    BY <1>3 DEF Free
  <2>2. PICK c \in Calls : s = [at |-> "push", call |-> c]
    BY <2>1 DEF WorkerStates
  <2> QED BY <2>2
<1> QED BY <1>1, <1>2, <1>3

LEMMA TypeInit == Init => TypeOK
<1> SUFFICES ASSUME Init PROVE TypeOK
  OBVIOUS
<1>1. worker \in [Workers -> WorkerStates]
  BY WorkerFacts DEF Init
<1>2. Len(<<>>) <= QueueSize
  BY LoopAssumption
<1>3. m_LogicCalls \in Seq(Calls) /\ Len(m_LogicCalls) <= QueueSize
  BY <1>2 DEF Init
<1>4. stack \in Seq(Frames)
  BY DEF Init
<1> QED BY <1>1, <1>3, <1>4, LoopAssumption DEF Init, TypeOK

LEMMA TypeStep ==
  ASSUME TypeOK, [Next]_vars
  PROVE  TypeOK'
<1> USE DEF TypeOK
<1>1. CASE run
  BY <1>1 DEF run
<1>2. CASE tick_event_loop
  <2>1. stack' \in Seq(Frames)
    BY <1>2, FrameFacts DEF tick_event_loop
  <2> QED BY <1>2, <2>1 DEF tick_event_loop
<1>3. ASSUME NEW c \in Calls, IoEvent(c) \/ TimerEvent(c) PROVE TypeOK'
  <2>1. stack' = <<Run(c)>>
    BY <1>3 DEF IoEvent, TimerEvent
  <2>2. stack' \in Seq(Frames)
    BY <2>1, FrameFacts
  <2> QED BY <1>3, <2>2 DEF IoEvent, TimerEvent
<1>4. CASE FlushLogic
  <2>1. CASE m_LogicCalls = <<>>
    BY <1>4, <2>1, SeqFacts DEF FlushLogic
  <2>2. CASE m_LogicCalls # <<>>
    <3>1. m_LogicCalls \in Seq(Calls)
      OBVIOUS
    <3>2. /\ Head(m_LogicCalls) \in Calls /\ Tail(m_LogicCalls) \in Seq(Calls)
          /\ Len(Tail(m_LogicCalls)) = Len(m_LogicCalls) - 1
      BY <2>2, <3>1, SeqFacts
    <3>3. Head(m_LogicCalls) \in Calls
      BY <3>2
    <3>4. Run(Head(m_LogicCalls)) \in Frames
      BY <3>3, FrameFacts
    <3>5. m_LogicCalls' = Tail(m_LogicCalls)
      BY <1>4, <2>2 DEF FlushLogic
    <3>6. m_LogicCalls' \in Seq(Calls) /\ Len(m_LogicCalls') <= QueueSize
      BY <3>1, <3>2, <3>5, LoopAssumption
    <3>7. stack' \in Seq(Frames) /\ timers' \subseteq Calls
      <4>1. <<Run(Head(m_LogicCalls))>> \o stack \in Seq(Frames)
        BY <3>4, SeqFacts
      <4> QED BY <1>4, <2>2, <3>3, <4>1 DEF FlushLogic, call_later
    <3> QED BY <1>4, <3>6, <3>7 DEF FlushLogic
  <2> QED BY <2>1, <2>2
<1>5. CASE Return
  BY <1>5, SeqFacts DEF Return
<1>6. CASE call_soon_inEventLoop
  <2> DEFINE f == Head(stack)
             g == [f EXCEPT !.todo = Tail(f.todo)]
             rest == <<g>> \o Tail(stack)
             p == Push(Head(f.todo))
  <2>1. f \in Frames /\ f.frame = "run" /\ f.todo # <<>> /\ Tail(stack) \in Seq(Frames)
    BY <1>6, SeqFacts DEF call_soon_inEventLoop
  <2>2. f \in [frame : {"run"}, todo : Seq(Calls)]
    BY <2>1 DEF Frames, Flush, Push
  <2>3. Head(f.todo) \in Calls /\ Tail(f.todo) \in Seq(Calls)
    BY <2>1, <2>2, SeqFacts
  <2>4. g \in Frames
    BY <2>2, <2>3 DEF Frames
  <2>5. p \in Frames /\ Flush \in Frames
    BY <2>3, FrameFacts
  <2>6. rest \in Seq(Frames)
    BY <2>1, <2>4
  <2>7. <<p>> \o rest \in Seq(Frames) /\ (<<Flush>> \o <<p>>) \o rest \in Seq(Frames)
    BY <2>5, <2>6
  <2>8. stack' \in Seq(Frames)
    BY <1>6, <2>7 DEF call_soon_inEventLoop
  <2> QED BY <1>6, <2>8 DEF call_soon_inEventLoop
<1>7. CASE pushBack_inEventLoop
  <2>1. Head(stack) \in Frames /\ Tail(stack) \in Seq(Frames) /\ Head(stack).call \in Calls
    BY <1>7, SeqFacts, FrameFacts DEF pushBack_inEventLoop
  <2>2. Head(stack).call \in Calls /\ m_LogicCalls \in Seq(Calls)
    BY <2>1
  <2>3. m_LogicCalls' \in Seq(Calls) /\ Len(m_LogicCalls') = Len(m_LogicCalls) + 1
    BY <1>7, <2>2, SeqFacts DEF pushBack_inEventLoop
  <2>4. Len(m_LogicCalls') <= QueueSize
    BY <1>7, <2>2, <2>3, LoopAssumption DEF pushBack_inEventLoop, full
  <2> QED BY <1>7, <2>1, <2>3, <2>4 DEF pushBack_inEventLoop
<1>8. ASSUME NEW w \in Workers, pushBack(w) PROVE TypeOK'
  <2>1. worker[w] \in WorkerStates /\ worker[w].call \in Calls
    BY <1>8, WorkerFacts DEF pushBack
  <2>2. worker[w].call \in Calls /\ m_LogicCalls \in Seq(Calls)
    BY <2>1
  <2>3. m_LogicCalls' \in Seq(Calls) /\ Len(m_LogicCalls') = Len(m_LogicCalls) + 1
    BY <1>8, <2>2, SeqFacts DEF pushBack
  <2>4. Len(m_LogicCalls') <= QueueSize
    BY <1>8, <2>2, <2>3, LoopAssumption DEF pushBack, full
  <2> QED BY <1>8, <2>3, <2>4, WorkerFacts DEF pushBack
<1>9. ASSUME NEW w \in Workers, send(w) PROVE TypeOK'
  BY <1>9, WorkerFacts DEF send
<1>10. ASSUME NEW w \in Workers, NEW c \in WorkerCalls, call_soon(w, c) PROVE TypeOK'
  <2>1. c \in Calls
    BY LoopAssumption
  <2>2. worker' \in [Workers -> WorkerStates]
    BY <1>10, <2>1, WorkerFacts DEF call_soon
  <2>3. c \in Calls /\ m_LogicCalls \in Seq(Calls)
    BY <2>1
  <2>4. /\ Append(m_LogicCalls, c) \in Seq(Calls)
        /\ Len(Append(m_LogicCalls, c)) = Len(m_LogicCalls) + 1
    BY <2>3, SeqFacts
  <2>5. m_LogicCalls' \in Seq(Calls) /\ Len(m_LogicCalls') <= QueueSize
    <3>1. \/ UNCHANGED m_LogicCalls
          \/ ~full /\ m_LogicCalls' = Append(m_LogicCalls, c)
      BY <1>10 DEF call_soon
    <3>2. CASE UNCHANGED m_LogicCalls
      BY <2>3, <3>2
    <3>3. CASE ~full /\ m_LogicCalls' = Append(m_LogicCalls, c)
      <4>1. Len(m_LogicCalls) \in Nat /\ Len(m_LogicCalls) < QueueSize
        BY <2>3, <3>3, LoopAssumption DEF full
      <4>2. Len(m_LogicCalls) + 1 <= QueueSize
        BY <4>1, LoopAssumption
      <4>3. m_LogicCalls' \in Seq(Calls) /\ Len(m_LogicCalls') = Len(m_LogicCalls) + 1
        BY <2>4, <3>3, Zenon
      <4> QED BY <4>2, <4>3
    <3> QED BY <3>1, <3>2, <3>3
  <2> QED BY <1>10, <2>1, <2>2, <2>5 DEF call_soon
<1>11. CASE UNCHANGED vars
  BY <1>11 DEF vars
<1> QED
  BY <1>1, <1>2, <1>3, <1>4, <1>5, <1>6, <1>7, <1>8, <1>9, <1>10, <1>11
  DEF Next, LoopStep, WorkerStep

\* The state of the event loop, its stack of nested flushes and running
\* functions included, stays well typed, and the queue within its size.
THEOREM TypeCorrect == Spec => []TypeOK
<1>1. Init => TypeOK
  BY TypeInit
<1>2. TypeOK /\ [Next]_vars => TypeOK'
  BY TypeStep
<1> QED BY <1>1, <1>2, PTL DEF Spec

-----------------------------------------------------------------------------
LEMMA KeptStep ==
  ASSUME TypeOK, WakeupKept, [Next]_vars
  PROVE  WakeupKept'
<1>0. stack \in Seq(Frames)
  BY DEF TypeOK
<1>1. CASE run
  BY <1>1 DEF run, WakeupKept, Bottom
<1>2. CASE tick_event_loop
  <2>1. stack' = <<Flush>> /\ Flush.frame # "run"
    BY <1>2, FrameFacts DEF tick_event_loop
  <2>2. stack' # <<>> /\ Bottom' = Flush
    BY <2>1 DEF Bottom
  <2> QED BY <2>1, <2>2 DEF WakeupKept
<1>3. ASSUME NEW c \in Calls, IoEvent(c) \/ TimerEvent(c) PROVE WakeupKept'
  BY <1>3 DEF IoEvent, TimerEvent, Polling, WakeupKept
<1>4. CASE FlushLogic
  <2>1. CASE m_LogicCalls = <<>>
    BY <1>4, <2>1 DEF FlushLogic, WakeupKept
  <2>2. CASE m_LogicCalls # <<>> /\ UNCHANGED stack
    BY <1>4, <2>2 DEF FlushLogic, call_later, WakeupKept, Bottom
  <2>3. CASE m_LogicCalls # <<>> /\ ~UNCHANGED stack
    <3> DEFINE r == Run(Head(m_LogicCalls))
    <3>1. m_LogicCalls \in Seq(Calls)
      BY DEF TypeOK
    <3>2. Head(m_LogicCalls) \in Calls
      BY <2>3, <3>1, SeqFacts
    <3>3. r \in Frames
      BY <3>2, FrameFacts
    <3>4. stack' = <<r>> \o stack /\ stack # <<>>
      BY <1>4, <2>3 DEF FlushLogic, call_later
    <3>5. stack' # <<>> /\ Bottom' = Bottom
      BY <1>0, <3>3, <3>4, BottomOfPush DEF Bottom
    <3>6. UNCHANGED <<wake, worker>>
      BY <1>4 DEF FlushLogic
    <3> QED BY <2>3, <3>5, <3>6 DEF WakeupKept
  <2> QED BY <2>1, <2>2, <2>3
<1>5. CASE Return
  <2>1. stack # <<>> /\ Head(stack).frame = "run" /\ stack' = Tail(stack)
    BY <1>5 DEF Return
  <2>2. UNCHANGED <<m_LogicCalls, wake, worker>>
    BY <1>5 DEF Return
  <2>3. CASE Tail(stack) = <<>>
    <3>1. Bottom.frame = "run"
      BY <1>0, <2>1, <2>3, BottomOfOne DEF Bottom
    <3> QED BY <2>2, <3>1 DEF WakeupKept
  <2>4. CASE Tail(stack) # <<>>
    <3>1. Bottom' = Bottom
      BY <1>0, <2>1, <2>4, BottomOfTail DEF Bottom
    <3> QED BY <2>1, <2>2, <2>4, <3>1 DEF WakeupKept
  <2> QED BY <2>3, <2>4
<1>6. CASE call_soon_inEventLoop
  <2> DEFINE f == Head(stack)
             g == [f EXCEPT !.todo = Tail(f.todo)]
             rest == <<g>> \o Tail(stack)
             p == Push(Head(f.todo))
  <2>1. stack # <<>> /\ f.frame = "run" /\ f.todo # <<>>
    BY <1>6 DEF call_soon_inEventLoop
  <2>2. f \in Frames /\ Tail(stack) \in Seq(Frames)
    BY <1>0, <2>1, SeqFacts
  <2>3. f \in [frame : {"run"}, todo : Seq(Calls)]
    BY <2>1, <2>2 DEF Frames, Flush, Push
  <2>4. g \in Frames /\ g.frame = "run" /\ p \in Frames /\ Flush \in Frames
    <3>1. Head(f.todo) \in Calls /\ Tail(f.todo) \in Seq(Calls)
      BY <2>1, <2>3, SeqFacts
    <3>2. g \in [frame : {"run"}, todo : Seq(Calls)]
      BY <2>3, <3>1
    <3> QED BY <3>1, <3>2, FrameFacts DEF Frames
  <2>5. rest \in Seq(Frames) /\ rest # <<>>
    BY <2>2, <2>4
  <2>6. rest[Len(rest)].frame = "run" => Bottom.frame = "run"
    <3>1. CASE Tail(stack) = <<>>
      BY <1>0, <2>1, <3>1, BottomOfOne DEF Bottom
    <3>2. CASE Tail(stack) # <<>>
      BY <1>0, <2>1, <2>2, <2>4, <3>2, BottomOfTail, BottomOfPush DEF Bottom
    <3> QED BY <3>1, <3>2
  <2>7. LET one == <<p>> \o rest
            two == (<<Flush>> \o <<p>>) \o rest
        IN /\ one # <<>> /\ one[Len(one)] = rest[Len(rest)]
           /\ two # <<>> /\ two[Len(two)] = rest[Len(rest)]
    BY <2>4, <2>5
  <2>8. stack' # <<>> /\ Bottom' = rest[Len(rest)]
    BY <1>6, <2>7 DEF call_soon_inEventLoop, Bottom
  <2>9. UNCHANGED <<m_LogicCalls, wake, worker>>
    BY <1>6 DEF call_soon_inEventLoop
  <2> QED BY <2>6, <2>8, <2>9 DEF WakeupKept
<1>7. CASE pushBack_inEventLoop
  BY <1>7 DEF pushBack_inEventLoop, WakeupKept
<1>8. ASSUME NEW w \in Workers, pushBack(w) \/ send(w) PROVE WakeupKept'
  <2>1. worker \in [Workers -> WorkerStates]
    BY DEF TypeOK
  <2>2. CASE pushBack(w)
    <3>1. worker'[w].at = "send"
      BY <2>1, <2>2 DEF pushBack
    <3> QED BY <3>1 DEF WakeupKept
  <2>3. CASE send(w)
    BY <2>3 DEF send, WakeupKept
  <2> QED BY <1>8, <2>2, <2>3
<1>9. ASSUME NEW w \in Workers, NEW c \in WorkerCalls, call_soon(w, c) PROVE WakeupKept'
  <2>1. worker \in [Workers -> WorkerStates]
    BY DEF TypeOK
  <2>2. CASE ~started
    <3>1. worker'[w].at = "send"
      BY <1>9, <2>1, <2>2 DEF call_soon
    <3> QED BY <3>1 DEF WakeupKept
  <2>3. CASE started
    <3>1. UNCHANGED <<m_LogicCalls, wake, stack>>
      BY <1>9, <2>3 DEF call_soon
    <3>2. \A u \in Workers : worker[u].at = "send" => worker'[u].at = "send"
      <4>1. \A u \in Workers : u # w => worker'[u] = worker[u]
        BY <1>9, <2>1, <2>3 DEF call_soon
      <4>2. worker[w].at # "send"
        BY <1>9 DEF call_soon, Free
      <4> QED BY <4>1, <4>2
    <3> QED BY <3>1, <3>2 DEF WakeupKept, Bottom
  <2>4. started \in BOOLEAN
    BY DEF TypeOK
  <2> QED BY <2>2, <2>3
<1>10. CASE UNCHANGED vars
  BY <1>10 DEF vars, WakeupKept, Bottom
<1> QED
  BY <1>1, <1>2, <1>3, <1>4, <1>5, <1>6, <1>7, <1>8, <1>9, <1>10
  DEF Next, LoopStep, WorkerStep

\* The event loop loses no wake-up: it never waits in libuv while the queue has
\* a function, no wake-up is pending and no thread is about to send one.
THEOREM NoLostWakeup == Spec => []WakeupPending
<1>1. Init => WakeupKept
  BY DEF Init, WakeupKept
<1>2. TypeOK /\ WakeupKept /\ [Next]_vars => WakeupKept'
  BY KeptStep
<1>3. WakeupKept => WakeupPending
  BY DEF WakeupKept, WakeupPending, Polling
<1> QED BY <1>1, <1>2, <1>3, TypeCorrect, PTL DEF Spec
=============================================================================
