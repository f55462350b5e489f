----------------------------- MODULE ThreadQueue -----------------------------
(* llarp::thread::Queue over QueueManager: a ring of Capacity cells, each with a
   generation and a state, a push index and a pop index that combine generation
   and cell, and two semaphores for the threads that wait.  Every step is one
   atomic operation on memory the threads share (the code's sequentially
   consistent loads and compare-exchanges); what a thread does between two of
   them is folded into the first.  A cell's payload is written and read by the
   step that commits the cell: the thread owns it until then (CellOwned).     *)
EXTENDS Integers, Sequences, FiniteSets, TLC

CONSTANTS
  Pushers, Poppers,   \* the threads
  PushOps, PopOps,    \* the operations they call
  Capacity,           \* m_capacity
  NumGenerations,     \* numGenerations(capacity): 2^30 or so in the program
  Start,              \* both indexes at the start: so many elements came and went before
  MaxPushes,          \* bound: pushes per pusher
  MaxDisables         \* bound: calls of disable

ASSUME QueueAssumption ==
  /\ Capacity \in Nat \ {0} /\ NumGenerations \in Nat /\ NumGenerations > 2
  /\ Start \in 0 .. (NumGenerations * Capacity - 1)
  /\ Pushers \cap Poppers = {}
  /\ PushOps \subseteq {"pushBack", "tryPushBack"}
  /\ PopOps \subseteq {"popFront", "tryPopFront", "popFrontWithTimeout"}

VARIABLES
  m_states,           \* cell -> [gen, state]
  m_data,             \* cell -> the element in it
  m_pushIndex, m_popIndex,
  m_waitingPoppers, m_popSemaphore,
  m_waitingPushers, m_pushSemaphore,
  pc,                 \* thread -> where it is
  op,                 \* thread -> the operation it is in
  loaded, saved,      \* thread -> loadedPushIndex / loadedPopIndex and savedPushIndex / savedPopIndex
  secondTry,          \* popper -> popFrontWithTimeout has waited
  taken,              \* popper -> the element moved out for its caller
  pushed,             \* pusher -> the number of elements it has pushed
  disables            \* calls of disable so far, and whether the last one has still to notify

vars == <<m_states, m_data, m_pushIndex, m_popIndex, m_waitingPoppers, m_popSemaphore,
          m_waitingPushers, m_pushSemaphore, pc, op, loaded, saved, secondTry, taken,
          pushed, disables>>
shared == <<m_states, m_data, m_pushIndex, m_popIndex, m_waitingPoppers, m_popSemaphore,
            m_waitingPushers, m_pushSemaphore>>
local == <<op, loaded, saved, secondTry, taken, pushed>>

Threads == Pushers \cup Poppers
Cells == 0 .. (Capacity - 1)
NumCombined == NumGenerations * Capacity
m_maxGeneration == NumGenerations - 1
m_maxCombinedIndex == NumCombined - 1
DISABLED_STATE_MASK == NumCombined

isDisabledFlagSet(i) == i >= DISABLED_STATE_MASK
discardDisabledFlag(i) == i % DISABLED_STATE_MASK
nextCombinedIndex(i) == IF i = m_maxCombinedIndex THEN 0 ELSE i + 1
nextGeneration(g) == IF g = m_maxGeneration THEN 0 ELSE g + 1
GenOf(i) == i \div Capacity
CellOf(i) == i % Capacity
Element(g, s) == [gen |-> g, state |-> s]

\* currGen is one generation ahead of the cell's.
OneAhead(currGen, elemGen) ==
  currGen - elemGen = 1 \/ currGen - elemGen = -m_maxGeneration

size(push, pop) ==
  LET difference == discardDisabledFlag(push) - pop
  IN IF difference >= 0
       THEN IF difference > Capacity THEN 0 ELSE difference
       ELSE IF difference < -(m_maxCombinedIndex \div 2)
              THEN IF difference + NumCombined > Capacity THEN Capacity
                                                          ELSE difference + NumCombined
              ELSE 0
enabled == ~isDisabledFlagSet(m_pushIndex)

Go(t, label) == pc' = [pc EXCEPT ![t] = label]
At(t, label) == pc[t] = label

Init ==
  /\ m_states = [c \in Cells |->
                   Element(IF c < CellOf(Start) THEN nextGeneration(GenOf(Start)) ELSE GenOf(Start), "Empty")]
  /\ m_data = [c \in Cells |-> <<>>]
  /\ m_pushIndex = Start /\ m_popIndex = Start
  /\ m_waitingPoppers = 0 /\ m_popSemaphore = 0
  /\ m_waitingPushers = 0 /\ m_pushSemaphore = 0
  /\ pc = [t \in Threads |-> "idle"]
  /\ op = [t \in Threads |-> "none"]
  /\ loaded = [t \in Threads |-> 0] /\ saved = [t \in Threads |-> -1]
  /\ secondTry = [t \in Poppers |-> FALSE]
  /\ taken = [t \in Poppers |-> <<>>]
  /\ pushed = [t \in Pushers |-> 0]
  /\ disables = [calls |-> 0, notify |-> FALSE]

\* Locals that are dead have one value.
Forget(t) == loaded' = [loaded EXCEPT ![t] = 0] /\ saved' = [saved EXCEPT ![t] = -1]

\* A thread leaves the queue.
Return(t) ==
  /\ Go(t, "idle")
  /\ op' = [op EXCEPT ![t] = "none"]
  /\ Forget(t)

-----------------------------------------------------------------------------
(* pushBack, tryPushBack *)

StartPush(t) ==
  /\ At(t, "idle") /\ pushed[t] < MaxPushes
  /\ \E o \in PushOps : op' = [op EXCEPT ![t] = o]
  /\ loaded' = [loaded EXCEPT ![t] = m_pushIndex]
  /\ Go(t, "push_cell")
  /\ UNCHANGED <<shared, saved, secondTry, taken, pushed, disables>>

PushLoad(t) ==
  /\ At(t, "push_load")
  /\ loaded' = [loaded EXCEPT ![t] = m_pushIndex]
  /\ Go(t, "push_cell")
  /\ UNCHANGED <<shared, op, saved, secondTry, taken, pushed, disables>>

\* reservePushIndex found the queue full.
QueueFull(t) ==
  IF op[t] = "tryPushBack"
    THEN Return(t)
    ELSE Go(t, "push_full") /\ Forget(t) /\ UNCHANGED op

\* The cell of a previous generation: being read, or the queue is full.
CellBehind(t, cell) ==
  CASE cell.state = "Reading" -> Go(t, "push_load") /\ loaded' = [loaded EXCEPT ![t] = 0] /\ UNCHANGED <<op, saved>>
    [] cell.state # "Reading" /\ saved[t] # loaded[t] ->
         /\ saved' = [saved EXCEPT ![t] = loaded[t]]
         /\ loaded' = [loaded EXCEPT ![t] = 0]
         /\ Go(t, "push_load") /\ UNCHANGED op
    [] OTHER -> QueueFull(t)

\* The compare-exchange succeeds on an empty cell of the expected generation.
CanReserve_AnyGeneration(cell, gen) == cell.state = "Empty"
CanReserve(cell, gen) == cell = Element(gen, "Empty")

\* The compare-exchange Empty -> Writing on the cell of the loaded push index.
reservePushIndex(t) ==
  LET gen == GenOf(loaded[t])
      c == CellOf(loaded[t])
      cell == m_states[c]
  IN /\ At(t, "push_cell")
     /\ IF isDisabledFlagSet(loaded[t])
          THEN Return(t) /\ UNCHANGED <<m_states, pushed>>
          ELSE IF CanReserve(cell, gen)
          THEN /\ m_states' = [m_states EXCEPT ![c] = Element(gen, "Writing")]
               /\ pushed' = [pushed EXCEPT ![t] = @ + 1]
               /\ saved' = [saved EXCEPT ![t] = -1]
               /\ Go(t, "push_advance") /\ UNCHANGED <<op, loaded>>
          ELSE /\ IF OneAhead(gen, cell.gen)
                    THEN CellBehind(t, cell)
                    ELSE Go(t, "push_help") /\ UNCHANGED <<op, loaded, saved>>
               /\ UNCHANGED <<m_states, pushed>>
     /\ UNCHANGED <<m_data, m_pushIndex, m_popIndex, m_waitingPoppers, m_popSemaphore,
                    m_waitingPushers, m_pushSemaphore, secondTry, taken, disables>>

\* Another thread has the cell: move the push index on for it and go again.
PushHelp(t) ==
  /\ At(t, "push_help")
  /\ IF m_pushIndex = loaded[t]
       THEN m_pushIndex' = nextCombinedIndex(m_pushIndex) /\ UNCHANGED loaded
       ELSE loaded' = [loaded EXCEPT ![t] = m_pushIndex] /\ UNCHANGED m_pushIndex
  /\ Go(t, "push_cell")
  /\ UNCHANGED <<m_states, m_data, m_popIndex, m_waitingPoppers, m_popSemaphore,
                 m_waitingPushers, m_pushSemaphore, op, saved, secondTry, taken, pushed, disables>>

\* The thread has the cell and moves the push index on, unless that is done.
PushAdvance(t) ==
  /\ At(t, "push_advance")
  /\ m_pushIndex' = IF m_pushIndex = loaded[t] THEN nextCombinedIndex(m_pushIndex) ELSE m_pushIndex
  /\ Go(t, "push_commit")
  /\ UNCHANGED <<m_states, m_data, m_popIndex, m_waitingPoppers, m_popSemaphore,
                 m_waitingPushers, m_pushSemaphore, local, disables>>

commitPushIndex(t) ==
  /\ At(t, "push_commit")
  /\ m_data' = [m_data EXCEPT ![CellOf(loaded[t])] = <<t, pushed[t]>>]
  /\ m_states' = [m_states EXCEPT ![CellOf(loaded[t])] = Element(GenOf(loaded[t]), "Full")]
  /\ Go(t, "push_notify") /\ Forget(t)
  /\ UNCHANGED <<m_pushIndex, m_popIndex, m_waitingPoppers, m_popSemaphore, m_waitingPushers,
                 m_pushSemaphore, op, secondTry, taken, pushed, disables>>

NotifyPopper_Never(t) ==
  /\ At(t, "push_notify")
  /\ Return(t)
  /\ UNCHANGED <<shared, secondTry, taken, pushed, disables>>

\* The read of m_waitingPoppers and the notification it decides: a notification
\* only adds to the semaphore, so its delay shows in no other thread.
NotifyPopper(t) ==
  /\ At(t, "push_notify")
  /\ m_popSemaphore' = IF m_waitingPoppers > 0 THEN m_popSemaphore + 1 ELSE m_popSemaphore
  /\ Return(t)
  /\ UNCHANGED <<m_states, m_data, m_pushIndex, m_popIndex, m_waitingPoppers,
                 m_waitingPushers, m_pushSemaphore, secondTry, taken, pushed, disables>>

PushWaiting(t) ==
  /\ At(t, "push_full")
  /\ m_waitingPushers' = m_waitingPushers + 1
  /\ Go(t, "push_isfull")
  /\ UNCHANGED <<m_states, m_data, m_pushIndex, m_popIndex, m_waitingPoppers, m_popSemaphore,
                 m_pushSemaphore, local, disables>>

\* full() loads the push index, then the pop index; enabled() loads the push
\* index again.
PushIsFull(t) ==
  /\ \/ /\ At(t, "push_isfull")
        /\ loaded' = [loaded EXCEPT ![t] = m_pushIndex]
        /\ Go(t, "push_isfull_pop")
     \/ /\ At(t, "push_isfull_pop")
        /\ Go(t, IF Capacity <= size(loaded[t], m_popIndex) THEN "push_isenabled" ELSE "push_unwait")
        /\ loaded' = [loaded EXCEPT ![t] = 0]
     \/ /\ At(t, "push_isenabled")
        /\ Go(t, IF enabled THEN "push_wait" ELSE "push_unwait")
        /\ UNCHANGED loaded
  /\ UNCHANGED <<shared, op, saved, secondTry, taken, pushed, disables>>

PushWait(t) ==
  /\ At(t, "push_wait") /\ m_pushSemaphore > 0
  /\ m_pushSemaphore' = m_pushSemaphore - 1
  /\ Go(t, "push_unwait")
  /\ UNCHANGED <<m_states, m_data, m_pushIndex, m_popIndex, m_waitingPoppers, m_popSemaphore,
                 m_waitingPushers, local, disables>>

PushUnwait(t) ==
  /\ At(t, "push_unwait")
  /\ m_waitingPushers' = m_waitingPushers - 1
  /\ Go(t, "push_load")
  /\ UNCHANGED <<m_states, m_data, m_pushIndex, m_popIndex, m_waitingPoppers, m_popSemaphore,
                 m_pushSemaphore, local, disables>>

-----------------------------------------------------------------------------
(* popFront, tryPopFront, popFrontWithTimeout *)

StartPop(t) ==
  /\ At(t, "idle")
  /\ \E o \in PopOps : op' = [op EXCEPT ![t] = o]
  /\ loaded' = [loaded EXCEPT ![t] = m_popIndex]
  /\ Go(t, "pop_cell")
  /\ UNCHANGED <<shared, saved, secondTry, taken, pushed, disables>>

PopLoad(t) ==
  /\ At(t, "pop_load")
  /\ loaded' = [loaded EXCEPT ![t] = m_popIndex]
  /\ Go(t, "pop_cell")
  /\ UNCHANGED <<shared, op, saved, secondTry, taken, pushed, disables>>

\* reservePopIndex found the queue empty.
QueueEmpty(t) ==
  IF op[t] = "tryPopFront" \/ secondTry[t]
    THEN Return(t) /\ secondTry' = [secondTry EXCEPT ![t] = FALSE]
    ELSE Go(t, "pop_empty") /\ Forget(t) /\ UNCHANGED <<op, secondTry>>

\* The compare-exchange Full -> Reading on the cell of the loaded pop index.
reservePopIndex(t) ==
  LET gen == GenOf(loaded[t])
      c == CellOf(loaded[t])
      cell == m_states[c]
  IN /\ At(t, "pop_cell")
     /\ CASE cell = Element(gen, "Full") ->
               /\ m_states' = [m_states EXCEPT ![c] = Element(gen, "Reading")]
               /\ saved' = [saved EXCEPT ![t] = -1]
               /\ Go(t, "pop_advance") /\ UNCHANGED <<op, loaded, secondTry>>
          [] OneAhead(gen, cell.gen) \/ (cell = Element(gen, "Empty") /\ saved[t] = loaded[t]) ->
               QueueEmpty(t) /\ UNCHANGED m_states
          [] cell = Element(gen, "Empty") /\ saved[t] # loaded[t] ->
               /\ saved' = [saved EXCEPT ![t] = loaded[t]]
               /\ loaded' = [loaded EXCEPT ![t] = 0]
               /\ Go(t, "pop_load") /\ UNCHANGED <<m_states, op, secondTry>>
          [] cell = Element(gen, "Reading") ->
               Go(t, "pop_help") /\ UNCHANGED <<m_states, op, loaded, saved, secondTry>>
          [] OTHER ->
               /\ Go(t, "pop_load") /\ loaded' = [loaded EXCEPT ![t] = 0]
               /\ UNCHANGED <<m_states, op, saved, secondTry>>
     /\ UNCHANGED <<m_data, m_pushIndex, m_popIndex, m_waitingPoppers, m_popSemaphore,
                    m_waitingPushers, m_pushSemaphore, taken, pushed, disables>>

PopHelp(t) ==
  /\ At(t, "pop_help")
  /\ IF m_popIndex = loaded[t]
       THEN m_popIndex' = nextCombinedIndex(m_popIndex) /\ UNCHANGED loaded
       ELSE loaded' = [loaded EXCEPT ![t] = m_popIndex] /\ UNCHANGED m_popIndex
  /\ Go(t, "pop_cell")
  /\ UNCHANGED <<m_states, m_data, m_pushIndex, m_waitingPoppers, m_popSemaphore,
                 m_waitingPushers, m_pushSemaphore, op, saved, secondTry, taken, pushed, disables>>

PopAdvance_Increment(t) ==
  /\ At(t, "pop_advance")
  /\ m_popIndex' = nextCombinedIndex(m_popIndex)
  /\ Go(t, "pop_commit")
  /\ UNCHANGED <<m_states, m_data, m_pushIndex, m_waitingPoppers, m_popSemaphore,
                 m_waitingPushers, m_pushSemaphore, local, disables>>

PopAdvance_FreedEarly(t) ==
  /\ At(t, "pop_advance")
  /\ m_popIndex' = IF m_popIndex = loaded[t] THEN nextCombinedIndex(m_popIndex) ELSE m_popIndex
  /\ m_states' = [m_states EXCEPT ![CellOf(loaded[t])].state = "Empty"]
  /\ Go(t, "pop_commit")
  /\ UNCHANGED <<m_data, m_pushIndex, m_waitingPoppers, m_popSemaphore,
                 m_waitingPushers, m_pushSemaphore, local, disables>>

PopAdvance(t) ==
  /\ At(t, "pop_advance")
  /\ m_popIndex' = IF m_popIndex = loaded[t] THEN nextCombinedIndex(m_popIndex) ELSE m_popIndex
  /\ Go(t, "pop_commit")
  /\ UNCHANGED <<m_states, m_data, m_pushIndex, m_waitingPoppers, m_popSemaphore,
                 m_waitingPushers, m_pushSemaphore, local, disables>>

\* The element is moved out and destroyed, and QueuePopGuard frees the cell.
commitPopIndex(t) ==
  LET c == CellOf(loaded[t])
  IN /\ At(t, "pop_commit")
     /\ taken' = [taken EXCEPT ![t] = m_data[c]]
     /\ m_data' = [m_data EXCEPT ![c] = <<>>]
     /\ m_states' = [m_states EXCEPT ![c] = Element(nextGeneration(GenOf(loaded[t])), "Empty")]
     /\ Go(t, "pop_notify") /\ Forget(t)
     /\ UNCHANGED <<m_pushIndex, m_popIndex, m_waitingPoppers, m_popSemaphore, m_waitingPushers,
                    m_pushSemaphore, op, secondTry, pushed, disables>>

NotifyPusher(t) ==
  /\ At(t, "pop_notify")
  /\ m_pushSemaphore' = IF m_waitingPushers > 0 THEN m_pushSemaphore + 1 ELSE m_pushSemaphore
  /\ Return(t) /\ secondTry' = [secondTry EXCEPT ![t] = FALSE]
  /\ taken' = [taken EXCEPT ![t] = <<>>]
  /\ UNCHANGED <<m_states, m_data, m_pushIndex, m_popIndex, m_waitingPoppers, m_popSemaphore,
                 m_waitingPushers, pushed, disables>>

PopWaiting(t) ==
  /\ At(t, "pop_empty")
  /\ m_waitingPoppers' = m_waitingPoppers + 1
  /\ Go(t, "pop_isempty")
  /\ UNCHANGED <<m_states, m_data, m_pushIndex, m_popIndex, m_popSemaphore,
                 m_waitingPushers, m_pushSemaphore, local, disables>>

\* empty() loads the push index, then the pop index.
PopIsEmpty(t) ==
  /\ \/ /\ At(t, "pop_isempty")
        /\ loaded' = [loaded EXCEPT ![t] = m_pushIndex]
        /\ Go(t, "pop_isempty_pop")
     \/ /\ At(t, "pop_isempty_pop")
        /\ Go(t, IF size(loaded[t], m_popIndex) = 0 THEN "pop_wait" ELSE "pop_unwait")
        /\ loaded' = [loaded EXCEPT ![t] = 0]
  /\ UNCHANGED <<shared, op, saved, secondTry, taken, pushed, disables>>

PopWait(t) ==
  /\ At(t, "pop_wait")
  /\ \/ m_popSemaphore > 0 /\ m_popSemaphore' = m_popSemaphore - 1
     \/ m_popSemaphore = 0 /\ op[t] = "popFrontWithTimeout" /\ UNCHANGED m_popSemaphore
  /\ secondTry' = [secondTry EXCEPT ![t] = op[t] = "popFrontWithTimeout"]
  /\ Go(t, "pop_unwait")
  /\ UNCHANGED <<m_states, m_data, m_pushIndex, m_popIndex, m_waitingPoppers,
                 m_waitingPushers, m_pushSemaphore, op, loaded, saved, taken, pushed, disables>>

PopUnwait(t) ==
  /\ At(t, "pop_unwait")
  /\ m_waitingPoppers' = m_waitingPoppers - 1
  /\ Go(t, "pop_load")
  /\ UNCHANGED <<m_states, m_data, m_pushIndex, m_popIndex, m_popSemaphore,
                 m_waitingPushers, m_pushSemaphore, local, disables>>

-----------------------------------------------------------------------------
(* disable and enable, called by the thread that owns the queue *)

disable_NoNotify ==
  /\ disables.calls < MaxDisables
  /\ m_pushIndex' = DISABLED_STATE_MASK + discardDisabledFlag(m_pushIndex)
  /\ disables' = [calls |-> disables.calls + 1, notify |-> FALSE]
  /\ UNCHANGED <<m_states, m_data, m_popIndex, m_waitingPoppers, m_popSemaphore,
                 m_waitingPushers, m_pushSemaphore, pc, local>>

\* The retried compare-exchange that sets the flag, then one notification for
\* every waiting pusher.
disable ==
  \/ /\ disables.calls < MaxDisables /\ ~disables.notify
     /\ m_pushIndex' = DISABLED_STATE_MASK + discardDisabledFlag(m_pushIndex)
     /\ disables' = [calls |-> disables.calls + 1, notify |-> TRUE]
     /\ UNCHANGED <<m_states, m_data, m_popIndex, m_waitingPoppers, m_popSemaphore,
                    m_waitingPushers, m_pushSemaphore, pc, local>>
  \/ /\ disables.notify
     /\ m_pushSemaphore' = m_pushSemaphore + m_waitingPushers
     /\ disables' = [disables EXCEPT !.notify = FALSE]
     /\ UNCHANGED <<m_states, m_data, m_pushIndex, m_popIndex, m_waitingPoppers, m_popSemaphore,
                    m_waitingPushers, pc, local>>

enable ==
  /\ ~disables.notify /\ ~enabled
  /\ m_pushIndex' = discardDisabledFlag(m_pushIndex)
  /\ UNCHANGED <<m_states, m_data, m_popIndex, m_waitingPoppers, m_popSemaphore,
                 m_waitingPushers, m_pushSemaphore, pc, local, disables>>

-----------------------------------------------------------------------------
PushStep(t) ==
  \/ PushLoad(t) \/ reservePushIndex(t) \/ PushHelp(t) \/ PushAdvance(t)
  \/ commitPushIndex(t) \/ NotifyPopper(t)
  \/ PushWaiting(t) \/ PushIsFull(t) \/ PushWait(t) \/ PushUnwait(t)
PopStep(t) ==
  \/ PopLoad(t) \/ reservePopIndex(t) \/ PopHelp(t) \/ PopAdvance(t)
  \/ commitPopIndex(t) \/ NotifyPusher(t)
  \/ PopWaiting(t) \/ PopIsEmpty(t) \/ PopWait(t) \/ PopUnwait(t)

Next ==
  \/ \E t \in Pushers : StartPush(t) \/ PushStep(t)
  \/ \E t \in Poppers : StartPop(t) \/ PopStep(t)
  \/ disable \/ enable

Spec == Init /\ [][Next]_vars

\* A thread inside a call is scheduled again, as the threads of the program are.
FairSpec ==
  /\ Spec
  /\ \A t \in Pushers : WF_vars(PushStep(t))
  /\ \A t \in Poppers : WF_vars(PopStep(t))
  /\ WF_vars(disables.notify /\ disable)

-----------------------------------------------------------------------------
Writing(t) == pc[t] \in {"push_advance", "push_commit"}
Reading(t) == pc[t] \in {"pop_advance", "pop_commit"}

TypeOK ==
  /\ m_states \in [Cells -> [gen : 0 .. m_maxGeneration,
                             state : {"Empty", "Writing", "Full", "Reading"}]]
  /\ m_pushIndex \in 0 .. (2 * NumCombined - 1) /\ m_popIndex \in 0 .. m_maxCombinedIndex
  /\ m_waitingPoppers \in 0 .. Cardinality(Poppers) /\ m_popSemaphore \in Nat
  /\ m_waitingPushers \in 0 .. Cardinality(Pushers) /\ m_pushSemaphore \in Nat
  /\ loaded \in [Threads -> 0 .. (2 * NumCombined - 1)]
  /\ saved \in [Threads -> -1 .. (NumCombined - 1)]
  /\ \A c \in Cells : m_states[c].state \in {"Full", "Reading"} <=> m_data[c] # <<>>

\* A cell that is being written has exactly one writing thread, one that is
\* being read exactly one reading thread, and no thread uses any other cell: the
\* payload the code touches without an atomic operation is never shared.
CellOwned ==
  \A c \in Cells :
    LET users == {t \in Threads : (Writing(t) \/ Reading(t)) /\ CellOf(loaded[t]) = c}
    IN CASE m_states[c].state = "Writing" -> \E t \in Pushers : users = {t}
         [] m_states[c].state = "Reading" -> \E t \in Poppers : users = {t}
         [] OTHER -> users = {}

\* The assertions of reservePushIndex and reservePopIndex: whatever happened
\* since the thread loaded the index, a cell one generation behind the push
\* index is not empty, and one a generation behind the pop index is being read.
AssertionsHold ==
  \A t \in Threads :
    LET cell == m_states[CellOf(loaded[t])]
        behind == OneAhead(GenOf(loaded[t]), cell.gen)
    IN /\ At(t, "push_cell") /\ ~isDisabledFlagSet(loaded[t]) /\ behind => cell.state # "Empty"
       /\ At(t, "pop_cell") /\ behind => cell.state = "Reading"

\* No cell is used by two threads, and what a thread finds in one is what the
\* code asserts, also when the index and the generation wrap around (as long as
\* no thread sleeps through all generations but one).
CellsAgree == CellOwned /\ AssertionsHold

\* The elements in order, from the pop index on: cells reserved by a push and
\* not yet by a pop.
Contents ==
  LET At_(k) == (m_popIndex + k) % NumCombined
      Held(k) == LET s == m_states[CellOf(At_(k))]
                 IN s.gen = GenOf(At_(k)) /\ s.state \in {"Writing", "Full"}
      ValueAt(k) == IF m_states[CellOf(At_(k))].state = "Full"
                      THEN m_data[CellOf(At_(k))]
                      ELSE LET t == CHOOSE u \in Pushers : Writing(u) /\ CellOf(loaded[u]) = CellOf(At_(k))
                           IN <<t, pushed[t]>>
      held == SelectSeq([k \in 1 .. Capacity |-> k - 1], Held)
  IN [i \in DOMAIN held |-> ValueAt(held[i])]

Fifo == INSTANCE FifoQueue
  WITH queue <- Contents,
       taken <- [t \in Poppers |-> IF Reading(t) THEN m_data[CellOf(loaded[t])] ELSE taken[t]]

\* The queue is linearizable: the compare-exchange that reserves a cell is the
\* push or the pop of a bounded first-in first-out queue, and no other step of
\* any thread changes what the queue holds.
IsFifo == Fifo!Spec

\* An element is in the queue, or a push has begun and not returned.
Busy == Contents # <<>> \/ \E t \in Pushers : ~At(t, "idle")

\* All elements in the queue are eventually handed to a popping thread, and all
\* blocked pushes return: no wake-up is lost between the check of the indexes
\* and the wait on the semaphore.
EventuallyTaken == Busy ~> ~Busy

\* "All push operations will fail fast (including blocked operations)" once the
\* queue is disabled: a push that is in progress returns.
DisabledPushReturns ==
  \A t \in Pushers : ~At(t, "idle") /\ ~enabled ~> At(t, "idle") \/ enabled

\* No definition tells two pushers or two poppers apart.
ThreadSymmetry == Permutations(Pushers) \cup Permutations(Poppers)
=============================================================================
