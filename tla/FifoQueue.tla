------------------------------ MODULE FifoQueue ------------------------------
(* What llarp::thread::Queue promises its users: a bounded first-in first-out
   queue.  A push appends in one step, a pop takes the oldest element in one
   step, no element is lost, duplicated or overtaken.                        *)
EXTENDS Naturals, Sequences

CONSTANTS Pushers, Poppers, Capacity

VARIABLES queue,    \* the elements, oldest first; element n of thread t is <<t, n>>
          pushed,   \* pushed[t]: the number of elements t has pushed
          taken     \* taken[t]: the element t has taken, <<>> once it is handed to the caller

vars == <<queue, pushed, taken>>

Init ==
  /\ queue = <<>>
  /\ pushed = [t \in Pushers |-> 0]
  /\ taken = [t \in Poppers |-> <<>>]

Push(t) ==
  /\ Len(queue) < Capacity
  /\ queue' = Append(queue, <<t, pushed[t] + 1>>)
  /\ pushed' = [pushed EXCEPT ![t] = @ + 1]
  /\ UNCHANGED taken

Pop(t) ==
  /\ queue # <<>> /\ taken[t] = <<>>
  /\ taken' = [taken EXCEPT ![t] = Head(queue)]
  /\ queue' = Tail(queue)
  /\ UNCHANGED pushed

Return(t) ==
  /\ taken[t] # <<>>
  /\ taken' = [taken EXCEPT ![t] = <<>>]
  /\ UNCHANGED <<queue, pushed>>

Next == (\E t \in Pushers : Push(t)) \/ (\E t \in Poppers : Pop(t) \/ Return(t))

Spec == Init /\ [][Next]_vars

==============================================================================
