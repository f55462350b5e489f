------------------------------ MODULE QuicStream ------------------------------
(***************************************************************************)
(* The outgoing bytes of a QUIC stream (llarp/quic/stream.cpp), and the    *)
(* local TCP connection they come from (llarp/quic/tunnel.cpp).  A stream  *)
(* has a ring buffer, or takes over the buffers its caller read.  The QUIC *)
(* library keeps pointers to bytes until they are acknowledged.  The n-th  *)
(* byte is the number n.                                                   *)
(***************************************************************************)
EXTENDS Integers, Sequences, SequencesExt

CONSTANTS
  BufferSize,  \* of the ring
  PAUSE_SIZE,  \* bytes in flight at which the TCP connection is paused
  MaxLength,   \* the largest buffer that is appended
  MaxBytes     \* bound of the model: bytes appended to the stream

VARIABLES
  buffer,       \* the ring; empty if the caller's buffers are used
  user_buffers, \* sequence of buffers
  start, unacked_size, size,
  unblocked,    \* callbacks queued by when_available
  triggered,    \* avail_trigger was sent and has not run
  is_closing,
  reading,      \* the TCP connection is read
  appended, acked   \* numbers of bytes so far

vars == <<buffer, user_buffers, start, unacked_size, size, unblocked, triggered, is_closing,
  reading, appended, acked>>

Ring == buffer # <<>>

Init ==
  /\ buffer \in {<<>>, [i \in 1..BufferSize |-> 0]}
  /\ user_buffers = <<>>
  /\ start = 0 /\ unacked_size = 0 /\ size = 0
  /\ unblocked = 0 /\ triggered = FALSE
  /\ is_closing = FALSE /\ reading = TRUE
  /\ appended = 0 /\ acked = 0

available == IF is_closing \/ ~Ring THEN 0 ELSE BufferSize - size
unsent == size - unacked_size

NextBytes(n) == [i \in 1..n |-> appended + i]

\* Into the ring, in one piece or in two.
append(n) ==
  /\ Ring /\ n <= available /\ appended + n <= MaxBytes
  /\ LET wpos == (start + size) % BufferSize
     IN buffer' = [p \in 1..BufferSize |->
          LET i == (p - 1 - wpos) % BufferSize IN IF i < n THEN NextBytes(n)[i + 1] ELSE buffer[p]]
  /\ size' = size + n /\ appended' = appended + n
  /\ UNCHANGED <<user_buffers, start, unacked_size, unblocked, triggered, is_closing, reading,
                 acked>>

\* append_buffer, and the pause: the callback is called when bytes were acknowledged.
on_outgoing_data(n) ==
  /\ ~Ring /\ reading /\ ~is_closing /\ appended + n <= MaxBytes
  /\ user_buffers' = Append(user_buffers, NextBytes(n))
  /\ size' = size + n /\ appended' = appended + n
  /\ IF size' >= PAUSE_SIZE THEN reading' = FALSE /\ unblocked' = unblocked + 1
     ELSE UNCHANGED <<reading, unblocked>>
  /\ UNCHANGED <<buffer, start, unacked_size, triggered, is_closing, acked>>

\* What is given to the library next: a sequence of pieces.
pending ==
  IF unsent = 0 THEN <<>>
  ELSE IF Ring THEN
    LET rpos == (start + unacked_size) % BufferSize
        rend == rpos + unsent
    IN IF rend <= BufferSize THEN <<SubSeq(buffer, rpos + 1, rend)>>
       ELSE <<SubSeq(buffer, rpos + 1, BufferSize), SubSeq(buffer, 1, rend % BufferSize)>>
  ELSE
    LET ends == [i \in 0..Len(user_buffers) |-> Len(FlattenSeq(SubSeq(user_buffers, 1, i)))]
        offset == start + unacked_size
        first == CHOOSE i \in 1..Len(user_buffers) : ends[i - 1] <= offset /\ offset < ends[i]
    IN <<SubSeq(user_buffers[first], offset - ends[first - 1] + 1, Len(user_buffers[first]))>>
         \o SubSeq(user_buffers, first + 1, Len(user_buffers))

wrote(n) ==
  /\ n <= unsent
  /\ unacked_size' = unacked_size + n
  /\ UNCHANGED <<buffer, user_buffers, start, size, unblocked, triggered, is_closing, reading,
                 appended, acked>>

\* The buffers left after n bytes beyond the first start bytes are done with, and
\* the new start.  Buffers are freed only as a whole.
Freed(n) ==
  LET ends == [i \in 0..Len(user_buffers) |-> Len(FlattenSeq(SubSeq(user_buffers, 1, i)))]
      whole == CHOOSE i \in 0..Len(user_buffers) :
        /\ ends[i] <= start + n
        /\ i < Len(user_buffers) => start + n < ends[i + 1]
  IN [buffers |-> SubSeq(user_buffers, whole + 1, Len(user_buffers)),
      start |-> start + n - ends[whole]]

\* The trigger only sent for an empty stream.
acknowledge_WakesWhenEmpty(n) ==
  /\ n <= unacked_size
  /\ unacked_size' = unacked_size - n
  /\ size' = size - n /\ acked' = acked + n
  /\ CASE Ring -> /\ start' = IF size' = 0 THEN 0 ELSE (start + n) % BufferSize
                  /\ UNCHANGED user_buffers
       [] ~Ring /\ size' = 0 -> user_buffers' = <<>> /\ start' = 0
       [] OTHER -> user_buffers' = Freed(n).buffers /\ start' = Freed(n).start
  /\ triggered' = (triggered \/ (unblocked > 0 /\ size' = 0))
  /\ UNCHANGED <<buffer, unblocked, is_closing, reading, appended>>

acknowledge(n) ==
  /\ n <= unacked_size
  /\ unacked_size' = unacked_size - n
  /\ size' = size - n /\ acked' = acked + n
  /\ CASE Ring -> /\ start' = IF size' = 0 THEN 0 ELSE (start + n) % BufferSize
                  /\ UNCHANGED user_buffers
       [] ~Ring /\ size' = 0 -> user_buffers' = <<>> /\ start' = 0
       [] OTHER -> user_buffers' = Freed(n).buffers /\ start' = Freed(n).start
  /\ triggered' = (triggered \/ unblocked > 0)
  /\ UNCHANGED <<buffer, unblocked, is_closing, reading, appended>>

\* Every queued callback resumes the TCP connection, or none does.
handle_unblocked ==
  /\ triggered /\ triggered' = FALSE
  /\ IF ~is_closing /\ size < PAUSE_SIZE /\ unblocked > 0
       THEN reading' = TRUE /\ unblocked' = 0
       ELSE UNCHANGED <<reading, unblocked>>
  /\ UNCHANGED <<buffer, user_buffers, start, unacked_size, size, is_closing, appended, acked>>

\* The TCP connection closed, or the stream did.
close ==
  /\ ~is_closing /\ is_closing' = TRUE
  /\ UNCHANGED <<buffer, user_buffers, start, unacked_size, size, unblocked, triggered, reading,
                 appended, acked>>

\* The stream is erased, and another opened.
NewStream ==
  /\ is_closing /\ is_closing' = FALSE
  /\ buffer' = [i \in 1..Len(buffer) |-> 0] /\ user_buffers' = <<>>
  /\ start' = 0 /\ unacked_size' = 0 /\ size' = 0
  /\ unblocked' = 0 /\ triggered' = FALSE /\ reading' = TRUE
  /\ appended' = 0 /\ acked' = 0

Next ==
  \/ \E n \in 1..MaxLength : append(n) \/ on_outgoing_data(n)
  \/ \E n \in 1..MaxBytes : wrote(n) \/ acknowledge(n)
  \/ handle_unblocked \/ close \/ NewStream

-----------------------------------------------------------------------------
(* Properties.                                                             *)

\* The bytes from start on, wherever the ring wraps.
Stored ==
  IF Ring THEN [i \in 1..size |-> buffer[((start + i - 1) % BufferSize) + 1]]
  ELSE SubSeq(FlattenSeq(user_buffers), start + 1, start + size)

\* No byte is lost, repeated or overwritten before it is acknowledged: the stream
\* holds exactly the bytes that are not acknowledged, in order, and offers those
\* not yet sent (append and its wrap, acknowledge and the freed buffers, pending).
BytesKept ==
  /\ Stored = [i \in 1..(appended - acked) |-> acked + i]
  /\ FlattenSeq(pending) = [i \in 1..unsent |-> acked + unacked_size + i]

\* A paused TCP connection is not forgotten: its callback is queued, and when
\* the congestion is over the trigger that will call it is on its way
\* (on_outgoing_data, acknowledge, handle_unblocked).
PausedIsResumed ==
  ~reading /\ ~is_closing => unblocked > 0 /\ (size < PAUSE_SIZE => triggered)

StreamsHold == BytesKept /\ PausedIsResumed
=============================================================================
