---------------------------- MODULE RelayTraffic ----------------------------
(* Traffic through the paths of a router (path/ihophandler.cpp,
   path/transit_hop.cpp, path/path.cpp, messages/relay.cpp).  A message that
   arrives is queued on its hop; the router's pump hands the hop's queue to a
   worker thread, which encrypts it message by message; the loop sends the
   result on.  A transit hop's threads put their results into a bounded gather
   queue that a function posted to the loop empties.  An own path's threads
   post the whole batch.  The last hop of a path handles a message itself, and
   may answer on this path or on another that ends here.

   Both gather queues are ThreadQueues; here they are what that component
   promises, a FIFO queue whose pushBack waits while it is full and whose
   tryPushBack fails then.  TransitHop::Stop, which would disable them, is
   never called.                                                               *)
EXTENDS Sequences, FiniteSets, Naturals

CONSTANTS
  Hops,
  Kind,                  \* of each hop: "transit", "endpoint" or "own"
  Messages,
  HopOf, DirOf,          \* the hop and the direction each message arrives on
  AnswerOn,              \* the hop on which an endpoint answers it, or NoAnswer
  NoAnswer,
  Threads,
  transit_hop_queue_size,
  MaxArrived             \* bound: how many of the messages arrive

Dirs == {"up", "down"}

VARIABLES
  queue,      \* m_UpstreamQueue and m_DownstreamQueue of each hop
  jobs,       \* batches handed to QueueWork that no thread has taken
  thread,     \* what each worker thread is doing
  gather,     \* m_UpstreamGather and m_DownstreamGather of each hop
  calls,      \* functions posted to the loop (two flushes of one queue are one)
  m_Pump,     \* the router's pump is triggered
  live,       \* the hops in m_TransitPaths and m_OurPaths
  stopping,
  arrived, sent, dropped   \* messages so far: all; sent on or handled; dropped by UpstreamWork

vars == <<queue, jobs, thread, gather, calls, m_Pump, live, stopping, arrived, sent, dropped>>

Batch == [hop : Hops, dir : Dirs, msgs : Seq(Messages)]
Idle == [at |-> "idle"]
Elements(s) == {s[i] : i \in DOMAIN s}

TypeOK ==
  /\ queue \in [Dirs -> [Hops -> Seq(Messages)]]
  /\ jobs \subseteq Batch /\ calls \subseteq Batch
  /\ \A t \in Threads : \/ thread[t] = Idle
                        \/ thread[t].at \in {"next", "push"} /\ thread[t].job \in Batch
  /\ gather \in [Dirs -> [Hops -> Seq(Messages)]]
  /\ \A d \in Dirs, h \in Hops : Len(gather[d][h]) <= transit_hop_queue_size
  /\ {m_Pump, stopping} \subseteq BOOLEAN
  /\ live \subseteq Hops
  /\ {arrived, sent, dropped} \subseteq SUBSET Messages

Init ==
  /\ queue = [d \in Dirs |-> [h \in Hops |-> <<>>]]
  /\ gather = [d \in Dirs |-> [h \in Hops |-> <<>>]]
  /\ jobs = {} /\ calls = {} /\ thread = [t \in Threads |-> Idle]
  /\ m_Pump = FALSE /\ stopping = FALSE /\ live = Hops
  /\ arrived = {} /\ sent = {} /\ dropped = {}

-----------------------------------------------------------------------------
(* On the event loop.                                                          *)

\* RelayUpstreamMessage and RelayDownstreamMessage::HandleMessage find the hop
\* in the tables; HandleUpstream and HandleDownstream queue the message.
HandleMessage(m) ==
  /\ m \notin arrived /\ Cardinality(arrived) < MaxArrived /\ HopOf[m] \in live
  /\ arrived' = arrived \union {m}
  /\ queue' = [queue EXCEPT ![DirOf[m]][HopOf[m]] = Append(@, m)]
  /\ m_Pump' = TRUE
  /\ UNCHANGED <<jobs, thread, gather, calls, live, stopping, sent, dropped>>

\* The batches that FlushUpstream and FlushDownstream hand over, and the queues after.
Flushed(q, dirs, hops) ==
  {b \in [hop : hops, dir : dirs, msgs : {q[d][h] : d \in dirs, h \in hops}] :
     b.msgs = q[b.dir][b.hop] /\ b.msgs # <<>>}
\* Mutant: the queue is copied, not swapped away.
KeepQueue(q, dirs, hops) == q
AfterFlush(q, dirs, hops) ==
  [d \in Dirs |-> [h \in Hops |-> IF d \in dirs /\ h \in hops THEN <<>> ELSE q[d][h]]]

\* PumpLL, the part of it that concerns paths.
PumpLL ==
  /\ m_Pump
  /\ m_Pump' = FALSE
  /\ IF stopping
     THEN UNCHANGED <<jobs, queue>>
     ELSE /\ jobs' = jobs \union Flushed(queue, Dirs, live)
          /\ queue' = AfterFlush(queue, Dirs, live)
  /\ UNCHANGED <<thread, gather, calls, live, stopping, arrived, sent, dropped>>

\* Router::Stop: the pump stays off from now on, after one upstream pump.
Stop ==
  /\ ~stopping
  /\ stopping' = TRUE
  /\ jobs' = jobs \union Flushed(queue, {"up"}, live)
  /\ queue' = AfterFlush(queue, {"up"}, live)
  /\ UNCHANGED <<thread, gather, calls, m_Pump, live, arrived, sent, dropped>>

\* An endpoint's answer goes down its own path, or down the path named by a
\* path transfer; when that path is gone the discard notice goes down its own.
AnswersOn(h, m) == IF AnswerOn[m] \in live THEN AnswerOn[m] ELSE h
Answers(h, msgs, g) ==
  SelectSeq(msgs, LAMBDA m : AnswerOn[m] # NoAnswer /\ AnswersOn(h, m) = g)

\* HandleAllUpstream of an endpoint hop: the answers are queued and the hops
\* they were queued on flushed at once.
HandleAtEndpoint(h, msgs) ==
  LET q == [queue EXCEPT !["down"] = [g \in Hops |-> @[g] \o Answers(h, msgs, g)]]
      m_FlushOthers == {AnswersOn(h, m) : m \in {n \in Elements(msgs) : AnswerOn[n] # NoAnswer}}
      flush == {h} \union m_FlushOthers
  IN /\ jobs' = jobs \union Flushed(q, {"down"}, flush)
     /\ queue' = AfterFlush(q, {"down"}, flush)
     /\ sent' = sent \union {m \in Elements(msgs) : AnswerOn[m] = NoAnswer}

\* A function posted by a worker runs: it takes everything in the gather queue
\* (a transit hop), or has the batch with it (an own path), and passes it to
\* HandleAllUpstream or HandleAllDownstream.  A push that happens while it
\* empties the queue is as one before it or one after it.
Flush(c) ==
  LET msgs == c.msgs \o gather[c.dir][c.hop] IN
  /\ c \in calls
  /\ calls' = calls \ {c}
  /\ gather' = [gather EXCEPT ![c.dir][c.hop] = <<>>]
  /\ m_Pump' = TRUE
  /\ IF c.dir = "up" /\ Kind[c.hop] = "endpoint"
     THEN HandleAtEndpoint(c.hop, msgs)
     ELSE sent' = sent \union Elements(msgs) /\ UNCHANGED <<jobs, queue>>
  /\ UNCHANGED <<thread, live, stopping, arrived, dropped>>

\* ExpirePaths: threads that hold the hop go on.
Expire(h) ==
  /\ h \in live
  /\ live' = live \ {h}
  /\ UNCHANGED <<queue, jobs, thread, gather, calls, m_Pump, stopping, arrived, sent, dropped>>

-----------------------------------------------------------------------------
(* On the worker threads.                                                      *)

TakeJob(t) ==
  /\ thread[t] = Idle
  /\ \E b \in jobs :
       /\ jobs' = jobs \ {b}
       /\ thread' = [thread EXCEPT ![t] = [at |-> "next", job |-> b]]
  /\ UNCHANGED <<queue, gather, calls, m_Pump, live, stopping, arrived, sent, dropped>>

Full(d, h) == Len(gather[d][h]) = transit_hop_queue_size
FlushOf(job) == [job EXCEPT !.msgs = <<>>]

\* The call of Path's UpstreamWork and DownstreamWork, with everything in it.
OwnWork(t) ==
  /\ thread[t].at = "next" /\ Kind[thread[t].job.hop] = "own"
  /\ calls' = calls \union {thread[t].job}
  /\ thread' = [thread EXCEPT ![t] = Idle]
  /\ UNCHANGED <<gather, dropped>>

\* TransitHop::UpstreamWork: the first message that does not fit ends the loop.
UpstreamWork(t) ==
  LET job == thread[t].job IN
  /\ thread[t].at = "next" /\ job.dir = "up" /\ Kind[job.hop] # "own"
  /\ IF job.msgs # <<>> /\ ~Full("up", job.hop)
     THEN /\ gather' = [gather EXCEPT !["up"][job.hop] = Append(@, Head(job.msgs))]
          /\ thread' = [thread EXCEPT ![t].job.msgs = Tail(@)]
          /\ UNCHANGED <<calls, dropped>>
     ELSE /\ calls' = calls \union {FlushOf(job)}
          /\ dropped' = dropped \union Elements(job.msgs)
          /\ thread' = [thread EXCEPT ![t] = Idle]
          /\ UNCHANGED gather

\* Mutant: no flush is posted after the last message.
NoFinalFlush(t) ==
  LET job == thread[t].job IN
  /\ thread[t].at = "next" /\ job.dir = "down" /\ Kind[job.hop] # "own"
  /\ IF job.msgs = <<>>
     THEN thread' = [thread EXCEPT ![t] = Idle] /\ UNCHANGED calls
     ELSE /\ thread' = [thread EXCEPT ![t].at = "push"]
          /\ calls' = calls \union (IF Full("down", job.hop) THEN {FlushOf(job)} ELSE {})
  /\ UNCHANGED <<gather, dropped>>
\* TransitHop::DownstreamWork: a flush is posted when the queue is full, then
\* pushBack waits for a free place.  The test and the push are two steps.
DownstreamWork(t) ==
  LET job == thread[t].job IN
  /\ thread[t].at = "next" /\ job.dir = "down" /\ Kind[job.hop] # "own"
  /\ IF job.msgs = <<>>
     THEN thread' = [thread EXCEPT ![t] = Idle] /\ calls' = calls \union {FlushOf(job)}
     ELSE /\ thread' = [thread EXCEPT ![t].at = "push"]
          /\ calls' = calls \union (IF Full("down", job.hop) THEN {FlushOf(job)} ELSE {})
  /\ UNCHANGED <<gather, dropped>>

PushBack(t) ==
  LET job == thread[t].job IN
  /\ thread[t].at = "push" /\ ~Full("down", job.hop)
  /\ gather' = [gather EXCEPT !["down"][job.hop] = Append(@, Head(job.msgs))]
  /\ thread' = [thread EXCEPT ![t] = [at |-> "next", job |-> [job EXCEPT !.msgs = Tail(@)]]]
  /\ UNCHANGED <<calls, dropped>>

Work(t) ==
  /\ OwnWork(t) \/ UpstreamWork(t) \/ DownstreamWork(t) \/ PushBack(t)
  /\ UNCHANGED <<queue, jobs, m_Pump, live, stopping, arrived, sent>>

-----------------------------------------------------------------------------
LoopStep == PumpLL \/ \E c \in calls : Flush(c)
ThreadStep(t) == TakeJob(t) \/ Work(t)

Next ==
  \/ \E m \in Messages : HandleMessage(m)
  \/ \E h \in Hops : Expire(h)
  \/ Stop \/ LoopStep
  \/ \E t \in Threads : ThreadStep(t)

Spec ==
  /\ Init /\ [][Next]_vars
  /\ WF_vars(LoopStep) /\ \A t \in Threads : WF_vars(ThreadStep(t))

-----------------------------------------------------------------------------
\* Where a message is: on a queue, in a job, with a thread, in a gather queue or
\* in a posted function.
Places(m) ==
  {<<"queue", d, h>> : <<d, h>> \in {p \in Dirs \X Hops : m \in Elements(queue[p[1]][p[2]])}}
  \union {<<"job", b>> : b \in {b \in jobs : m \in Elements(b.msgs)}}
  \union {<<"thread", t>> : t \in {t \in Threads : thread[t] # Idle
                                                      /\ m \in Elements(thread[t].job.msgs)}}
  \union {<<"gather", d, h>> : <<d, h>> \in {p \in Dirs \X Hops : m \in Elements(gather[p[1]][p[2]])}}
  \union {<<"call", c>> : c \in {c \in calls : m \in Elements(c.msgs)}}
  \union (IF m \in sent THEN {<<"sent">>} ELSE {})
  \union (IF m \in dropped THEN {<<"dropped">>} ELSE {})

\* The hand-overs between loop and threads neither lose nor copy a message: one
\* that arrived is in exactly one place, however many threads work on its hop.
RelayedOnce == \A m \in arrived : Cardinality(Places(m)) = 1

\* Messages left on the queue of a hop that the tables no longer have: nothing
\* will flush it.
Stranded == {m \in arrived : \E d \in Dirs, h \in Hops \ live : m \in Elements(queue[d][h])}

\* Until the router stops, every message that arrived is sent on (or handled),
\* unless UpstreamWork dropped it at a full queue or its hop expired before the
\* pump.  In particular no thread waits in pushBack for ever: the one that fills
\* the last place always posts a flush, be it after its last message.
RelayedOn ==
  (arrived # sent /\ ~stopping)
    ~> (stopping \/ arrived \subseteq sent \union dropped \union Stranded)
==============================================================================
