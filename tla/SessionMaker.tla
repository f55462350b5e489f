---------------------------- MODULE SessionMaker ----------------------------
(***************************************************************************)
(* OutboundSessionMaker (llarp/router/outbound_session_maker.cpp) with the *)
(* part of RCLookupHandler and of the link layers it talks to: who asked   *)
(* for a session to a router, how the attempt to make one goes on, and how *)
(* those who asked are told.                                               *)
(*                                                                         *)
(* All handlers run on the event loop, one at a time, except VerifyRC,     *)
(* which runs on a worker thread and calls FinalizeRequest from there: its *)
(* two critical sections are two steps, and the loop may do anything in    *)
(* between.  On the loop, _loop->call runs a callback at once; from a      *)
(* worker it posts the callback to the loop.                               *)
(***************************************************************************)
EXTENDS Naturals, Sequences, FiniteSets, TLAPS

CONSTANTS
  Routers,
  Requests,            \* one for each call of CreateSessionTo with a callback
  RouterOf,            \* the router request q is for
  IsMasterNode,
  maxConnectedRouters,
  MaxLookups,          \* bound of the model: callbacks waiting for one RC
  MaxJobs              \* bound of the model: VerifyRC jobs at a time

VARIABLES
  pendingCallbacks, \* pendingCallbacks[r]: requests to be told about r
  pendingSessions,  \* routers with an entry in the map of this name
  results,          \* results[q]: what the callback of q was called with
  lookups,          \* RCLookupHandler: callbacks of ours waiting for r's RC
  answers,          \* FinalizeRequest of RCLookupHandler: callbacks still to call
  attempts,         \* outbound link layer: m_Pending
  authed,           \* outbound link layer: m_AuthedLinks
  allowed,          \* RCLookupHandler::SessionIsAllowed
  jobs,             \* VerifyRC on worker threads
  posted            \* callbacks posted to the event loop

vars == <<pendingCallbacks, pendingSessions, results, lookups, answers,
          attempts, authed, allowed, jobs, posted>>
envVars == <<lookups, answers, authed, allowed, jobs, posted>>

SessionResult == {"Establish", "Timeout", "RouterNotFound", "InvalidRouter",
                  "NoLink", "EstablishFail"}
LookupResult == {"Success", "InvalidRouter", "RouterNotFound", "BadRC"}
Stages == {"check", "erase"}

Job(r, stage) == [router |-> r, stage |-> stage]

Init ==
  /\ pendingCallbacks = [r \in Routers |-> {}]
  /\ pendingSessions = {}
  /\ results = [q \in Requests |-> <<>>]
  /\ lookups = [r \in Routers |-> 0]
  /\ answers = [left |-> 0]
  /\ attempts = {} /\ authed = {}
  /\ allowed = Routers
  /\ jobs = <<>> /\ posted = {}

\* The event loop is not inside RCLookupHandler::FinalizeRequest.
Idle == answers.left = 0

Told(callbacks, type) ==
  [q \in Requests |-> IF q \in callbacks THEN Append(results[q], type) ELSE results[q]]

FinalizeRequest_NotMoved(r, callbacks, type) ==
  /\ pendingCallbacks' = [pendingCallbacks EXCEPT ![r] = callbacks]
  /\ results' = Told(callbacks, type)
  /\ pendingSessions' = pendingSessions \ {r}

\* FinalizeRequest on the event loop, where callbacks is pendingCallbacks[r]:
\* they run at once, between the two critical sections.
FinalizeRequest(r, callbacks, type) ==
  /\ pendingCallbacks' = [pendingCallbacks EXCEPT ![r] = {}]
  /\ results' = Told(callbacks, type)
  /\ pendingSessions' = pendingSessions \ {r}

Nothing == UNCHANGED <<pendingCallbacks, results, pendingSessions, attempts>>

-----------------------------------------------------------------------------
(* From a router contact to an attempt of the link layer.                  *)

\* Called for a router that is in pendingSessions, so numPending is 0.
ShouldConnectTo(r) ==
  /\ r \in allowed
  /\ r \notin authed
  /\ IsMasterNode \/ Cardinality(authed) < maxConnectedRouters

\* The link layer refuses a router it has a session with or is connecting to.
TryEstablishTo(r) ==
  /\ r \notin authed /\ r \notin attempts
  /\ attempts' = attempts \cup {r}

\* The contact may also have no usable address.
DoEstablish(r) ==
  \/ TryEstablishTo(r) /\ UNCHANGED <<pendingCallbacks, results, pendingSessions>>
  \/ FinalizeRequest(r, pendingCallbacks[r], "EstablishFail") /\ UNCHANGED attempts

GotRouterContact_NotFinalized(r) ==
  \/ ShouldConnectTo(r) /\ DoEstablish(r)
  \/ Nothing

\* There may be no link compatible with the contact.
GotRouterContact(r) ==
  \/ ShouldConnectTo(r) /\ DoEstablish(r)
  \/ FinalizeRequest(r, pendingCallbacks[r], "NoLink") /\ UNCHANGED attempts

ResultOf(result) == IF result = "InvalidRouter" THEN "InvalidRouter" ELSE "RouterNotFound"

OnRouterContactResult ==
  LET r == answers.router
  IN /\ answers.left > 0
     /\ answers' = IF answers.left = 1 THEN [left |-> 0]
                   ELSE [answers EXCEPT !.left = @ - 1]
     /\ CASE r \notin pendingSessions -> Nothing
          [] r \in pendingSessions /\ answers.result = "Success" -> GotRouterContact(r)
          [] OTHER -> /\ FinalizeRequest(r, pendingCallbacks[r], ResultOf(answers.result))
                      /\ UNCHANGED attempts
     /\ UNCHANGED <<lookups, authed, allowed, jobs, posted>>

\* RCLookupHandler::FinalizeRequest: n callbacks are to be called.
Answer(r, n, result) == [router |-> r, left |-> n, result |-> result]

\* GetRC: the contact is in the nodedb, and this callback and all that wait for
\* it are called; or it is looked up, or cannot be.
GetRC(r) ==
  \/ /\ answers' = Answer(r, lookups[r] + 1, "Success")
     /\ lookups' = [lookups EXCEPT ![r] = 0]
  \/ /\ lookups[r] < MaxLookups
     /\ lookups' = [lookups EXCEPT ![r] = @ + 1]
     /\ UNCHANGED answers
  \/ /\ lookups[r] = 0
     /\ answers' = Answer(r, 1, "RouterNotFound")
     /\ UNCHANGED lookups

\* HandleDHTLookupResult: nothing found, a router not allowed, a bad contact
\* or a good one.
HandleDHTLookupResult(r, result) ==
  /\ Idle
  /\ lookups[r] > 0
  /\ result = "InvalidRouter" => r \notin allowed
  /\ result = "Success" => r \in allowed
  /\ answers' = Answer(r, lookups[r], result)
  /\ lookups' = [lookups EXCEPT ![r] = 0]
  /\ UNCHANGED <<pendingCallbacks, pendingSessions, results, attempts, authed,
                 allowed, jobs, posted>>

-----------------------------------------------------------------------------
(* Requests.                                                               *)

Waiting(q) == q \in pendingCallbacks[RouterOf[q]] \/ \E p \in posted : p.request = q
Fresh(q) == results[q] = <<>> /\ ~Waiting(q)

\* CreateSessionTo(router, on_result); callbacks is {} for a null on_result.
CreateSessionTo(r, callbacks) ==
  LET waiting == pendingCallbacks[r] \cup callbacks
  IN /\ Idle
     /\ UNCHANGED <<attempts, authed, allowed, jobs, posted>>
     /\ \/ /\ r \in pendingSessions
           /\ pendingCallbacks' = [pendingCallbacks EXCEPT ![r] = waiting]
           /\ UNCHANGED <<pendingSessions, results, lookups, answers>>
        \/ /\ r \notin pendingSessions /\ r \in authed
           /\ FinalizeRequest(r, waiting, "Establish")
           /\ UNCHANGED <<lookups, answers>>
        \/ /\ r \notin pendingSessions /\ r \notin authed
           /\ pendingCallbacks' = [pendingCallbacks EXCEPT ![r] = waiting]
           /\ pendingSessions' = pendingSessions \cup {r}
           /\ GetRC(r)
           /\ UNCHANGED results

\* CreateSessionTo(rc, nullptr): a contact at hand, and nobody to be told.
CreateSessionToRC(r) ==
  /\ Idle
  /\ UNCHANGED envVars
  /\ \/ /\ r \in authed
        /\ FinalizeRequest(r, pendingCallbacks[r], "Establish")
        /\ UNCHANGED attempts
     \/ /\ ShouldConnectTo(r)
        /\ TryEstablishTo(r)
        /\ pendingSessions' = pendingSessions \cup {r}
        /\ UNCHANGED <<pendingCallbacks, results>>
     \/ /\ r \notin authed
        /\ \E type \in {"NoLink", "EstablishFail"} :
             FinalizeRequest(r, pendingCallbacks[r], type)
        /\ UNCHANGED attempts

-----------------------------------------------------------------------------
(* How attempts end: ConnectionEstablished, ConnectionTimedOut, VerifyRC.  *)

\* An outbound session is established, and mapped by MapAddr.
OnSessionEstablished(r) ==
  /\ Idle
  /\ r \in attempts
  /\ attempts' = attempts \ {r}
  /\ authed' = authed \cup {r}
  /\ \/ /\ r \notin allowed
        /\ FinalizeRequest(r, pendingCallbacks[r], "InvalidRouter")
        /\ UNCHANGED jobs
     \/ /\ r \in allowed /\ Len(jobs) < MaxJobs
        /\ jobs' = Append(jobs, Job(r, "check"))
        /\ UNCHANGED <<pendingCallbacks, results, pendingSessions>>
  /\ UNCHANGED <<lookups, answers, allowed, posted>>

\* An inbound session of a router that is not allowed.
OnInboundRefused(r) ==
  /\ Idle
  /\ r \notin allowed
  /\ FinalizeRequest(r, pendingCallbacks[r], "InvalidRouter")
  /\ UNCHANGED <<attempts, envVars>>

OnConnectTimeout_NotFinalized(r) ==
  /\ Idle
  /\ r \in attempts
  /\ attempts' = attempts \ {r}
  /\ UNCHANGED <<pendingCallbacks, results, pendingSessions, envVars>>

OnConnectTimeout(r) ==
  /\ Idle
  /\ r \in attempts
  /\ attempts' = attempts \ {r}
  /\ FinalizeRequest(r, pendingCallbacks[r], "Timeout")
  /\ UNCHANGED envVars

\* Worker thread: CheckRC, and the first critical section of FinalizeRequest.
\* The callbacks are posted to the event loop.
VerifyRC(i) ==
  LET r == jobs[i].router
  IN /\ jobs[i].stage = "check"
     /\ \E type \in IF r \in allowed THEN {"Establish", "InvalidRouter"} ELSE {"InvalidRouter"} :
          posted' = posted \cup {[request |-> q, type |-> type] : q \in pendingCallbacks[r]}
     /\ pendingCallbacks' = [pendingCallbacks EXCEPT ![r] = {}]
     /\ jobs' = [jobs EXCEPT ![i].stage = "erase"]
     /\ UNCHANGED <<pendingSessions, results, lookups, answers, attempts, authed, allowed>>

\* Worker thread: the second critical section.
ErasePendingSession(i) ==
  /\ jobs[i].stage = "erase"
  /\ pendingSessions' = pendingSessions \ {jobs[i].router}
  /\ jobs' = [k \in 1..Len(jobs) - 1 |-> IF k < i THEN jobs[k] ELSE jobs[k + 1]]
  /\ UNCHANGED <<pendingCallbacks, results, lookups, answers, attempts, authed,
                 allowed, posted>>

RunPosted(p) ==
  /\ Idle
  /\ p \in posted
  /\ posted' = posted \ {p}
  /\ results' = Told({p.request}, p.type)
  /\ UNCHANGED <<pendingCallbacks, pendingSessions, lookups, answers, attempts,
                 authed, allowed, jobs>>

\* The link layer drops a session: timed out, closed by either side.
SessionClosed(r) ==
  /\ Idle
  /\ r \in authed
  /\ authed' = authed \ {r}
  /\ UNCHANGED <<pendingCallbacks, pendingSessions, results, lookups, answers,
                 attempts, allowed, jobs, posted>>

SetRouterWhitelist(whitelist) ==
  /\ Idle
  /\ whitelist # allowed
  /\ allowed' = whitelist
  /\ UNCHANGED <<pendingCallbacks, pendingSessions, results, lookups, answers,
                 attempts, authed, jobs, posted>>

WorkerStep(i) == VerifyRC(i) \/ ErasePendingSession(i)

AttemptEnds(r) == OnSessionEstablished(r) \/ OnConnectTimeout(r)

LookupEnds(r) == \E result \in LookupResult : HandleDHTLookupResult(r, result)

Next ==
  \/ \E q \in Requests : Fresh(q) /\ CreateSessionTo(RouterOf[q], {q})
  \/ \E r \in Routers :
       \/ CreateSessionTo(r, {}) \/ CreateSessionToRC(r)
       \/ LookupEnds(r) \/ AttemptEnds(r)
       \/ OnInboundRefused(r) \/ SessionClosed(r)
  \/ OnRouterContactResult
  \/ \E i \in DOMAIN jobs : WorkerStep(i)
  \/ \E p \in posted : RunPosted(p)
  \/ \E whitelist \in SUBSET Routers : SetRouterWhitelist(whitelist)

\* Lookups and attempts end, by an answer or by their timeout; worker threads
\* go on; the event loop comes round to every event that waits for it, however
\* often others are handled before it.
Fairness ==
  /\ WF_vars(OnRouterContactResult)
  /\ WF_vars(\E i \in DOMAIN jobs : WorkerStep(i))
  /\ SF_vars(\E p \in posted : RunPosted(p))
  /\ \A r \in Routers : SF_vars(LookupEnds(r)) /\ SF_vars(AttemptEnds(r))

Spec == Init /\ [][Next]_vars /\ Fairness

-----------------------------------------------------------------------------
(* Properties.                                                             *)

\* Every variable has its type.
TypeOK ==
  /\ pendingCallbacks \in [Routers -> SUBSET Requests]
  /\ pendingSessions \subseteq Routers
  /\ results \in [Requests -> Seq(SessionResult)]
  /\ lookups \in [Routers -> 0..MaxLookups]
  /\ \/ answers = [left |-> 0]
     \/ answers \in [router : Routers, left : 1..MaxLookups + 1, result : LookupResult]
  /\ attempts \subseteq Routers /\ authed \subseteq Routers /\ allowed \subseteq Routers
  /\ jobs \in Seq([router : Routers, stage : Stages]) /\ Len(jobs) <= MaxJobs
  /\ posted \subseteq [request : Requests, type : SessionResult]

\* A request is waiting in one place only, with its router or posted to the
\* event loop, and its callback is called at most once: FinalizeRequest takes
\* the callbacks out of the map before anything else can see them.
ToldOnce ==
  \A q \in Requests :
    /\ Len(results[q]) <= 1
    /\ \A r \in Routers : q \in pendingCallbacks[r] => r = RouterOf[q] /\ results[q] = <<>>
    /\ \A p \in posted : p.request = q =>
         /\ q \notin pendingCallbacks[RouterOf[q]] /\ results[q] = <<>>
         /\ \A o \in posted : o.request = q => o = p

\* A lookup, an attempt of the link layer or a VerifyRC job is under way for r.
UnderWay(r) ==
  \/ lookups[r] > 0
  \/ ~Idle /\ answers.router = r
  \/ r \in attempts
  \/ \E i \in DOMAIN jobs : jobs[i].router = r

\* A session does not stay pending for nothing: something is under way for it
\* that will call FinalizeRequest.
AttemptInProgress == \A r \in pendingSessions : UnderWay(r)

\* Requests and the attempts that answer them are kept track of together.
RequestsTracked == ToldOnce /\ AttemptInProgress

\* What is pending gets resolved, however lookups, attempts, refusals, sessions
\* that close and requests that come in meanwhile are interleaved.
PendingResolved == \A r \in Routers : r \in pendingSessions ~> r \notin pendingSessions

\* "When this establish attempt concludes, either the messages are then sent to
\* that router immediately, on success, or the messages are dropped and their
\* send status callbacks are invoked" (outbound_message_handler.hpp:111): whoever
\* asked for a session is told what came of it.
EveryRequestTold == \A q \in Requests : Waiting(q) ~> results[q] # <<>>

-----------------------------------------------------------------------------
(* Theorems.  TypeOK and RequestsTracked are inductive together: FinalizeRequest   *)
(* needs to know that the callbacks it takes were never called, and that an       *)
(* attempt is under way depends on the types of lookups, answers and jobs only.    *)

\* Each request is for a router, and the bounds are numbers.
Parameters == RouterOf \in [Requests -> Routers] /\ MaxLookups \in Nat /\ MaxJobs \in Nat

Tracked == TypeOK /\ RequestsTracked

\* Told appends to the results of the callbacks that are called.
LEMMA ToldTypes ==
  ASSUME TypeOK, NEW callbacks \in SUBSET Requests, NEW type \in SessionResult
  PROVE  /\ Told(callbacks, type) \in [Requests -> Seq(SessionResult)]
         /\ \A q \in Requests \ callbacks : Told(callbacks, type)[q] = results[q]
         /\ \A q \in callbacks : results[q] = <<>> =>
              Len(Told(callbacks, type)[q]) = 1 /\ Told(callbacks, type)[q] # <<>>
<1> DEFINE told == Told(callbacks, type)
<1>1. \A q \in Requests : results[q] \in Seq(SessionResult) /\ Append(results[q], type) \in Seq(SessionResult)
  BY DEF TypeOK
<1>2. /\ told \in [Requests -> Seq(SessionResult)]
      /\ \A q \in Requests : told[q] = IF q \in callbacks THEN Append(results[q], type) ELSE results[q]
  BY <1>1 DEF Told
<1>3. ASSUME NEW q \in callbacks, results[q] = <<>>
      PROVE  Len(told[q]) = 1 /\ told[q] # <<>>
  <2>1. Append(<<>>, type) = <<type>>
    OBVIOUS
  <2>2. told[q] = <<type>>
    BY <1>2, <1>3, <2>1
  <2> QED
    BY <2>2
<1> QED
  BY <1>2, <1>3

\* FinalizeRequest calls the callbacks of a router, and one more that was never called:
\* they are out of the map and called once.
LEMMA FinalizeTellsOnce ==
  ASSUME Parameters, TypeOK, ToldOnce, NEW r \in Routers, NEW type \in SessionResult,
         NEW more \in SUBSET Requests,
         \A q \in more : RouterOf[q] = r /\ Fresh(q),
         FinalizeRequest(r, pendingCallbacks[r] \cup more, type), UNCHANGED posted
  PROVE  /\ ToldOnce'
         /\ pendingCallbacks' \in [Routers -> SUBSET Requests]
         /\ pendingSessions' \subseteq Routers
         /\ results' \in [Requests -> Seq(SessionResult)]
<1> DEFINE callbacks == pendingCallbacks[r] \cup more
<1>1. callbacks \in SUBSET Requests
  BY DEF TypeOK
<1>2. \A q \in callbacks : RouterOf[q] = r /\ results[q] = <<>> /\ ~ \E p \in posted : p.request = q
  BY DEF ToldOnce, Fresh, Waiting, TypeOK
<1>3. /\ pendingCallbacks' = [pendingCallbacks EXCEPT ![r] = {}]
      /\ results' = Told(callbacks, type) /\ pendingSessions' = pendingSessions \ {r}
  BY DEF FinalizeRequest
<1> HIDE DEF callbacks
<1>4. /\ results' \in [Requests -> Seq(SessionResult)]
      /\ \A q \in Requests \ callbacks : results'[q] = results[q]
      /\ \A q \in callbacks : Len(results'[q]) = 1 /\ results'[q] # <<>>
  <2>1. /\ Told(callbacks, type) \in [Requests -> Seq(SessionResult)]
        /\ \A q \in Requests \ callbacks : Told(callbacks, type)[q] = results[q]
        /\ \A q \in callbacks : results[q] = <<>> =>
             Len(Told(callbacks, type)[q]) = 1 /\ Told(callbacks, type)[q] # <<>>
    BY <1>1, ToldTypes
  <2> QED
    BY <1>2, <1>3, <2>1
<1>5. /\ pendingCallbacks' \in [Routers -> SUBSET Requests]
      /\ \A x \in Routers : pendingCallbacks'[x] = IF x = r THEN {} ELSE pendingCallbacks[x]
  BY <1>3 DEF TypeOK
<1>6. \A q \in callbacks : \A x \in Routers : q \notin pendingCallbacks'[x]
  BY <1>1, <1>2, <1>5 DEF ToldOnce
<1>7. ToldOnce'
  <2> SUFFICES ASSUME NEW q \in Requests
               PROVE  /\ Len(results'[q]) <= 1
                      /\ \A x \in Routers : q \in pendingCallbacks'[x] =>
                           x = RouterOf[q] /\ results'[q] = <<>>
                      /\ \A p \in posted : p.request = q =>
                           /\ q \notin pendingCallbacks'[RouterOf[q]] /\ results'[q] = <<>>
                           /\ \A o \in posted : o.request = q => o = p
    BY DEF ToldOnce
  <2>1. CASE q \in callbacks
    <3>1. Len(results'[q]) = 1
      BY <1>4, <2>1
    <3>2. 1 <= 1
      OBVIOUS
    <3> QED
      BY <1>2, <1>6, <2>1, <3>1, <3>2
  <2>2. CASE q \notin callbacks
    BY <1>4, <1>5, <2>2 DEF ToldOnce, Parameters
  <2> QED
    BY <2>1, <2>2
<1> QED
  BY <1>3, <1>4, <1>5, <1>7 DEF TypeOK

\* A step that finalizes the request for r only has to keep what is under way for others.
LEMMA FinalizeKeepsTrack ==
  ASSUME Parameters, Tracked, NEW r \in Routers, NEW type \in SessionResult,
         NEW more \in SUBSET Requests,
         \A q \in more : RouterOf[q] = r /\ Fresh(q),
         FinalizeRequest(r, pendingCallbacks[r] \cup more, type), UNCHANGED posted,
         \A x \in Routers \ {r} : UnderWay(x) => UnderWay(x)'
  PROVE  /\ RequestsTracked'
         /\ pendingCallbacks' \in [Routers -> SUBSET Requests]
         /\ pendingSessions' \subseteq Routers
         /\ results' \in [Requests -> Seq(SessionResult)]
<1>1. TypeOK /\ ToldOnce /\ AttemptInProgress
  BY DEF Tracked, RequestsTracked
<1>2. /\ ToldOnce'
      /\ pendingCallbacks' \in [Routers -> SUBSET Requests]
      /\ pendingSessions' \subseteq Routers
      /\ results' \in [Requests -> Seq(SessionResult)]
  BY <1>1, FinalizeTellsOnce
<1>3. pendingSessions' = pendingSessions \ {r}
  BY DEF FinalizeRequest
<1>4. AttemptInProgress'
  BY <1>1, <1>2, <1>3 DEF AttemptInProgress
<1> QED
  BY <1>2, <1>4 DEF RequestsTracked

\* The same when nobody new asks, as in all callers but CreateSessionTo.
LEMMA FinalizeTracked ==
  ASSUME Parameters, Tracked, NEW r \in Routers, NEW type \in SessionResult,
         FinalizeRequest(r, pendingCallbacks[r], type), UNCHANGED posted,
         \A x \in Routers \ {r} : UnderWay(x) => UnderWay(x)'
  PROVE  /\ RequestsTracked'
         /\ pendingCallbacks' \in [Routers -> SUBSET Requests]
         /\ pendingSessions' \subseteq Routers
         /\ results' \in [Requests -> Seq(SessionResult)]
<1>1. pendingCallbacks[r] \cup {} = pendingCallbacks[r]
  OBVIOUS
<1>2. FinalizeRequest(r, pendingCallbacks[r] \cup {}, type)
  BY <1>1
<1>3. {} \in SUBSET Requests /\ \A q \in {} : RouterOf[q] = r /\ Fresh(q)
  OBVIOUS
<1> QED
  BY <1>2, <1>3, FinalizeKeepsTrack

\* What is under way stays so while lookups, answers, attempts and jobs only grow.
LEMMA StaysUnderWay ==
  ASSUME NEW x, lookups' = lookups, answers' = answers, jobs' = jobs, attempts \subseteq attempts'
  PROVE  UnderWay(x) => UnderWay(x)'
BY DEF UnderWay, Idle

\* ToldOnce is about three variables.
LEMMA ToldOnceKept ==
  ASSUME ToldOnce, UNCHANGED <<pendingCallbacks, results, posted>>
  PROVE  ToldOnce'
BY DEF ToldOnce

LEMMA InitTracked == ASSUME Parameters, Init PROVE Tracked
<1>1. TypeOK
  BY DEF Init, TypeOK, Parameters
<1>2. ToldOnce
  BY DEF Init, ToldOnce
<1>3. AttemptInProgress
  BY DEF Init, AttemptInProgress
<1> QED
  BY <1>1, <1>2, <1>3 DEF Tracked, RequestsTracked

\* A request that waits with its router: it was not waiting, and nobody told it.
LEMMA RequestWaits ==
  ASSUME Parameters, Tracked, NEW r \in Routers, NEW more \in SUBSET Requests,
         \A q \in more : RouterOf[q] = r /\ Fresh(q),
         pendingCallbacks' = [pendingCallbacks EXCEPT ![r] = pendingCallbacks[r] \cup more],
         UNCHANGED <<results, posted>>
  PROVE  ToldOnce' /\ pendingCallbacks' \in [Routers -> SUBSET Requests]
<1>1. TypeOK /\ ToldOnce
  BY DEF Tracked, RequestsTracked
<1>2. \A x \in Routers : pendingCallbacks'[x] =
        IF x = r THEN pendingCallbacks[r] \cup more ELSE pendingCallbacks[x]
  BY <1>1 DEF TypeOK
<1>3. \A q \in more : results[q] = <<>> /\ ~ \E p \in posted : p.request = q
  BY DEF Fresh, Waiting
<1>4. ToldOnce'
  BY <1>1, <1>2, <1>3 DEF ToldOnce
<1> QED
  BY <1>1, <1>4 DEF TypeOK

LEMMA CreateSessionToTracked ==
  ASSUME Parameters, Tracked, NEW r \in Routers, NEW more \in SUBSET Requests,
         \A q \in more : RouterOf[q] = r /\ Fresh(q),
         CreateSessionTo(r, more)
  PROVE  Tracked'
<1> DEFINE waiting == pendingCallbacks[r] \cup more
<1>1. TypeOK /\ ToldOnce /\ AttemptInProgress
  BY DEF Tracked, RequestsTracked
<1>2. Idle /\ UNCHANGED <<attempts, authed, allowed, jobs, posted>>
  BY DEF CreateSessionTo
<1>3. CASE /\ pendingCallbacks' = [pendingCallbacks EXCEPT ![r] = waiting]
           /\ UNCHANGED <<pendingSessions, results, lookups, answers>>
  <2>1. ToldOnce' /\ pendingCallbacks' \in [Routers -> SUBSET Requests]
    BY <1>2, <1>3, RequestWaits
  <2>2. AttemptInProgress'
    BY <1>1, <1>2, <1>3, StaysUnderWay DEF AttemptInProgress
  <2> QED
    BY <1>1, <1>2, <1>3, <2>1, <2>2 DEF Tracked, RequestsTracked, TypeOK
<1>4. CASE FinalizeRequest(r, waiting, "Establish") /\ UNCHANGED <<lookups, answers>>
  <2>1. \A x \in Routers \ {r} : UnderWay(x) => UnderWay(x)'
    BY <1>2, <1>4, StaysUnderWay
  <2>2. "Establish" \in SessionResult
    BY DEF SessionResult
  <2>3. /\ RequestsTracked'
        /\ pendingCallbacks' \in [Routers -> SUBSET Requests]
        /\ pendingSessions' \subseteq Routers
        /\ results' \in [Requests -> Seq(SessionResult)]
    BY <1>2, <1>4, <2>1, <2>2, FinalizeKeepsTrack
  <2> QED
    BY <1>1, <1>2, <1>4, <2>3 DEF Tracked, TypeOK
<1>5. CASE /\ pendingCallbacks' = [pendingCallbacks EXCEPT ![r] = waiting]
           /\ pendingSessions' = pendingSessions \cup {r}
           /\ GetRC(r) /\ UNCHANGED results
  <2>1. ToldOnce' /\ pendingCallbacks' \in [Routers -> SUBSET Requests]
    BY <1>2, <1>5, RequestWaits
  <2>2. lookups \in [Routers -> 0..MaxLookups] /\ lookups[r] \in 0..MaxLookups /\ MaxLookups \in Nat
    BY <1>1 DEF TypeOK, Parameters
  <2>3. UnderWay(r)' /\ lookups' \in [Routers -> 0..MaxLookups]
        /\ (\A x \in Routers \ {r} : lookups'[x] = lookups[x])
        /\ (\/ answers' = answers
            \/ answers' \in [router : Routers, left : 1..MaxLookups + 1, result : LookupResult])
    <3>1. CASE /\ answers' = Answer(r, lookups[r] + 1, "Success")
               /\ lookups' = [lookups EXCEPT ![r] = 0]
      <4>1. /\ lookups[r] + 1 \in 1..MaxLookups + 1 /\ lookups[r] + 1 # 0 /\ "Success" \in LookupResult
        BY <2>2 DEF LookupResult
      <4> QED
        BY <2>2, <3>1, <4>1 DEF Answer, UnderWay, Idle
    <3>2. CASE /\ lookups[r] < MaxLookups
               /\ lookups' = [lookups EXCEPT ![r] = @ + 1]
               /\ UNCHANGED answers
      <4>1. lookups[r] + 1 \in 0..MaxLookups /\ lookups[r] + 1 > 0
        BY <2>2, <3>2
      <4> QED
        BY <2>2, <3>2, <4>1 DEF UnderWay
    <3>3. CASE answers' = Answer(r, 1, "RouterNotFound") /\ UNCHANGED lookups
      <4>1. 1 \in 1..MaxLookups + 1 /\ 1 # 0 /\ "RouterNotFound" \in LookupResult
        BY <2>2 DEF LookupResult
      <4> QED
        BY <2>2, <3>3, <4>1 DEF Answer, UnderWay, Idle
    <3> QED
      BY <1>5, <3>1, <3>2, <3>3 DEF GetRC
  <2>4. \A x \in Routers \ {r} : UnderWay(x) => UnderWay(x)'
    BY <1>2, <2>3 DEF UnderWay
  <2>5. AttemptInProgress'
    BY <1>1, <1>5, <2>3, <2>4 DEF AttemptInProgress, TypeOK
  <2>6. TypeOK'
    BY <1>1, <1>2, <1>5, <2>1, <2>3 DEF TypeOK
  <2> QED
    BY <2>1, <2>5, <2>6 DEF Tracked, RequestsTracked
<1> QED
  BY <1>3, <1>4, <1>5 DEF CreateSessionTo

LEMMA CreateSessionToRCTracked ==
  ASSUME Parameters, Tracked, NEW r \in Routers, CreateSessionToRC(r)
  PROVE  Tracked'
<1>1. TypeOK /\ ToldOnce /\ AttemptInProgress
  BY DEF Tracked, RequestsTracked
<1>2. UNCHANGED envVars
  BY DEF CreateSessionToRC
<1>3. ASSUME NEW type \in SessionResult, FinalizeRequest(r, pendingCallbacks[r], type), UNCHANGED attempts
      PROVE  Tracked'
  <2>1. \A x \in Routers \ {r} : UnderWay(x) => UnderWay(x)'
    BY <1>2, <1>3, StaysUnderWay DEF envVars
  <2>2. /\ RequestsTracked'
        /\ pendingCallbacks' \in [Routers -> SUBSET Requests]
        /\ pendingSessions' \subseteq Routers
        /\ results' \in [Requests -> Seq(SessionResult)]
    BY <1>2, <1>3, <2>1, FinalizeTracked DEF envVars
  <2> QED
    BY <1>1, <1>2, <1>3, <2>2 DEF Tracked, TypeOK, envVars
<1>4. CASE /\ TryEstablishTo(r)
           /\ pendingSessions' = pendingSessions \cup {r}
           /\ UNCHANGED <<pendingCallbacks, results>>
  <2>1. attempts' = attempts \cup {r}
    BY <1>4 DEF TryEstablishTo
  <2>2. \A x : UnderWay(x) => UnderWay(x)'
    BY <1>2, <2>1, StaysUnderWay DEF envVars
  <2>3. UnderWay(r)'
    BY <2>1 DEF UnderWay
  <2>4. AttemptInProgress'
    BY <1>1, <1>4, <2>2, <2>3 DEF AttemptInProgress
  <2>5. ToldOnce'
    BY <1>1, <1>2, <1>4, ToldOnceKept DEF envVars
  <2> QED
    BY <1>1, <1>2, <1>4, <2>1, <2>4, <2>5 DEF Tracked, RequestsTracked, TypeOK, envVars
<1> QED
  BY <1>3, <1>4 DEF CreateSessionToRC, SessionResult

\* The answers of a lookup are taken up one by one: after the last one the router has an
\* attempt of the link layer, or is pending no longer.
LEMMA OnRouterContactResultTracked ==
  ASSUME Parameters, Tracked, OnRouterContactResult
  PROVE  Tracked'
<1>0. PICK r : r = answers.router
  OBVIOUS
<1>1. TypeOK /\ ToldOnce /\ AttemptInProgress
  BY DEF Tracked, RequestsTracked
<1>2. /\ answers.left > 0
      /\ answers' = IF answers.left = 1 THEN [left |-> 0] ELSE [answers EXCEPT !.left = @ - 1]
      /\ UNCHANGED <<lookups, authed, allowed, jobs, posted>>
  BY DEF OnRouterContactResult
<1>3. answers \in [router : Routers, left : 1..MaxLookups + 1, result : LookupResult]
  BY <1>1, <1>2 DEF TypeOK
<1>4. r \in Routers
  BY <1>0, <1>3
<1>5. answers' = [left |-> 0] \/ answers' \in [router : Routers, left : 1..MaxLookups + 1, result : LookupResult]
  <2>1. CASE answers.left = 1
    BY <1>2, <2>1
  <2>2. CASE answers.left # 1
    <3>1. answers.left - 1 \in 1..MaxLookups + 1
      BY <1>3, <2>2 DEF Parameters
    <3> QED
      BY <1>2, <1>3, <2>2, <3>1
  <2> QED
    BY <2>1, <2>2
<1>6. ASSUME attempts \subseteq attempts'
      PROVE  \A x \in Routers \ {r} : UnderWay(x) => UnderWay(x)'
  BY <1>0, <1>2, <1>6 DEF UnderWay
<1>7. ASSUME NEW type \in SessionResult, FinalizeRequest(r, pendingCallbacks[r], type), UNCHANGED attempts
      PROVE  Tracked'
  <2>1. /\ RequestsTracked'
        /\ pendingCallbacks' \in [Routers -> SUBSET Requests]
        /\ pendingSessions' \subseteq Routers
        /\ results' \in [Requests -> Seq(SessionResult)]
    <3>1. \A x \in Routers \ {r} : UnderWay(x) => UnderWay(x)'
      BY <1>6, <1>7
    <3> QED
      BY <1>2, <1>4, <1>7, <3>1, FinalizeTracked
  <2> QED
    BY <1>1, <1>2, <1>5, <1>7, <2>1 DEF Tracked, TypeOK
<1>8. ASSUME UNCHANGED <<pendingCallbacks, results, pendingSessions>>,
             attempts \subseteq attempts', attempts' \subseteq Routers,
             r \in pendingSessions => r \in attempts'
      PROVE  Tracked'
  <2>1. ToldOnce'
    BY <1>1, <1>2, <1>8, ToldOnceKept
  <2>2. \A x \in Routers \ {r} : UnderWay(x) => UnderWay(x)'
    BY <1>6, <1>8
  <2>3. r \in pendingSessions => UnderWay(r)'
    BY <1>8 DEF UnderWay
  <2>4. AttemptInProgress'
    BY <1>1, <1>8, <2>2, <2>3 DEF AttemptInProgress, TypeOK
  <2> QED
    BY <1>1, <1>2, <1>5, <1>8, <2>1, <2>4 DEF Tracked, RequestsTracked, TypeOK
<1>9. CASE r \notin pendingSessions
  <2>1. Nothing
    BY <1>0, <1>9 DEF OnRouterContactResult
  <2> QED
    BY <1>1, <1>8, <1>9, <2>1 DEF Nothing, TypeOK
<1>10. CASE r \in pendingSessions /\ answers.result = "Success"
  <2>1. GotRouterContact(r)
    BY <1>0, <1>10 DEF OnRouterContactResult
  <2>2. CASE TryEstablishTo(r) /\ UNCHANGED <<pendingCallbacks, results, pendingSessions>>
    <3>1. attempts' = attempts \cup {r}
      BY <2>2 DEF TryEstablishTo
    <3> QED
      BY <1>1, <1>4, <1>8, <2>2, <3>1 DEF TypeOK
  <2>3. CASE \E type \in {"EstablishFail", "NoLink"} : FinalizeRequest(r, pendingCallbacks[r], type) /\ UNCHANGED attempts
    BY <1>7, <2>3 DEF SessionResult
  <2> QED
    BY <2>1, <2>2, <2>3 DEF GotRouterContact, DoEstablish
<1>11. CASE r \in pendingSessions /\ answers.result # "Success"
  <2>1. FinalizeRequest(r, pendingCallbacks[r], ResultOf(answers.result)) /\ UNCHANGED attempts
    BY <1>0, <1>11 DEF OnRouterContactResult
  <2>2. ResultOf(answers.result) \in SessionResult
    BY DEF ResultOf, SessionResult
  <2> QED
    BY <1>7, <2>1, <2>2
<1> QED
  BY <1>9, <1>10, <1>11

LEMMA LookupEndsTracked ==
  ASSUME Parameters, Tracked, NEW r \in Routers, NEW result \in LookupResult,
         HandleDHTLookupResult(r, result)
  PROVE  Tracked'
<1>1. TypeOK /\ ToldOnce /\ AttemptInProgress
  BY DEF Tracked, RequestsTracked
<1>2. /\ Idle /\ lookups[r] > 0 /\ answers' = Answer(r, lookups[r], result)
      /\ lookups' = [lookups EXCEPT ![r] = 0]
      /\ UNCHANGED <<pendingCallbacks, pendingSessions, results, attempts, authed, allowed, jobs, posted>>
  BY DEF HandleDHTLookupResult
<1>3. lookups[r] \in 1..MaxLookups + 1 /\ lookups \in [Routers -> 0..MaxLookups]
      /\ lookups' \in [Routers -> 0..MaxLookups] /\ MaxLookups \in Nat
  BY <1>1, <1>2 DEF TypeOK, Parameters
<1>4. answers' \in [router : Routers, left : 1..MaxLookups + 1, result : LookupResult]
  BY <1>2, <1>3 DEF Answer
<1>5. UnderWay(r)'
  BY <1>2, <1>3 DEF UnderWay, Idle, Answer
<1>6. \A x \in Routers \ {r} : UnderWay(x) => UnderWay(x)'
  BY <1>2, <1>3 DEF UnderWay
<1>7. AttemptInProgress'
  BY <1>1, <1>2, <1>5, <1>6 DEF AttemptInProgress, TypeOK
<1>8. ToldOnce'
  BY <1>1, <1>2, ToldOnceKept
<1> QED
  BY <1>1, <1>2, <1>3, <1>4, <1>7, <1>8 DEF Tracked, RequestsTracked, TypeOK

\* A step that ends an attempt, or refuses an inbound session, and finalizes the request.
LEMMA EndsTracked ==
  ASSUME Parameters, Tracked, NEW r \in Routers, NEW type \in SessionResult,
         FinalizeRequest(r, pendingCallbacks[r], type),
         attempts \ {r} \subseteq attempts', attempts' \subseteq attempts,
         authed' \subseteq Routers,
         UNCHANGED <<lookups, answers, allowed, jobs, posted>>
  PROVE  Tracked'
<1>1. TypeOK
  BY DEF Tracked
<1>2. \A x \in Routers \ {r} : UnderWay(x) => UnderWay(x)'
  BY DEF UnderWay, Idle
<1>3. /\ RequestsTracked'
      /\ pendingCallbacks' \in [Routers -> SUBSET Requests]
      /\ pendingSessions' \subseteq Routers
      /\ results' \in [Requests -> Seq(SessionResult)]
  BY <1>2, FinalizeTracked
<1> QED
  BY <1>1, <1>3 DEF Tracked, TypeOK

LEMMA AttemptEndsTracked ==
  ASSUME Parameters, Tracked, NEW r \in Routers,
         AttemptEnds(r) \/ OnInboundRefused(r)
  PROVE  Tracked'
<1>1. TypeOK /\ ToldOnce /\ AttemptInProgress
  BY DEF Tracked, RequestsTracked
<1>2. CASE OnConnectTimeout(r)
  BY <1>1, <1>2, EndsTracked DEF OnConnectTimeout, envVars, SessionResult, TypeOK
<1>3. CASE OnInboundRefused(r)
  BY <1>1, <1>3, EndsTracked DEF OnInboundRefused, envVars, SessionResult, TypeOK
<1>4. CASE OnSessionEstablished(r)
  <2>1. /\ attempts' = attempts \ {r} /\ authed' = authed \cup {r}
        /\ UNCHANGED <<lookups, answers, allowed, posted>>
    BY <1>4 DEF OnSessionEstablished
  <2>2. CASE FinalizeRequest(r, pendingCallbacks[r], "InvalidRouter") /\ UNCHANGED jobs
    BY <1>1, <2>1, <2>2, EndsTracked DEF SessionResult, TypeOK
  <2>3. CASE /\ Len(jobs) < MaxJobs /\ jobs' = Append(jobs, Job(r, "check"))
             /\ UNCHANGED <<pendingCallbacks, results, pendingSessions>>
    <3>1. /\ jobs \in Seq([router : Routers, stage : Stages]) /\ MaxJobs \in Nat
          /\ Job(r, "check") \in [router : Routers, stage : Stages]
      BY <1>1 DEF TypeOK, Parameters, Job, Stages
    <3>2. /\ jobs' \in Seq([router : Routers, stage : Stages]) /\ Len(jobs') <= MaxJobs
          /\ DOMAIN jobs = 1..Len(jobs) /\ DOMAIN jobs' = 1..Len(jobs) + 1
          /\ \A i \in 1..Len(jobs) : jobs'[i] = jobs[i]
          /\ jobs'[Len(jobs) + 1] = Job(r, "check")
      BY <2>3, <3>1
    <3>3. \A i \in DOMAIN jobs : i \in DOMAIN jobs' /\ jobs'[i] = jobs[i]
      BY <3>1, <3>2
    <3>4. Len(jobs) + 1 \in DOMAIN jobs' /\ jobs'[Len(jobs) + 1].router = r
      BY <3>1, <3>2 DEF Job
    <3>5. UnderWay(r)'
      BY <3>4 DEF UnderWay
    <3>6. \A x \in Routers \ {r} : UnderWay(x) => UnderWay(x)'
      BY <2>1, <3>3 DEF UnderWay, Idle
    <3>7. AttemptInProgress'
      BY <1>1, <2>3, <3>5, <3>6 DEF AttemptInProgress, TypeOK
    <3>8. ToldOnce'
      BY <1>1, <2>1, <2>3, ToldOnceKept
    <3> QED
      BY <1>1, <2>1, <2>3, <3>2, <3>7, <3>8 DEF Tracked, RequestsTracked, TypeOK
  <2> QED
    BY <1>4, <2>2, <2>3 DEF OnSessionEstablished
<1> QED
  BY <1>2, <1>3, <1>4 DEF AttemptEnds

LEMMA ElementOfSeq == ASSUME NEW S, NEW s \in Seq(S), NEW i \in DOMAIN s PROVE s[i] \in S
OBVIOUS

\* The worker thread: the callbacks of VerifyRC move from the map to the event loop, and the
\* entry that ErasePendingSession removes is the one its own job stood for.
LEMMA VerifyRCTracked ==
  ASSUME Parameters, Tracked, NEW i \in DOMAIN jobs, VerifyRC(i)
  PROVE  Tracked'
<1>0. PICK r : r = jobs[i].router
  OBVIOUS
<1>1. TypeOK /\ ToldOnce /\ AttemptInProgress
  BY DEF Tracked, RequestsTracked
<1>2. PICK type \in SessionResult :
        posted' = posted \cup {[request |-> q, type |-> type] : q \in pendingCallbacks[r]}
  BY <1>0 DEF VerifyRC, SessionResult
<1>3. /\ pendingCallbacks' = [pendingCallbacks EXCEPT ![r] = {}]
      /\ jobs' = [jobs EXCEPT ![i].stage = "erase"]
      /\ UNCHANGED <<pendingSessions, results, lookups, answers, attempts, authed, allowed>>
  BY <1>0 DEF VerifyRC
<1>4. r \in Routers /\ jobs \in Seq([router : Routers, stage : Stages]) /\ jobs[i] \in [router : Routers, stage : Stages]
  <2>1. jobs \in Seq([router : Routers, stage : Stages])
    BY <1>1 DEF TypeOK
  <2>2. jobs[i] \in [router : Routers, stage : Stages]
    BY <2>1, ElementOfSeq
  <2> QED
    BY <1>0, <2>1, <2>2
<1>5. /\ jobs' \in Seq([router : Routers, stage : Stages]) /\ Len(jobs') = Len(jobs)
      /\ DOMAIN jobs' = DOMAIN jobs /\ \A k \in DOMAIN jobs : jobs'[k].router = jobs[k].router
  <2>1. [jobs[i] EXCEPT !.stage = "erase"] \in [router : Routers, stage : Stages]
    BY <1>4 DEF Stages
  <2>2. jobs' = [jobs EXCEPT ![i] = [jobs[i] EXCEPT !.stage = "erase"]]
    BY <1>3
  <2> QED
    BY <1>4, <2>1, <2>2
<1>6. AttemptInProgress'
  BY <1>1, <1>3, <1>5 DEF AttemptInProgress, UnderWay, Idle
<1>7. pendingCallbacks[r] \subseteq Requests
  BY <1>1, <1>4 DEF TypeOK
<1>8. posted' \subseteq [request : Requests, type : SessionResult]
  BY <1>1, <1>2, <1>7 DEF TypeOK
<1>9. /\ pendingCallbacks' \in [Routers -> SUBSET Requests]
      /\ \A x \in Routers : pendingCallbacks'[x] = IF x = r THEN {} ELSE pendingCallbacks[x]
  BY <1>1, <1>3 DEF TypeOK
<1>10. \A p \in posted' : \/ p \in posted
                          \/ p.request \in pendingCallbacks[r] /\ p = [request |-> p.request, type |-> type]
  BY <1>2
<1>11. ToldOnce'
  <2> SUFFICES ASSUME NEW q \in Requests
               PROVE  /\ Len(results[q]) <= 1
                      /\ \A x \in Routers : q \in pendingCallbacks'[x] =>
                           x = RouterOf[q] /\ results[q] = <<>>
                      /\ \A p \in posted' : p.request = q =>
                           /\ q \notin pendingCallbacks'[RouterOf[q]] /\ results[q] = <<>>
                           /\ \A o \in posted' : o.request = q => o = p
    BY <1>3 DEF ToldOnce
  <2>1. RouterOf[q] \in Routers
    BY DEF Parameters
  <2>2. CASE q \in pendingCallbacks[r]
    <3>1. r = RouterOf[q] /\ results[q] = <<>> /\ ~ \E p \in posted : p.request = q
      BY <1>1, <1>4, <2>2 DEF ToldOnce
    <3>2. \A p \in posted' : p.request = q => p = [request |-> q, type |-> type]
      BY <1>10, <3>1
    <3> QED
      BY <1>1, <1>9, <2>1, <3>1, <3>2 DEF ToldOnce
  <2>3. CASE q \notin pendingCallbacks[r]
    <3>1. \A p \in posted' : p.request = q => p \in posted
      BY <1>10, <2>3
    <3> QED
      BY <1>1, <1>9, <2>1, <3>1 DEF ToldOnce
  <2> QED
    BY <2>2, <2>3
<1> QED
  BY <1>1, <1>3, <1>5, <1>6, <1>8, <1>9, <1>11 DEF Tracked, RequestsTracked, TypeOK

LEMMA ErasePendingSessionTracked ==
  ASSUME Parameters, Tracked, NEW i \in DOMAIN jobs, ErasePendingSession(i)
  PROVE  Tracked'
<1>1. TypeOK /\ ToldOnce /\ AttemptInProgress
  BY DEF Tracked, RequestsTracked
<1>2. /\ pendingSessions' = pendingSessions \ {jobs[i].router}
      /\ jobs' = [k \in 1..Len(jobs) - 1 |-> IF k < i THEN jobs[k] ELSE jobs[k + 1]]
      /\ UNCHANGED <<pendingCallbacks, results, lookups, answers, attempts, authed, allowed, posted>>
  BY DEF ErasePendingSession
<1>3. jobs \in Seq([router : Routers, stage : Stages]) /\ Len(jobs) <= MaxJobs /\ MaxJobs \in Nat
  BY <1>1 DEF TypeOK, Parameters
<1>4. Len(jobs) \in Nat \ {0} /\ i \in 1..Len(jobs) /\ DOMAIN jobs = 1..Len(jobs)
  BY <1>3
<1>5. jobs' \in Seq([router : Routers, stage : Stages]) /\ Len(jobs') <= MaxJobs
      /\ DOMAIN jobs' = 1..Len(jobs) - 1
  <2>1. \A k \in 1..Len(jobs) - 1 :
          (IF k < i THEN jobs[k] ELSE jobs[k + 1]) \in [router : Routers, stage : Stages]
    <3>1. \A k \in 1..Len(jobs) - 1 : k \in DOMAIN jobs /\ k + 1 \in DOMAIN jobs
      BY <1>4
    <3>2. \A k \in DOMAIN jobs : jobs[k] \in [router : Routers, stage : Stages]
      BY <1>3, ElementOfSeq
    <3> QED
      BY <3>1, <3>2
  <2>2. Len(jobs) - 1 \in Nat
    BY <1>4
  <2>3. jobs' \in Seq([router : Routers, stage : Stages]) /\ Len(jobs') = Len(jobs) - 1
    BY <1>2, <2>1, <2>2
  <2> QED
    BY <1>2, <1>3, <1>4, <2>3
<1>6. \A k \in DOMAIN jobs : k # i => \E n \in DOMAIN jobs' : jobs'[n] = jobs[k]
  <2> SUFFICES ASSUME NEW k \in DOMAIN jobs, k # i
               PROVE  \E n \in DOMAIN jobs' : jobs'[n] = jobs[k]
    OBVIOUS
  <2>1. CASE k < i
    <3>1. k \in DOMAIN jobs' /\ jobs'[k] = jobs[k]
      BY <1>2, <1>4, <2>1
    <3> QED
      BY <3>1
  <2>2. CASE k > i
    <3>1. k - 1 \in DOMAIN jobs' /\ ~(k - 1 < i) /\ (k - 1) + 1 = k
      BY <1>4, <1>5, <2>2
    <3>2. jobs'[k - 1] = jobs[k]
      BY <1>2, <1>5, <3>1
    <3> QED
      BY <3>1, <3>2
  <2> QED
    BY <1>4, <2>1, <2>2
<1>7. \A x \in pendingSessions' : UnderWay(x) => UnderWay(x)'
  BY <1>2, <1>6 DEF UnderWay, Idle
<1>8. AttemptInProgress'
  BY <1>1, <1>2, <1>7 DEF AttemptInProgress
<1>9. ToldOnce'
  BY <1>1, <1>2, ToldOnceKept
<1> QED
  BY <1>1, <1>2, <1>5, <1>8, <1>9 DEF Tracked, RequestsTracked, TypeOK

LEMMA RunPostedTracked ==
  ASSUME Parameters, Tracked, NEW p \in posted, RunPosted(p)
  PROVE  Tracked'
<1>1. TypeOK /\ ToldOnce /\ AttemptInProgress
  BY DEF Tracked, RequestsTracked
<1>2. /\ posted' = posted \ {p} /\ results' = Told({p.request}, p.type)
      /\ UNCHANGED <<pendingCallbacks, pendingSessions, lookups, answers, attempts, authed, allowed, jobs>>
  BY DEF RunPosted
<1>3. p \in [request : Requests, type : SessionResult]
  BY <1>1 DEF TypeOK
<1>4. PICK t : t = p.request
  OBVIOUS
<1>5. t \in Requests /\ p.type \in SessionResult
  BY <1>3, <1>4
<1>6. /\ results[t] = <<>> /\ \A r \in Routers : t \notin pendingCallbacks[r]
      /\ \A o \in posted' : o.request # t
  BY <1>1, <1>2, <1>4, <1>5 DEF ToldOnce
<1>7. /\ results' \in [Requests -> Seq(SessionResult)]
      /\ \A q \in Requests \ {t} : results'[q] = results[q]
      /\ Len(results'[t]) = 1
  <2>1. {t} \in SUBSET Requests
    BY <1>5
  <2>2. /\ Told({t}, p.type) \in [Requests -> Seq(SessionResult)]
        /\ \A q \in Requests \ {t} : Told({t}, p.type)[q] = results[q]
        /\ \A q \in {t} : results[q] = <<>> =>
             Len(Told({t}, p.type)[q]) = 1 /\ Told({t}, p.type)[q] # <<>>
    BY <1>1, <1>5, <2>1, ToldTypes
  <2> QED
    BY <1>2, <1>4, <1>6, <2>2
<1>8. ToldOnce'
  <2> SUFFICES ASSUME NEW q \in Requests
               PROVE  /\ Len(results'[q]) <= 1
                      /\ \A x \in Routers : q \in pendingCallbacks[x] =>
                           x = RouterOf[q] /\ results'[q] = <<>>
                      /\ \A s \in posted' : s.request = q =>
                           /\ q \notin pendingCallbacks[RouterOf[q]] /\ results'[q] = <<>>
                           /\ \A o \in posted' : o.request = q => o = s
    BY <1>2 DEF ToldOnce
  <2>1. 1 <= 1
    OBVIOUS
  <2>2. CASE q = t
    BY <1>6, <1>7, <2>1, <2>2
  <2>3. CASE q # t
    <3>1. results'[q] = results[q] /\ posted' \subseteq posted
      BY <1>2, <1>7, <2>3
    <3> QED
      BY <1>1, <3>1 DEF ToldOnce
  <2> QED
    BY <2>2, <2>3
<1>9. AttemptInProgress'
  BY <1>1, <1>2 DEF AttemptInProgress, UnderWay, Idle
<1> QED
  BY <1>1, <1>2, <1>7, <1>8, <1>9 DEF Tracked, RequestsTracked, TypeOK

\* Sessions that close and a new whitelist are none of OutboundSessionMaker's requests.
LEMMA OthersTracked ==
  ASSUME Tracked, UNCHANGED <<pendingCallbacks, pendingSessions, results, lookups, answers,
                              attempts, jobs, posted>>,
         authed' \subseteq Routers, allowed' \subseteq Routers
  PROVE  Tracked'
<1>1. TypeOK /\ ToldOnce /\ AttemptInProgress
  BY DEF Tracked, RequestsTracked
<1>2. ToldOnce'
  BY <1>1, ToldOnceKept
<1>3. AttemptInProgress'
  BY <1>1 DEF AttemptInProgress, UnderWay, Idle
<1> QED
  BY <1>1, <1>2, <1>3 DEF Tracked, RequestsTracked, TypeOK

LEMMA NextTracked == ASSUME Parameters, Tracked, [Next]_vars PROVE Tracked'
<1>1. TypeOK
  BY DEF Tracked
<1>2. ASSUME NEW q \in Requests, Fresh(q), CreateSessionTo(RouterOf[q], {q})
      PROVE  Tracked'
  <2>1. PICK r \in Routers : r = RouterOf[q]
    BY DEF Parameters
  <2>2. {q} \in SUBSET Requests /\ \A x \in {q} : RouterOf[x] = r /\ Fresh(x)
    BY <1>2, <2>1
  <2>3. CreateSessionTo(r, {q})
    BY <1>2, <2>1
  <2> QED
    BY <2>2, <2>3, CreateSessionToTracked
<1>3. ASSUME NEW r \in Routers, CreateSessionTo(r, {})
      PROVE  Tracked'
  <2>1. {} \in SUBSET Requests /\ \A x \in {} : RouterOf[x] = r /\ Fresh(x)
    OBVIOUS
  <2> QED
    BY <1>3, <2>1, CreateSessionToTracked
<1>4. ASSUME NEW r \in Routers, CreateSessionToRC(r)
      PROVE  Tracked'
  BY <1>4, CreateSessionToRCTracked
<1>5. ASSUME NEW r \in Routers, LookupEnds(r)
      PROVE  Tracked'
  BY <1>5, LookupEndsTracked DEF LookupEnds
<1>6. ASSUME NEW r \in Routers, AttemptEnds(r) \/ OnInboundRefused(r)
      PROVE  Tracked'
  BY <1>6, AttemptEndsTracked
<1>7. ASSUME NEW r \in Routers, SessionClosed(r)
      PROVE  Tracked'
  BY <1>1, <1>7, OthersTracked DEF SessionClosed, TypeOK
<1>8. CASE OnRouterContactResult
  BY <1>8, OnRouterContactResultTracked
<1>9. ASSUME NEW i \in DOMAIN jobs, WorkerStep(i)
      PROVE  Tracked'
  BY <1>9, VerifyRCTracked, ErasePendingSessionTracked DEF WorkerStep
<1>10. ASSUME NEW p \in posted, RunPosted(p)
       PROVE  Tracked'
  BY <1>10, RunPostedTracked
<1>11. ASSUME NEW whitelist \in SUBSET Routers, SetRouterWhitelist(whitelist)
       PROVE  Tracked'
  BY <1>1, <1>11, OthersTracked DEF SetRouterWhitelist, TypeOK
<1>12. CASE UNCHANGED vars
  BY <1>1, <1>12, OthersTracked DEF vars, TypeOK
<1> QED
  BY <1>2, <1>3, <1>4, <1>5, <1>6, <1>7, <1>8, <1>9, <1>10, <1>11, <1>12 DEF Next

\* RequestsTracked for any routers, requests and bounds: FinalizeRequest calls each callback
\* at most once, the worker's posted calls included, and no entry of pendingSessions is left
\* without a lookup, an attempt or a job that will finalize it.
THEOREM RequestsAreTracked == ASSUME Parameters PROVE Spec => []RequestsTracked
<1>1. Init => Tracked
  BY InitTracked
<1>2. Tracked /\ [Next]_vars => Tracked'
  BY NextTracked
<1>3. Tracked => RequestsTracked
  BY DEF Tracked
<1> QED
  BY <1>1, <1>2, <1>3, PTL DEF Spec

\* Every variable of the session maker keeps its type.
THEOREM TypeCorrect == ASSUME Parameters PROVE Spec => []TypeOK
<1>1. Init => Tracked
  BY InitTracked
<1>2. Tracked /\ [Next]_vars => Tracked'
  BY NextTracked
<1>3. Tracked => TypeOK
  BY DEF Tracked
<1> QED
  BY <1>1, <1>2, <1>3, PTL DEF Spec
=============================================================================
