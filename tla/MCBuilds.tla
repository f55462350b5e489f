------------------------------ MODULE MCBuilds ------------------------------
(* What a path build relies on: the messages between client and relays that   *)
(* make the hops (PathBuild), and the sessions those messages need            *)
(* (SessionMaker).  Only the one chosen at the start moves.                   *)
EXTENDS PathBuild

CONSTANTS R, Routers, Requests, IsMasterNode, maxConnectedRouters, MaxLookups, MaxJobs

MCRouterOf == [q \in Requests |-> R]

VARIABLES
  pendingCallbacks, pendingSessions, results, lookups, answers, attempts, authed, allowed,
  jobs, posted,
  moves   \* "build" or "sessions"

Maker == INSTANCE SessionMaker WITH RouterOf <- MCRouterOf

makerVars == <<pendingCallbacks, pendingSessions, results, lookups, answers, attempts, authed,
               allowed, jobs, posted>>

BuildsInit == Init /\ Maker!Init /\ moves \in {"build", "sessions"}

\* The build ends; that the session maker goes on is still checked.
BuildsNext ==
  \/ moves = "build" /\ Next /\ UNCHANGED <<makerVars, moves>>
  \/ moves = "build" /\ UNCHANGED <<vars, makerVars, moves>>
  \/ moves = "sessions" /\ Maker!Next /\ UNCHANGED <<vars, moves>>

BuildsSpec ==
  /\ BuildsInit /\ [][BuildsNext]_<<vars, makerVars, moves>>
  /\ WF_vars(moves = "build" /\ PassTime)
  /\ WF_vars(moves = "build" /\ BuildTimeout)
  /\ WF_vars(moves = "build" /\ ExpirePath)
  /\ \A i \in Hops : WF_vars(moves = "build" /\ ExpireTransitHop(i))
  /\ WF_makerVars(moves = "sessions" /\ Maker!OnRouterContactResult)
  /\ WF_makerVars(moves = "sessions" /\ \E i \in DOMAIN jobs : Maker!WorkerStep(i))
  /\ SF_makerVars(moves = "sessions" /\ \E p \in posted : Maker!RunPosted(p))
  /\ \A r \in Routers :
       /\ SF_makerVars(moves = "sessions" /\ Maker!LookupEnds(r))
       /\ SF_makerVars(moves = "sessions" /\ Maker!AttemptEnds(r))

\* A request waits in one place only, with its router or posted to the event
\* loop, and its callback is called at most once (FinalizeRequest); and a session
\* does not stay pending for nothing: a lookup, an attempt of the link layer or a
\* VerifyRC job is under way for it and will call FinalizeRequest.
RequestsTracked == Maker!RequestsTracked

\* What is pending gets resolved, however lookups, attempts, refusals, sessions
\* that close and requests that come in meanwhile are interleaved.
PendingResolved == Maker!PendingResolved

\* "When this establish attempt concludes, either the messages are then sent to
\* that router immediately, on success, or the messages are dropped and their
\* send status callbacks are invoked" (outbound_message_handler.hpp:111): whoever
\* asked for a session is told what came of it.
EveryRequestTold == Maker!EveryRequestTold
=============================================================================
