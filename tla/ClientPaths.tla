----------------------------- MODULE ClientPaths -----------------------------
(***************************************************************************)
(* The paths of one path::Builder (llarp/path/pathbuilder.cpp) on the      *)
(* client: the Path objects and their states (path.cpp), the PathSet that  *)
(* owns them (pathset.cpp) and the PathContext through which messages from *)
(* the network find them (path_context.cpp).                               *)
(*                                                                         *)
(* Time is counted in router ticks.  Router::Tick is one step of the event *)
(* loop: the builder drops its expired paths, perhaps starts a build, ticks*)
(* the paths it has, and only at the end does PathContext drop its own     *)
(* expired paths.  Keys are generated and messages are decrypted on worker *)
(* threads; what they find is posted to the loop and holds the path by a   *)
(* shared pointer, so it is applied even when no map knows the path any    *)
(* more.                                                                   *)
(*                                                                         *)
(* Which answers the network gives is left open here (PathBuild.tla has    *)
(* the relays): every answer that a path may get can come at any time, or  *)
(* not at all, as long as the relays keep the path.                        *)
(***************************************************************************)
EXTENDS Naturals, FiniteSets

CONSTANTS
  Paths,                  \* Path objects; one is used again when it is gone
  numDesiredPaths,
  build_timeout, latency_interval, alive_timeout, PathReanimationTimeout,
  default_lifetime, PATH_BUILD_RATE, MIN_PATH_BUILD_INTERVAL, MaxBuildInterval,
  MaxProbes,              \* bound of the model: unanswered latency messages
  MaxPosted               \* bound of the model: messages being handled at a time

ASSUME TimeAssumption ==
  /\ numDesiredPaths \in Nat
  /\ build_timeout \in Nat /\ latency_interval \in Nat /\ alive_timeout \in Nat
  /\ PathReanimationTimeout \in Nat /\ default_lifetime \in Nat
  /\ PATH_BUILD_RATE \in Nat /\ MIN_PATH_BUILD_INTERVAL \in Nat
  /\ MaxBuildInterval \in Nat /\ MaxProbes \in Nat /\ MaxPosted \in Nat
  /\ latency_interval + 1 < alive_timeout /\ alive_timeout < PathReanimationTimeout
  /\ MIN_PATH_BUILD_INTERVAL <= MaxBuildInterval /\ PATH_BUILD_RATE <= MaxBuildInterval

ASSUME PathsAssumption == IsFiniteSet(Paths)

VARIABLES
  path,               \* path[p]: the Path object
  m_Paths,            \* PathSet: the paths of the builder
  m_OurPaths,         \* PathContext: the paths messages are delivered to
  generating,         \* paths whose keys are being generated
  sending,            \* paths whose LRCM has been queued, its sentHandler not called
  answers,            \* answers[p]: status messages the relays may still send
  posted,             \* <<p, what>>: work on a message from the network, or its result
  timers,             \* paths with a second latency message to send in two seconds
  stopped,            \* not _run
  sinceBuild,         \* Now() - lastBuild
  buildIntervalLimit

vars == <<path, m_Paths, m_OurPaths, generating, sending, answers, posted,
          timers, stopped, sinceBuild, buildIntervalLimit>>
builderVars == <<stopped, sinceBuild, buildIntervalLimit>>

Status == {"Building", "Established", "Timeout", "Failed", "Ignore", "Expired"}
StatusAnswers == {"confirm", "fail"}
Answers == StatusAnswers \union {"latency", "frame", "traffic"}

Least(a, b) == IF a <= b THEN a ELSE b

\* A hop starts its life when it decrypts the LRCM, and the client only takes
\* the confirmation of a path that has not timed out.
RelayLifetime == default_lifetime + build_timeout

\* What a new Path holds; the constructor enters ePathBuilding.
NewPath ==
  [status |-> "Building", age |-> 0, idle |-> PathReanimationTimeout,
   probe |-> FALSE, probeAge |-> latency_interval + 1, unanswered |-> 0,
   hook |-> TRUE, revived |-> FALSE]

Init ==
  /\ path = [p \in Paths |-> NewPath]
  /\ m_Paths = {} /\ m_OurPaths = {} /\ generating = {} /\ sending = {}
  /\ answers = [p \in Paths |-> {}]
  /\ posted = {} /\ timers = {}
  /\ stopped = FALSE
  /\ sinceBuild = MaxBuildInterval
  /\ buildIntervalLimit = MIN_PATH_BUILD_INTERVAL

----------------------------------------------------------------------------
(* Path                                                                     *)

Expired_WaitsForEver(x) ==
  \/ x.status \in {"Failed", "Expired"}
  \/ x.status \in {"Established", "Ignore"} /\ x.age >= default_lifetime

Expired(x) ==
  \/ x.status \in {"Failed", "Expired"}
  \/ x.status = "Timeout" /\ x.idle >= PathReanimationTimeout
  \/ x.status \in {"Established", "Ignore"} /\ x.age >= default_lifetime

\* EnterState sets any state from any other; the state it leaves matters only
\* for the handlers it calls, which are part of RouterTick below.
EnterState(x, status) == [x EXCEPT !.status = status]

\* History: the path x, which has become y, had expired and now has not.
Revived(x, y) == [y EXCEPT !.revived = @ \/ (Expired(x) /\ ~Expired(y))]

MarkActive(x) == [x EXCEPT !.idle = 0]

SendLatencyMessage(x) ==
  [x EXCEPT !.probe = TRUE, !.probeAge = 0, !.unanswered = Least(@ + 1, MaxProbes)]

Aged(x) ==
  [x EXCEPT !.age = Least(@ + 1, RelayLifetime),
            !.idle = Least(@ + 1, PathReanimationTimeout),
            !.probeAge = Least(@ + 1, latency_interval + 1)]

BuildTimedOut(x) == x.status = "Building" /\ x.age >= build_timeout
ProbeDue(x) == x.status = "Established" /\ x.probeAge > latency_interval /\ ~x.probe
LooksDead(x) == x.status = "Established" /\ x.idle >= alive_timeout
Unused(x) == x.status = "Ignore" /\ x.idle >= alive_timeout

PathTick_WaitsForProbe(x) ==
  CASE BuildTimedOut(x) -> EnterState(x, "Expired")
    [] ProbeDue(x) -> SendLatencyMessage(x)
    [] ~x.probe /\ LooksDead(x) -> EnterState(x, "Timeout")
    [] Unused(x) -> EnterState(x, "Expired")
    [] OTHER -> x

\* Path::Tick of a path that has not expired.
PathTick(x) ==
  CASE BuildTimedOut(x) -> EnterState(x, "Expired")
    [] ProbeDue(x) -> SendLatencyMessage(x)
    [] ~ProbeDue(x) /\ LooksDead(x) -> EnterState(x, "Timeout")
    [] Unused(x) -> EnterState(x, "Expired")
    [] OTHER -> x

HandlePathConfirmMessage(x) ==
  IF x.status = "Building" THEN SendLatencyMessage(MarkActive(x)) ELSE x

HandlePathLatencyMessage(x) ==
  IF x.probe
    THEN [MarkActive(EnterState(x, "Established")) EXCEPT !.probe = FALSE, !.hook = FALSE]
    ELSE MarkActive(x)

----------------------------------------------------------------------------
(* Builder                                                                  *)

NumInStatus(status, paths) == Cardinality({p \in DOMAIN paths : paths[p].status = status})

\* The interval after n more builds have failed.
DoPathBuildBackoff(n) ==
  Least(buildIntervalLimit + n * PATH_BUILD_RATE, MaxBuildInterval)

ShouldBuildMore_GivesUp(paths, elapsed) ==
  /\ ~stopped
  /\ elapsed >= buildIntervalLimit /\ buildIntervalLimit < MaxBuildInterval
  /\ NumInStatus("Building", paths) < numDesiredPaths
  /\ NumInStatus("Established", paths) < numDesiredPaths

\* paths: those in m_Paths; elapsed: the time since the last build.
ShouldBuildMore(paths, elapsed) ==
  /\ ~stopped
  /\ elapsed >= buildIntervalLimit
  /\ NumInStatus("Building", paths) < numDesiredPaths
  /\ NumInStatus("Established", paths) < numDesiredPaths

\* No part of the program refers to the object p any more.
Free(p) ==
  /\ p \notin m_Paths \union m_OurPaths \union generating \union sending \union timers
  /\ \A what \in Answers : <<p, what>> \notin posted

\* Build of paths (one or none: the limiter of the edge router may refuse it);
\* lastBuild is set in either case.
Build(paths, kept) ==
  /\ \A p \in paths : Free(p)
  /\ generating' = generating \union paths
  /\ path' = [p \in Paths |-> IF p \in paths THEN NewPath ELSE kept[p]]
  /\ answers' = [p \in Paths |-> IF p \in paths THEN StatusAnswers ELSE answers[p]]

\* ManualRebuild, BuildOneAlignedTo and Path::Rebuild: a build that no tick asks for.
ManualRebuild ==
  /\ ~stopped
  /\ \E p \in Paths : Build({p}, path)
  /\ sinceBuild' = 0
  /\ UNCHANGED <<m_Paths, m_OurPaths, sending, posted, timers, stopped, buildIntervalLimit>>

PathBuilderKeysGenerated_Stopped(p) ==
  /\ p \in generating
  /\ generating' = generating \ {p}
  /\ \/ /\ m_Paths' = m_Paths \union {p}
        /\ m_OurPaths' = m_OurPaths \union {p}
        /\ sending' = sending \union {p}
     \/ UNCHANGED <<m_Paths, m_OurPaths, sending>>
  /\ UNCHANGED <<path, answers, posted, timers, builderVars>>

\* The keys of p are there, or (second disjunct) there was an error in one of
\* them, or the builder has stopped: nobody is told.
PathBuilderKeysGenerated(p) ==
  /\ p \in generating
  /\ generating' = generating \ {p}
  /\ \/ /\ ~stopped
        /\ m_Paths' = m_Paths \union {p}
        /\ m_OurPaths' = m_OurPaths \union {p}
        /\ sending' = sending \union {p}
     \/ UNCHANGED <<m_Paths, m_OurPaths, sending>>
  /\ UNCHANGED <<path, answers, posted, timers, builderVars>>

\* The sentHandler of the LRCM is called, or (the message is dropped with its
\* queue or its session) it is forgotten.
sentHandler(p) ==
  /\ p \in sending
  /\ sending' = sending \ {p}
  /\ \/ path' = [path EXCEPT ![p] = EnterState(@, "Failed")]
     \/ UNCHANGED path
  /\ UNCHANGED <<m_Paths, m_OurPaths, generating, answers, posted, timers, builderVars>>

\* Builder::Stop
Stop ==
  /\ ~stopped
  /\ stopped' = TRUE
  /\ path' = [p \in Paths |->
       IF p \in m_Paths THEN Revived(path[p], EnterState(path[p], "Ignore")) ELSE path[p]]
  /\ UNCHANGED <<m_Paths, m_OurPaths, generating, sending, answers, posted, timers,
                 sinceBuild, buildIntervalLimit>>

----------------------------------------------------------------------------
(* The event loop                                                           *)

\* A message for p arrives: PathContext finds the path, and a worker thread
\* begins to decrypt it.  Frames and traffic only come on a path that has been
\* built.
Receive(p, what) ==
  /\ p \in m_OurPaths
  /\ path[p].age < RelayLifetime
  /\ <<p, what>> \notin posted /\ Cardinality(posted) < MaxPosted
  /\ posted' = posted \union {<<p, what>>}
  /\ \/ /\ what \in answers[p]
        /\ answers' = [answers EXCEPT ![p] = @ \ {what}]
        /\ UNCHANGED path
     \/ /\ what = "latency"
        /\ path[p].unanswered > 0
        /\ path' = [path EXCEPT ![p].unanswered = @ - 1]
        /\ UNCHANGED answers
     \/ /\ what \in {"frame", "traffic"}
        /\ ~path[p].hook
        /\ UNCHANGED <<path, answers>>
  /\ UNCHANGED <<m_Paths, m_OurPaths, generating, sending, timers, builderVars>>

\* What the worker has posted runs on the loop.  HandlePathBuilt runs when the
\* hook is there, HandlePathBuildFailedAt when the relays refused the path.
Handle(p, what) ==
  /\ <<p, what>> \in posted
  /\ posted' = posted \ {<<p, what>>}
  /\ path' = [path EXCEPT ![p] = Revived(@,
       CASE what = "confirm" -> HandlePathConfirmMessage(@)
         [] what = "fail" -> EnterState(@, "Failed")
         [] what = "latency" -> HandlePathLatencyMessage(@)
         [] what = "frame" -> MarkActive(@)
         [] what = "traffic" -> MarkActive(EnterState(@, "Established")))]
  /\ buildIntervalLimit' = CASE what = "fail" -> DoPathBuildBackoff(1)
                             [] what = "latency" /\ path[p].probe /\ path[p].hook -> PATH_BUILD_RATE
                             [] OTHER -> buildIntervalLimit
  /\ UNCHANGED <<m_Paths, m_OurPaths, generating, sending, answers, timers, stopped, sinceBuild>>

\* The second latency message, two seconds after the first one.
LatencyFEC(p) ==
  /\ p \in timers
  /\ timers' = timers \ {p}
  /\ path' = [path EXCEPT ![p] = IF @.probe THEN SendLatencyMessage(@) ELSE @]
  /\ UNCHANGED <<m_Paths, m_OurPaths, generating, sending, answers, posted, builderVars>>

ExpireOurPaths_BuildingOnly(paths) == {p \in m_OurPaths : paths[p].status # "Expired"}

\* PathContext::ExpirePaths
ExpireOurPaths(paths) == {p \in m_OurPaths : ~Expired(paths[p])}

\* Router::Tick.  fresh: the path the builder starts to build, if any;
\* attempted: GetHopsForBuild found hops for one.
RouterTick(fresh, attempted) ==
  LET aged == [p \in Paths |-> Aged(path[p])]
      elapsed == Least(sinceBuild + 1, MaxBuildInterval)
      kept == {p \in m_Paths : ~Expired(aged[p])}
      ticked == [p \in Paths |-> IF p \in kept THEN PathTick(aged[p]) ELSE aged[p]]
  IN /\ attempted => ShouldBuildMore([p \in kept |-> aged[p]], elapsed)
     /\ m_Paths' = kept
     /\ Build(fresh, ticked)
     /\ sinceBuild' = IF attempted THEN 0 ELSE elapsed
     /\ timers' = timers \union {p \in kept : ProbeDue(aged[p])}
     /\ buildIntervalLimit' =
          DoPathBuildBackoff(Cardinality({p \in kept : BuildTimedOut(aged[p])}))
     /\ m_OurPaths' = ExpireOurPaths(ticked)
     /\ UNCHANGED <<sending, posted, stopped>>

TickWithoutBuild == RouterTick({}, FALSE)
TickRefused == RouterTick({}, TRUE)
TickAndBuild == \E p \in Paths : RouterTick({p}, TRUE)

Next ==
  \/ TickWithoutBuild \/ TickRefused \/ TickAndBuild
  \/ ManualRebuild \/ Stop
  \/ \E p \in Paths :
       \/ PathBuilderKeysGenerated(p) \/ sentHandler(p) \/ LatencyFEC(p)
       \/ \E what \in Answers : Receive(p, what) \/ Handle(p, what)

\* The loop ticks and runs what is posted to it, worker threads finish.  Hops
\* for a build are found again and again.
Spec ==
  /\ Init /\ [][Next]_vars
  /\ WF_vars(TickWithoutBuild \/ TickRefused \/ TickAndBuild)
  /\ SF_vars(TickAndBuild)
  /\ \A p \in Paths :
       /\ WF_vars(PathBuilderKeysGenerated(p)) /\ WF_vars(sentHandler(p))
       /\ WF_vars(LatencyFEC(p))
       /\ \A what \in Answers : WF_vars(Handle(p, what))

----------------------------------------------------------------------------
(* Properties                                                               *)

TypeOK ==
  /\ path \in [Paths -> [status : Status, age : 0..RelayLifetime,
                         idle : 0..PathReanimationTimeout, probe : BOOLEAN,
                         probeAge : 0..latency_interval + 1, unanswered : 0..MaxProbes,
                         hook : BOOLEAN, revived : BOOLEAN]]
  /\ m_Paths \subseteq Paths /\ m_OurPaths \subseteq Paths
  /\ generating \subseteq Paths /\ sending \subseteq Paths /\ timers \subseteq Paths
  /\ answers \in [Paths -> SUBSET StatusAnswers]
  /\ posted \subseteq Paths \X Answers
  /\ stopped \in BOOLEAN
  /\ sinceBuild \in 0..MaxBuildInterval
  /\ buildIntervalLimit \in 0..MaxBuildInterval

\* PathSet and PathContext drop the same paths: what messages are delivered to
\* belongs to the builder (PathContext::ExpirePaths runs after the builder's
\* tick, on the same states), and a path of the builder that messages are no
\* longer delivered to has expired and goes at the next tick, unless a late
\* answer or Stop has put the expired path into another state (Path::EnterState
\* does not mind).
MapsAgree ==
  /\ m_OurPaths \subseteq m_Paths
  /\ \A p \in m_Paths \ m_OurPaths : Expired(path[p]) \/ path[p].revived

\* A path on which nothing comes back does not stay established: when
\* Path::Tick sends a latency message it returns before its check of
\* alive_timeout, but it sends no other while that one is unanswered, and
\* latency_interval is short enough for the check to come in time.
DeadPathNoticed ==
  \A p \in m_Paths : path[p].status = "Established" => path[p].idle < alive_timeout

\* Once the builder has stopped no path is added to it, not even one whose
\* keys were being generated (PathBuilderKeysGenerated).
NoPathAfterStop == [][stopped => m_Paths' \subseteq m_Paths]_vars

\* A stopped builder gets rid of all its paths, those included that a late
\* answer has established again, so that ShouldRemove becomes true.
StoppedIsRemoved == stopped ~> m_Paths = {}

\* However many builds fail and however long the backoff has become, a builder
\* without a path generates the keys of another one, until it is stopped.
BuildsAgain == m_Paths = {} ~> generating # {} \/ m_Paths # {} \/ stopped
=============================================================================
