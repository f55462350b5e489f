------------------------- MODULE ClientPathsProofs -------------------------
(***************************************************************************)
(* Theorems about ClientPaths for any number of paths and any timeouts that *)
(* satisfy TimeAssumption.                                                  *)
(***************************************************************************)
EXTENDS ClientPaths, FiniteSetTheorems, TLAPS

PathObject ==
  [status : Status, age : 0..RelayLifetime, idle : 0..PathReanimationTimeout,
   probe : BOOLEAN, probeAge : 0..latency_interval + 1, unanswered : 0..MaxProbes,
   hook : BOOLEAN, revived : BOOLEAN]

\* A path whose keys are being generated is known to nobody else, so nothing
\* happens to it but that it grows older.
NewInv ==
  \A p \in generating :
    /\ path[p].status = "Building"
    /\ p \notin m_Paths \union m_OurPaths \union sending \union timers
    /\ \A what \in Answers : <<p, what>> \notin posted

\* An established path that waits for no latency reply has heard something since
\* it last sent a latency message, and sends the next one at the first tick
\* that finds the interval over.
Heard(x) ==
  x.status = "Established" /\ ~x.probe =>
    /\ x.idle <= x.probeAge
    /\ x.probeAge = latency_interval + 1 => x.idle = 0

HeardInv == \A p \in m_Paths : Heard(path[p])

IInv == TypeOK /\ NewInv /\ MapsAgree /\ HeardInv /\ DeadPathNoticed

----------------------------------------------------------------------------
(* What the operations on a path keep                                       *)

\* The constants are numbers, and a relay keeps a path as long as the client.
LEMMA Times ==
  /\ RelayLifetime \in Nat /\ default_lifetime \in Nat /\ default_lifetime <= RelayLifetime
  /\ latency_interval \in Nat /\ alive_timeout \in Nat /\ PathReanimationTimeout \in Nat
  /\ latency_interval + 1 < alive_timeout /\ alive_timeout < PathReanimationTimeout
  /\ build_timeout \in Nat /\ MaxProbes \in Nat
BY TimeAssumption DEF RelayLifetime

\* The fields of a path object.
LEMMA Fields ==
  ASSUME NEW x \in PathObject
  PROVE  /\ x.status \in Status /\ x.age \in 0..RelayLifetime
         /\ x.idle \in 0..PathReanimationTimeout /\ x.probe \in BOOLEAN
         /\ x.probeAge \in 0..latency_interval + 1 /\ x.unanswered \in 0..MaxProbes
         /\ x.hook \in BOOLEAN /\ x.revived \in BOOLEAN
BY DEF PathObject

\* A new path is being built and has never been heard of.
LEMMA NewPathIsObject == NewPath \in PathObject /\ NewPath.status = "Building"
BY Times DEF NewPath, PathObject, Status

\* Path::EnterState changes nothing but the state.
LEMMA EnterStateKeeps ==
  ASSUME NEW x \in PathObject, NEW s \in Status
  PROVE  /\ EnterState(x, s) \in PathObject /\ EnterState(x, s).status = s
         /\ EnterState(x, s).idle = x.idle /\ EnterState(x, s).age = x.age
         /\ EnterState(x, s).probe = x.probe /\ EnterState(x, s).probeAge = x.probeAge
         /\ EnterState(x, s).revived = x.revived
BY DEF EnterState, PathObject

\* MarkActive restarts the clock of the alive timeout.
LEMMA MarkActiveKeeps ==
  ASSUME NEW x \in PathObject
  PROVE  /\ MarkActive(x) \in PathObject /\ MarkActive(x).idle = 0
         /\ MarkActive(x).status = x.status /\ MarkActive(x).age = x.age
         /\ MarkActive(x).probe = x.probe /\ MarkActive(x).probeAge = x.probeAge
         /\ MarkActive(x).revived = x.revived
BY Times DEF MarkActive, PathObject

\* SendLatencyMessage leaves a latency message unanswered.
LEMMA SendLatencyMessageKeeps ==
  ASSUME NEW x \in PathObject
  PROVE  /\ SendLatencyMessage(x) \in PathObject /\ SendLatencyMessage(x).probe = TRUE
         /\ SendLatencyMessage(x).status = x.status /\ SendLatencyMessage(x).age = x.age
         /\ SendLatencyMessage(x).idle = x.idle /\ SendLatencyMessage(x).revived = x.revived
<1>1. Least(x.unanswered + 1, MaxProbes) \in 0..MaxProbes
  BY Times, Fields DEF Least
<1>2. 0 \in 0..latency_interval + 1
  BY Times
<1>3. SendLatencyMessage(x) \in PathObject
  BY <1>1, <1>2 DEF SendLatencyMessage, PathObject
<1>4. SendLatencyMessage(x).probe = TRUE
  BY DEF SendLatencyMessage, PathObject
<1>5. /\ SendLatencyMessage(x).status = x.status /\ SendLatencyMessage(x).age = x.age
      /\ SendLatencyMessage(x).idle = x.idle /\ SendLatencyMessage(x).revived = x.revived
  BY DEF SendLatencyMessage, PathObject
<1> QED BY <1>3, <1>4, <1>5

\* Time passes for a path.
LEMMA AgedKeeps ==
  ASSUME NEW x \in PathObject
  PROVE  /\ Aged(x) \in PathObject /\ Aged(x).status = x.status
         /\ Aged(x).probe = x.probe /\ Aged(x).revived = x.revived
         /\ Aged(x).age = Least(x.age + 1, RelayLifetime)
         /\ Aged(x).idle = Least(x.idle + 1, PathReanimationTimeout)
         /\ Aged(x).probeAge = Least(x.probeAge + 1, latency_interval + 1)
<1>1. /\ Least(x.age + 1, RelayLifetime) \in 0..RelayLifetime
      /\ Least(x.idle + 1, PathReanimationTimeout) \in 0..PathReanimationTimeout
      /\ Least(x.probeAge + 1, latency_interval + 1) \in 0..latency_interval + 1
  BY Times, Fields DEF Least
<1> QED BY <1>1 DEF Aged, PathObject

\* A path that has expired stays so while only time passes.
LEMMA AgedExpired ==
  ASSUME NEW x \in PathObject, Expired(x)
  PROVE  Expired(Aged(x))
BY AgedKeeps, Fields, Times DEF Expired, Least

\* What DeadPathNoticed says of one path, with what makes it inductive.
Noticed(x) == x.status = "Established" => x.idle < alive_timeout
GoodPath(x) == Heard(x) /\ Noticed(x)

\* Path::Tick changes neither what was heard on a path nor its history.
LEMMA PathTickKeeps ==
  ASSUME NEW x \in PathObject
  PROVE  /\ PathTick(x) \in PathObject /\ PathTick(x).revived = x.revived
         /\ \/ PathTick(x).status \in {"Expired", "Timeout"}
            \/ ProbeDue(x) /\ PathTick(x) = SendLatencyMessage(x)
            \/ ~ProbeDue(x) /\ ~LooksDead(x) /\ PathTick(x) = x
<1>1. "Expired" \in Status /\ "Timeout" \in Status
  BY DEF Status
<1>2. CASE BuildTimedOut(x)
  <2>1. PathTick(x) = EnterState(x, "Expired")
    BY <1>2 DEF PathTick, BuildTimedOut, ProbeDue, LooksDead, Unused
  <2> QED BY <1>1, <2>1, EnterStateKeeps
<1>3. CASE ~BuildTimedOut(x) /\ ProbeDue(x)
  <2>1. PathTick(x) = SendLatencyMessage(x)
    BY <1>3 DEF PathTick, ProbeDue, BuildTimedOut, LooksDead, Unused
  <2> QED BY <1>3, <2>1, SendLatencyMessageKeeps
<1>4. CASE ~BuildTimedOut(x) /\ ~ProbeDue(x) /\ LooksDead(x)
  <2>1. PathTick(x) = EnterState(x, "Timeout")
    BY <1>4 DEF PathTick, LooksDead, BuildTimedOut, Unused
  <2> QED BY <1>1, <2>1, EnterStateKeeps
<1>5. CASE ~BuildTimedOut(x) /\ ~ProbeDue(x) /\ ~LooksDead(x) /\ Unused(x)
  BY <1>1, <1>5, EnterStateKeeps DEF PathTick
<1>6. CASE ~BuildTimedOut(x) /\ ~ProbeDue(x) /\ ~LooksDead(x) /\ ~Unused(x)
  BY <1>6 DEF PathTick
<1> QED BY <1>2, <1>3, <1>4, <1>5, <1>6

\* A tick keeps a path good: when it sends a latency message instead of checking
\* alive_timeout, something was heard recently.
LEMMA TickKeepsGood ==
  ASSUME NEW x \in PathObject, GoodPath(x)
  PROVE  GoodPath(PathTick(Aged(x)))
<1> DEFINE y == Aged(x)
<1>1. y \in PathObject
  BY AgedKeeps
<1>2. CASE PathTick(y).status \in {"Expired", "Timeout"}
  BY <1>2 DEF GoodPath, Heard, Noticed
<1>3. CASE ProbeDue(y) /\ PathTick(y) = SendLatencyMessage(y)
  <2>1. x.status = "Established" /\ ~x.probe /\ y.probeAge > latency_interval
    BY <1>3, AgedKeeps DEF ProbeDue
  <2>2. x.idle <= x.probeAge /\ (x.probeAge = latency_interval + 1 => x.idle = 0)
    BY <2>1 DEF GoodPath, Heard
  <2>3. y.idle < alive_timeout
    BY <2>2, AgedKeeps, Fields, Times DEF Least
  <2> QED BY <1>1, <1>3, <2>3, SendLatencyMessageKeeps DEF GoodPath, Heard, Noticed
<1>4. CASE ~ProbeDue(y) /\ ~LooksDead(y) /\ PathTick(y) = y
  <2>1. Noticed(y)
    BY <1>1, <1>4, Fields, Times DEF LooksDead, Noticed
  <2>2. ASSUME y.status = "Established", ~y.probe
        PROVE  y.idle <= y.probeAge /\ (y.probeAge = latency_interval + 1 => y.idle = 0)
    <3>1. y.probeAge <= latency_interval
      BY <1>1, <1>4, <2>2, Fields, Times DEF ProbeDue
    <3>2. x.idle <= x.probeAge
      BY <2>2, AgedKeeps DEF GoodPath, Heard
    <3> QED BY <3>1, <3>2, AgedKeeps, Fields, Times DEF Least
  <2> QED BY <1>4, <2>1, <2>2 DEF GoodPath, Heard
<1> QED BY <1>1, <1>2, <1>3, <1>4, PathTickKeeps

\* The handlers of messages keep a path good.
LEMMA HandlersKeepGood ==
  ASSUME NEW x \in PathObject
  PROVE  /\ HandlePathConfirmMessage(x) \in PathObject
         /\ HandlePathConfirmMessage(x).revived = x.revived
         /\ GoodPath(x) => GoodPath(HandlePathConfirmMessage(x))
         /\ HandlePathLatencyMessage(x) \in PathObject
         /\ HandlePathLatencyMessage(x).revived = x.revived
         /\ GoodPath(x) => GoodPath(HandlePathLatencyMessage(x))
<1>1. "Established" \in Status
  BY DEF Status
<1>2. /\ HandlePathConfirmMessage(x) \in PathObject
      /\ HandlePathConfirmMessage(x).revived = x.revived
      /\ GoodPath(x) => GoodPath(HandlePathConfirmMessage(x))
  <2>1. CASE x.status = "Building"
    BY <2>1, MarkActiveKeeps, SendLatencyMessageKeeps
       DEF HandlePathConfirmMessage, GoodPath, Heard, Noticed
  <2>2. CASE x.status # "Building"
    BY <2>2 DEF HandlePathConfirmMessage
  <2> QED BY <2>1, <2>2
<1>3. CASE x.probe
  <2> DEFINE y == MarkActive(EnterState(x, "Established"))
             z == [y EXCEPT !.probe = FALSE, !.hook = FALSE]
  <2>1. y \in PathObject /\ y.idle = 0 /\ y.revived = x.revived /\ y.probeAge = x.probeAge
    BY <1>1, EnterStateKeeps, MarkActiveKeeps
  <2> HIDE DEF y
  <2>2. z \in PathObject /\ z.idle = 0 /\ z.revived = x.revived /\ z.probeAge = x.probeAge
    BY <2>1 DEF PathObject
  <2>3. HandlePathLatencyMessage(x) = z
    BY <1>3 DEF HandlePathLatencyMessage, y
  <2> HIDE DEF z
  <2>4. GoodPath(z)
    BY <2>2, Fields, Times DEF GoodPath, Heard, Noticed
  <2> QED BY <1>2, <2>2, <2>3, <2>4
<1>4. CASE ~x.probe
  <2>1. HandlePathLatencyMessage(x) = MarkActive(x)
    BY <1>4 DEF HandlePathLatencyMessage
  <2>2. GoodPath(MarkActive(x))
    BY MarkActiveKeeps, Fields, Times DEF GoodPath, Heard, Noticed
  <2> QED BY <1>2, <2>1, <2>2, MarkActiveKeeps
<1> QED BY <1>3, <1>4

\* Marking that a path has come back to life changes nothing else.
LEMMA RevivedKeeps ==
  ASSUME NEW x \in PathObject, NEW y \in PathObject, y.revived = x.revived
  PROVE  /\ Revived(x, y) \in PathObject
         /\ Revived(x, y).status = y.status
         /\ GoodPath(y) => GoodPath(Revived(x, y))
         /\ Expired(x) \/ x.revived => Expired(Revived(x, y)) \/ Revived(x, y).revived
<1> DEFINE b == y.revived \/ (Expired(x) /\ ~Expired(y))
           z == [y EXCEPT !.revived = b]
<1>1. b \in BOOLEAN
  OBVIOUS
<1>2. Revived(x, y) = z
  BY DEF Revived
<1> HIDE DEF b
<1>3. /\ z \in PathObject /\ z.status = y.status /\ z.idle = y.idle /\ z.age = y.age
      /\ z.probe = y.probe /\ z.probeAge = y.probeAge
  BY <1>1 DEF PathObject
<1>4. z.revived = b
  BY <1>1 DEF PathObject
<1> HIDE DEF z
<1>5. Expired(z) <=> Expired(y)
  BY <1>3 DEF Expired
<1>6. GoodPath(y) => GoodPath(z)
  BY <1>3 DEF GoodPath, Heard, Noticed
<1>7. Expired(x) \/ x.revived => Expired(z) \/ z.revived
  BY <1>4, <1>5 DEF b
<1> QED BY <1>2, <1>3, <1>6, <1>7

\* What a message does to a path (Handle).
Handled(x, what) ==
  CASE what = "confirm" -> HandlePathConfirmMessage(x)
    [] what = "fail" -> EnterState(x, "Failed")
    [] what = "latency" -> HandlePathLatencyMessage(x)
    [] what = "frame" -> MarkActive(x)
    [] what = "traffic" -> MarkActive(EnterState(x, "Established"))

LEMMA HandledKeeps ==
  ASSUME NEW x \in PathObject, NEW what \in Answers
  PROVE  /\ Handled(x, what) \in PathObject /\ Handled(x, what).revived = x.revived
         /\ GoodPath(x) => GoodPath(Handled(x, what))
<1>1. "Failed" \in Status /\ "Established" \in Status
  BY DEF Status
<1>2. CASE what = "confirm"
  BY <1>2, HandlersKeepGood DEF Handled
<1>3. CASE what = "fail"
  BY <1>1, <1>3, EnterStateKeeps DEF Handled, GoodPath, Heard, Noticed
<1>4. CASE what = "latency"
  BY <1>4, HandlersKeepGood DEF Handled
<1>5. CASE what = "frame"
  <2>1. Handled(x, what) = MarkActive(x)
    BY <1>5 DEF Handled
  <2> QED BY <2>1, MarkActiveKeeps, Fields, Times DEF GoodPath, Heard, Noticed
<1>6. CASE what = "traffic"
  <2> DEFINE y == EnterState(x, "Established")
  <2>1. y \in PathObject /\ y.revived = x.revived
    BY <1>1, EnterStateKeeps
  <2>2. Handled(x, what) = MarkActive(y)
    BY <1>6 DEF Handled
  <2> HIDE DEF y
  <2> QED BY <2>1, <2>2, MarkActiveKeeps, Fields, Times DEF GoodPath, Heard, Noticed
<1> QED BY <1>2, <1>3, <1>4, <1>5, <1>6 DEF Answers, StatusAnswers

\* The backoff stays within its limit (DoPathBuildBackoff).
LEMMA BackoffBounded ==
  ASSUME TypeOK, NEW n \in Nat
  PROVE  DoPathBuildBackoff(n) \in 0..MaxBuildInterval
<1>1. n * PATH_BUILD_RATE \in Nat
  BY TimeAssumption
<1> QED BY <1>1, TimeAssumption DEF DoPathBuildBackoff, Least, TypeOK

----------------------------------------------------------------------------
(* Types                                                                    *)

\* The type invariant, with the paths as PathObject.
LEMMA TypeSplit ==
  TypeOK <=>
    /\ path \in [Paths -> PathObject]
    /\ m_Paths \subseteq Paths /\ m_OurPaths \subseteq Paths
    /\ generating \subseteq Paths /\ sending \subseteq Paths /\ timers \subseteq Paths
    /\ answers \in [Paths -> SUBSET StatusAnswers]
    /\ posted \subseteq Paths \X Answers
    /\ stopped \in BOOLEAN
    /\ sinceBuild \in 0..MaxBuildInterval
    /\ buildIntervalLimit \in 0..MaxBuildInterval
BY DEF TypeOK, PathObject

\* What Build leaves of the paths and the answers the relays may send.
LEMMA BuildTypes ==
  ASSUME TypeOK, NEW fresh \in SUBSET Paths, NEW kept \in [Paths -> PathObject],
         Build(fresh, kept)
  PROVE  /\ path' \in [Paths -> PathObject] /\ generating' \subseteq Paths
         /\ answers' \in [Paths -> SUBSET StatusAnswers]
BY NewPathIsObject, TypeSplit DEF Build

\* The paths after a tick (the local definitions of RouterTick).
AgedPaths == [p \in Paths |-> Aged(path[p])]
Kept == {p \in m_Paths : ~Expired(AgedPaths[p])}
Ticked == [p \in Paths |-> IF p \in Kept THEN PathTick(AgedPaths[p]) ELSE AgedPaths[p]]

LEMMA TickedTypes ==
  ASSUME TypeOK
  PROVE  AgedPaths \in [Paths -> PathObject] /\ Ticked \in [Paths -> PathObject]
<1>1. path \in [Paths -> PathObject]
  BY TypeSplit
<1>2. AgedPaths \in [Paths -> PathObject]
  BY <1>1, AgedKeeps DEF AgedPaths
<1>3. Ticked \in [Paths -> PathObject]
  BY <1>2, PathTickKeeps DEF Ticked
<1> QED BY <1>2, <1>3

LEMMA TypeTick ==
  ASSUME TypeOK, NEW fresh \in SUBSET Paths, NEW attempted \in BOOLEAN,
         RouterTick(fresh, attempted)
  PROVE  TypeOK'
<1>1. /\ m_Paths' = Kept /\ Build(fresh, Ticked)
      /\ sinceBuild' = IF attempted THEN 0 ELSE Least(sinceBuild + 1, MaxBuildInterval)
      /\ timers' = timers \union {p \in Kept : ProbeDue(AgedPaths[p])}
      /\ buildIntervalLimit' =
           DoPathBuildBackoff(Cardinality({p \in Kept : BuildTimedOut(AgedPaths[p])}))
      /\ m_OurPaths' = ExpireOurPaths(Ticked)
      /\ UNCHANGED <<sending, posted, stopped>>
  BY DEF RouterTick, AgedPaths, Kept, Ticked
<1>2. /\ path' \in [Paths -> PathObject] /\ generating' \subseteq Paths
      /\ answers' \in [Paths -> SUBSET StatusAnswers]
  BY <1>1, TickedTypes, BuildTypes
<1>3. m_Paths' \subseteq Paths /\ m_OurPaths' \subseteq Paths /\ timers' \subseteq Paths
  BY <1>1, TypeSplit DEF Kept, ExpireOurPaths
<1>4. Cardinality({p \in Kept : BuildTimedOut(AgedPaths[p])}) \in Nat
  <2>1. {p \in Kept : BuildTimedOut(AgedPaths[p])} \subseteq Paths
    BY TypeSplit DEF Kept
  <2> QED BY <2>1, PathsAssumption, FS_Subset, FS_CardinalityType
<1>5. buildIntervalLimit' \in 0..MaxBuildInterval
  BY <1>1, <1>4, BackoffBounded
<1>6. sinceBuild' \in 0..MaxBuildInterval
  BY <1>1, TypeSplit, TimeAssumption DEF Least
<1> QED BY <1>1, <1>2, <1>3, <1>5, <1>6, TypeSplit DEF TypeOK, PathObject

LEMMA TypeStep ==
  ASSUME TypeOK, [Next]_vars
  PROVE  TypeOK'
<1>1. path \in [Paths -> PathObject]
  BY TypeSplit
<1>2. CASE TickWithoutBuild \/ TickRefused \/ TickAndBuild
  BY <1>2, TypeTick DEF TickWithoutBuild, TickRefused, TickAndBuild
<1>3. CASE ManualRebuild
  <2>1. PICK p \in Paths : Build({p}, path)
    BY <1>3 DEF ManualRebuild
  <2>2. /\ path' \in [Paths -> PathObject] /\ generating' \subseteq Paths
        /\ answers' \in [Paths -> SUBSET StatusAnswers]
    BY <1>1, <2>1, BuildTypes
  <2> QED BY <1>3, <2>2, TimeAssumption DEF ManualRebuild, TypeOK, PathObject
<1>4. CASE Stop
  <2>1. "Ignore" \in Status
    BY DEF Status
  <2>2. \A p \in Paths : Revived(path[p], EnterState(path[p], "Ignore")) \in PathObject
    BY <1>1, <2>1, EnterStateKeeps, RevivedKeeps
  <2>3. path' \in [Paths -> PathObject]
    BY <1>1, <1>4, <2>2 DEF Stop
  <2> QED BY <1>4, <2>3 DEF Stop, TypeOK, PathObject
<1>5. ASSUME NEW p \in Paths, PathBuilderKeysGenerated(p)
      PROVE  TypeOK'
  BY <1>5 DEF PathBuilderKeysGenerated, TypeOK, builderVars
<1>6. ASSUME NEW p \in Paths, sentHandler(p)
      PROVE  TypeOK'
  <2>1. "Failed" \in Status
    BY DEF Status
  <2>2. path' \in [Paths -> PathObject]
    BY <1>1, <1>6, <2>1, EnterStateKeeps DEF sentHandler
  <2> QED BY <1>6, <2>2 DEF sentHandler, TypeOK, PathObject, builderVars
<1>7. ASSUME NEW p \in Paths, LatencyFEC(p)
      PROVE  TypeOK'
  <2>1. path' \in [Paths -> PathObject]
    BY <1>1, <1>7, SendLatencyMessageKeeps DEF LatencyFEC
  <2> QED BY <1>7, <2>1 DEF LatencyFEC, TypeOK, PathObject, builderVars
<1>8. ASSUME NEW p \in Paths, NEW what \in Answers, Receive(p, what)
      PROVE  TypeOK'
  <2>1. path' \in [Paths -> PathObject]
    <3>1. CASE UNCHANGED path
      BY <1>1, <3>1
    <3>2. CASE /\ path[p].unanswered > 0
               /\ path' = [path EXCEPT ![p].unanswered = @ - 1]
      <4>1. path[p].unanswered - 1 \in 0..MaxProbes
        BY <1>1, <3>2, Fields, Times
      <4>2. [path[p] EXCEPT !.unanswered = @ - 1] \in PathObject
        BY <1>1, <4>1 DEF PathObject
      <4> QED BY <1>1, <3>2, <4>2
    <3> QED BY <1>8, <3>1, <3>2 DEF Receive
  <2>2. answers' \in [Paths -> SUBSET StatusAnswers]
    BY <1>8, TypeSplit DEF Receive
  <2>3. posted' \subseteq Paths \X Answers
    BY <1>8, TypeSplit DEF Receive
  <2> QED BY <1>8, <2>1, <2>2, <2>3 DEF Receive, TypeOK, PathObject, builderVars
<1>9. ASSUME NEW p \in Paths, NEW what \in Answers, Handle(p, what)
      PROVE  TypeOK'
  <2>1. path' = [path EXCEPT ![p] = Revived(@, Handled(@, what))]
    BY <1>9 DEF Handle, Handled
  <2>2. Revived(path[p], Handled(path[p], what)) \in PathObject
    BY <1>1, HandledKeeps, RevivedKeeps
  <2>3. path' \in [Paths -> PathObject]
    BY <1>1, <2>1, <2>2
  <2>4. DoPathBuildBackoff(1) \in 0..MaxBuildInterval
    BY BackoffBounded
  <2>5. buildIntervalLimit' \in 0..MaxBuildInterval
    BY <1>9, <2>4, TypeSplit, TimeAssumption DEF Handle
  <2> QED BY <1>9, <2>3, <2>5 DEF Handle, TypeOK, PathObject
<1>10. CASE UNCHANGED vars
  BY <1>10 DEF vars, TypeOK
<1> QED BY <1>2, <1>3, <1>4, <1>5, <1>6, <1>7, <1>8, <1>9, <1>10 DEF Next

LEMMA TypeInit == Init => TypeOK
<1> SUFFICES ASSUME Init PROVE TypeOK
  OBVIOUS
<1>1. path \in [Paths -> PathObject]
  BY NewPathIsObject DEF Init
<1>2. sinceBuild \in 0..MaxBuildInterval /\ buildIntervalLimit \in 0..MaxBuildInterval
  BY TimeAssumption DEF Init
<1> QED BY <1>1, <1>2, TypeSplit DEF Init

\* The states, clocks and counters of all paths, the maps and the backoff stay
\* within their types and limits.
THEOREM TypeCorrect == Spec => []TypeOK
<1>1. TypeOK /\ [Next]_vars => TypeOK'
  BY TypeStep
<1> QED BY <1>1, TypeInit, PTL DEF Spec

----------------------------------------------------------------------------
(* The invariant                                                            *)

\* A tick keeps the invariant.
LEMMA TickInv ==
  ASSUME IInv, NEW fresh \in SUBSET Paths, NEW attempted \in BOOLEAN,
         RouterTick(fresh, attempted)
  PROVE  NewInv' /\ MapsAgree' /\ HeardInv' /\ DeadPathNoticed'
<1> DEFINE types == /\ path \in [Paths -> PathObject] /\ m_Paths \subseteq Paths
                    /\ m_OurPaths \subseteq Paths /\ generating \subseteq Paths
<1>1. types
  BY TypeSplit DEF IInv
<1>2. /\ m_Paths' = Kept /\ Build(fresh, Ticked)
      /\ timers' = timers \union {p \in Kept : ProbeDue(AgedPaths[p])}
      /\ m_OurPaths' = {p \in m_OurPaths : ~Expired(Ticked[p])}
      /\ sending' = sending /\ posted' = posted
  BY DEF RouterTick, AgedPaths, Kept, Ticked, ExpireOurPaths
<1>3. /\ \A p \in fresh : Free(p)
      /\ generating' = generating \union fresh
      /\ \A p \in Paths : path'[p] = IF p \in fresh THEN NewPath ELSE Ticked[p]
  BY <1>2 DEF Build
<1>4. AgedPaths \in [Paths -> PathObject] /\ Ticked \in [Paths -> PathObject]
  BY TickedTypes DEF IInv
<1>5. Kept \subseteq m_Paths /\ m_OurPaths' \subseteq m_OurPaths
  BY <1>2 DEF Kept
<1>6. \A p \in Kept : p \notin fresh /\ path'[p] = PathTick(Aged(path[p]))
  BY <1>1, <1>3, <1>5 DEF Free, Ticked, AgedPaths
<1>7. HeardInv' /\ DeadPathNoticed'
  <2>1. \A p \in Kept : GoodPath(path[p])
    BY <1>5 DEF IInv, HeardInv, DeadPathNoticed, GoodPath, Noticed
  <2>2. \A p \in Kept : GoodPath(path'[p])
    BY <1>1, <1>5, <1>6, <2>1, TickKeepsGood
  <2> QED BY <1>2, <2>2 DEF HeardInv, DeadPathNoticed, GoodPath, Noticed, Heard
<1>8. MapsAgree'
  <2>1. ASSUME NEW p \in m_OurPaths, ~Expired(Ticked[p])
        PROVE  p \in Kept
    BY <1>1, <2>1 DEF IInv, MapsAgree, Kept, Ticked, AgedPaths
  <2>2. ASSUME NEW p \in Kept, p \notin m_OurPaths'
        PROVE  Expired(path'[p]) \/ path'[p].revived
    <3>1. CASE p \in m_OurPaths
      BY <1>1, <1>2, <1>3, <1>5, <1>6, <2>2, <3>1
    <3>2. CASE p \notin m_OurPaths
      <4>1. ~Expired(Aged(path[p]))
        BY <1>1, <1>5 DEF Kept, AgedPaths
      <4>2. path[p].revived
        BY <1>1, <1>5, <3>2, <4>1, AgedExpired DEF IInv, MapsAgree
      <4>3. PathTick(Aged(path[p])).revived = path[p].revived
        BY <1>1, <1>5, AgedKeeps, PathTickKeeps
      <4> QED BY <1>6, <4>2, <4>3
    <3> QED BY <3>1, <3>2
  <2> QED BY <1>2, <2>1, <2>2 DEF MapsAgree
<1>9. NewInv'
  <2>1. ASSUME NEW p \in fresh
        PROVE  /\ path'[p].status = "Building"
               /\ p \notin m_Paths' \union m_OurPaths' \union sending' \union timers'
               /\ \A what \in Answers : <<p, what>> \notin posted'
    BY <1>2, <1>3, <1>5, NewPathIsObject DEF Free
  <2>2. ASSUME NEW p \in generating, p \notin fresh
        PROVE  /\ path'[p].status = "Building"
               /\ p \notin m_Paths' \union m_OurPaths' \union sending' \union timers'
               /\ \A what \in Answers : <<p, what>> \notin posted'
    <3>1. /\ path[p].status = "Building"
          /\ p \notin m_Paths \union m_OurPaths \union sending \union timers
          /\ \A what \in Answers : <<p, what>> \notin posted
      BY DEF IInv, NewInv
    <3>2. path'[p] = Aged(path[p])
      BY <1>1, <1>3, <1>5, <2>2, <3>1 DEF Ticked, AgedPaths
    <3> QED BY <1>1, <1>2, <1>5, <3>1, <3>2, AgedKeeps
  <2> QED BY <1>3, <2>1, <2>2 DEF NewInv
<1> QED BY <1>7, <1>8, <1>9

\* What happens to one path that the builder knows of keeps the invariant when it
\* keeps the path good and does not revive it unnoticed.
LEMMA ChangeInv ==
  ASSUME IInv, NEW p \in Paths, NEW y \in PathObject,
         p \notin generating, path' = [path EXCEPT ![p] = y],
         GoodPath(path[p]) => GoodPath(y),
         Expired(path[p]) \/ path[p].revived => Expired(y) \/ y.revived,
         UNCHANGED <<m_Paths, m_OurPaths, generating>>,
         sending' \subseteq sending, timers' \subseteq timers, posted' \subseteq posted
  PROVE  NewInv' /\ MapsAgree' /\ HeardInv' /\ DeadPathNoticed'
<1>1. /\ path \in [Paths -> PathObject] /\ m_Paths \subseteq Paths
      /\ m_OurPaths \subseteq Paths /\ generating \subseteq Paths
  BY TypeSplit DEF IInv
<1>2. path'[p] = y /\ \A q \in Paths \ {p} : path'[q] = path[q]
  BY <1>1
<1>3. HeardInv' /\ DeadPathNoticed'
  <2>1. \A q \in m_Paths : GoodPath(path[q])
    BY DEF IInv, HeardInv, DeadPathNoticed, GoodPath, Noticed
  <2>2. \A q \in m_Paths : GoodPath(path'[q])
    BY <1>1, <1>2, <2>1
  <2> QED BY <2>2 DEF HeardInv, DeadPathNoticed, GoodPath, Noticed, Heard
<1>4. MapsAgree'
  BY <1>1, <1>2 DEF IInv, MapsAgree
<1>5. NewInv'
  BY <1>1, <1>2 DEF IInv, NewInv
<1> QED BY <1>3, <1>4, <1>5

LEMMA InvStep ==
  ASSUME IInv, [Next]_vars
  PROVE  IInv'
<1>1. /\ path \in [Paths -> PathObject] /\ m_Paths \subseteq Paths
      /\ m_OurPaths \subseteq Paths /\ generating \subseteq Paths
  BY TypeSplit DEF IInv
<1>2. TypeOK'
  BY TypeStep DEF IInv
<1> SUFFICES NewInv' /\ MapsAgree' /\ HeardInv' /\ DeadPathNoticed'
  BY <1>2 DEF IInv
<1>3. CASE TickWithoutBuild \/ TickRefused \/ TickAndBuild
  BY <1>3, TickInv DEF TickWithoutBuild, TickRefused, TickAndBuild
<1>4. CASE ManualRebuild
  <2>1. PICK p \in Paths : Build({p}, path)
    BY <1>4 DEF ManualRebuild
  <2>2. /\ Free(p) /\ generating' = generating \union {p} /\ path'[p] = NewPath
        /\ \A q \in Paths \ {p} : path'[q] = path[q]
    BY <2>1 DEF Build
  <2>3. UNCHANGED <<m_Paths, m_OurPaths, sending, posted, timers>>
    BY <1>4 DEF ManualRebuild
  <2>4. \A q \in m_Paths : path'[q] = path[q]
    BY <1>1, <2>2 DEF Free
  <2>5. MapsAgree' /\ HeardInv' /\ DeadPathNoticed'
    BY <2>3, <2>4 DEF IInv, MapsAgree, HeardInv, DeadPathNoticed, Heard
  <2>6. NewInv'
    BY <1>1, <2>2, <2>3, NewPathIsObject DEF IInv, NewInv, Free
  <2> QED BY <2>5, <2>6
<1>5. CASE Stop
  <2>1. "Ignore" \in Status
    BY DEF Status
  <2>2. UNCHANGED <<m_Paths, m_OurPaths, generating, sending, posted, timers>>
    BY <1>5 DEF Stop
  <2>3. ASSUME NEW p \in m_Paths
        PROVE  /\ GoodPath(path'[p])
               /\ Expired(path[p]) \/ path[p].revived => Expired(path'[p]) \/ path'[p].revived
    <3> DEFINE y == EnterState(path[p], "Ignore")
    <3>1. path'[p] = Revived(path[p], y)
      BY <1>1, <1>5 DEF Stop
    <3>2. y \in PathObject /\ y.revived = path[p].revived /\ GoodPath(y)
      BY <1>1, <2>1, EnterStateKeeps DEF GoodPath, Heard, Noticed
    <3> HIDE DEF y
    <3> QED BY <1>1, <3>1, <3>2, RevivedKeeps
  <2>4. \A p \in Paths \ m_Paths : path'[p] = path[p]
    BY <1>5 DEF Stop
  <2>5. HeardInv' /\ DeadPathNoticed'
    BY <2>2, <2>3 DEF HeardInv, DeadPathNoticed, GoodPath, Noticed, Heard
  <2>6. MapsAgree'
    BY <2>2, <2>3 DEF IInv, MapsAgree
  <2>7. NewInv'
    BY <1>1, <2>2, <2>4 DEF IInv, NewInv
  <2> QED BY <2>5, <2>6, <2>7
<1>6. ASSUME NEW p \in Paths, PathBuilderKeysGenerated(p)
      PROVE  NewInv' /\ MapsAgree' /\ HeardInv' /\ DeadPathNoticed'
  <2>1. path[p].status = "Building" /\ UNCHANGED <<path, posted, timers>>
    BY <1>6 DEF PathBuilderKeysGenerated, IInv, NewInv
  <2>2. GoodPath(path[p])
    BY <2>1 DEF GoodPath, Heard, Noticed
  <2>3. HeardInv' /\ DeadPathNoticed'
    BY <1>6, <2>1, <2>2
       DEF PathBuilderKeysGenerated, IInv, HeardInv, DeadPathNoticed, GoodPath, Noticed, Heard
  <2>4. MapsAgree'
    BY <1>6, <2>1 DEF PathBuilderKeysGenerated, IInv, MapsAgree
  <2>5. NewInv'
    BY <1>6, <2>1 DEF PathBuilderKeysGenerated, IInv, NewInv
  <2> QED BY <2>3, <2>4, <2>5
<1>7. ASSUME NEW p \in Paths, sentHandler(p)
      PROVE  NewInv' /\ MapsAgree' /\ HeardInv' /\ DeadPathNoticed'
  <2> DEFINE y == EnterState(path[p], "Failed")
  <2>1. "Failed" \in Status
    BY DEF Status
  <2>2. y \in PathObject /\ GoodPath(y) /\ Expired(y)
    BY <1>1, <2>1, EnterStateKeeps DEF GoodPath, Heard, Noticed, Expired
  <2>3. path' = [path EXCEPT ![p] = y] \/ path' = [path EXCEPT ![p] = path[p]]
    BY <1>1, <1>7 DEF sentHandler
  <2>4. /\ p \notin generating /\ UNCHANGED <<m_Paths, m_OurPaths, generating>>
        /\ sending' \subseteq sending /\ timers' \subseteq timers /\ posted' \subseteq posted
    BY <1>7 DEF sentHandler, IInv, NewInv
  <2> HIDE DEF y
  <2> QED BY <1>1, <2>2, <2>3, <2>4, ChangeInv
<1>8. ASSUME NEW p \in Paths, LatencyFEC(p)
      PROVE  NewInv' /\ MapsAgree' /\ HeardInv' /\ DeadPathNoticed'
  <2> DEFINE y == IF path[p].probe THEN SendLatencyMessage(path[p]) ELSE path[p]
  <2>1. y \in PathObject /\ (GoodPath(path[p]) => GoodPath(y))
    BY <1>1, SendLatencyMessageKeeps DEF GoodPath, Heard, Noticed
  <2>2. Expired(path[p]) \/ path[p].revived => Expired(y) \/ y.revived
    BY <1>1, SendLatencyMessageKeeps DEF Expired
  <2>3. path' = [path EXCEPT ![p] = y]
    BY <1>8 DEF LatencyFEC
  <2>4. /\ p \notin generating /\ UNCHANGED <<m_Paths, m_OurPaths, generating>>
        /\ sending' \subseteq sending /\ timers' \subseteq timers /\ posted' \subseteq posted
    BY <1>8 DEF LatencyFEC, IInv, NewInv
  <2> HIDE DEF y
  <2> QED BY <2>1, <2>2, <2>3, <2>4, ChangeInv
<1>9. ASSUME NEW p \in Paths, NEW what \in Answers, Receive(p, what)
      PROVE  NewInv' /\ MapsAgree' /\ HeardInv' /\ DeadPathNoticed'
  <2>1. \A q \in Paths : /\ path'[q].status = path[q].status /\ path'[q].idle = path[q].idle
                         /\ path'[q].age = path[q].age /\ path'[q].probe = path[q].probe
                         /\ path'[q].probeAge = path[q].probeAge
                         /\ path'[q].revived = path[q].revived
    <3>1. CASE UNCHANGED path
      BY <3>1
    <3>2. CASE path' = [path EXCEPT ![p].unanswered = @ - 1]
      BY <1>1, <3>2 DEF PathObject
    <3> QED BY <1>9, <3>1, <3>2 DEF Receive
  <2>2. /\ p \in m_OurPaths /\ posted' = posted \union {<<p, what>>}
        /\ UNCHANGED <<m_Paths, m_OurPaths, generating, sending, timers>>
    BY <1>9 DEF Receive
  <2>3. HeardInv' /\ DeadPathNoticed'
    BY <1>1, <2>1, <2>2 DEF IInv, HeardInv, Heard, DeadPathNoticed
  <2>4. MapsAgree'
    BY <1>1, <2>1, <2>2 DEF IInv, MapsAgree, Expired
  <2>5. NewInv'
    BY <1>1, <2>1, <2>2 DEF IInv, NewInv
  <2> QED BY <2>3, <2>4, <2>5
<1>10. ASSUME NEW p \in Paths, NEW what \in Answers, Handle(p, what)
       PROVE  NewInv' /\ MapsAgree' /\ HeardInv' /\ DeadPathNoticed'
  <2> DEFINE y == Revived(path[p], Handled(path[p], what))
  <2>1. path' = [path EXCEPT ![p] = y]
    BY <1>10 DEF Handle, Handled
  <2>2. /\ y \in PathObject /\ (GoodPath(path[p]) => GoodPath(y))
        /\ Expired(path[p]) \/ path[p].revived => Expired(y) \/ y.revived
    BY <1>1, HandledKeeps, RevivedKeeps
  <2>3. /\ p \notin generating /\ UNCHANGED <<m_Paths, m_OurPaths, generating>>
        /\ sending' \subseteq sending /\ timers' \subseteq timers /\ posted' \subseteq posted
    BY <1>10 DEF Handle, IInv, NewInv
  <2> HIDE DEF y
  <2> QED BY <2>1, <2>2, <2>3, ChangeInv
<1>11. CASE UNCHANGED vars
  BY <1>11 DEF vars, IInv, NewInv, MapsAgree, HeardInv, Heard, DeadPathNoticed
<1> QED BY <1>3, <1>4, <1>5, <1>6, <1>7, <1>8, <1>9, <1>10, <1>11 DEF Next

LEMMA InvInit == Init => IInv
BY TypeInit DEF Init, IInv, NewInv, MapsAgree, HeardInv, DeadPathNoticed

LEMMA Invariant == Spec => []IInv
<1>1. IInv /\ [Next]_vars => IInv'
  BY InvStep
<1> QED BY <1>1, InvInit, PTL DEF Spec

\* The path set and the path context agree on their paths: messages are delivered
\* to paths of the builder only, and a path of the builder that gets none has
\* expired, unless it was put into another state after that (PathSet::ExpirePaths,
\* PathContext::ExpirePaths, Path::EnterState).
THEOREM PathMapsAgree == Spec => []MapsAgree
<1>1. IInv => MapsAgree
  BY DEF IInv
<1> QED BY <1>1, Invariant, PTL

\* An established path has heard something within alive_timeout, although Path::Tick
\* returns before that check when it sends a latency message: whatever messages,
\* timers and ticks come in which order.
THEOREM NoDeadPathKept == Spec => []DeadPathNoticed
<1>1. IInv => DeadPathNoticed
  BY DEF IInv
<1> QED BY <1>1, Invariant, PTL

\* A stopped builder gets no further path, not even one whose keys were being
\* generated when it was stopped (PathBuilderKeysGenerated).
THEOREM StoppedStaysStopped == Spec => NoPathAfterStop
<1>1. [Next]_vars => [stopped => m_Paths' \subseteq m_Paths]_vars
  <2> SUFFICES ASSUME [Next]_vars, stopped
               PROVE  m_Paths' \subseteq m_Paths \/ UNCHANGED vars
    OBVIOUS
  <2>1. CASE TickWithoutBuild \/ TickRefused \/ TickAndBuild
    BY <2>1 DEF TickWithoutBuild, TickRefused, TickAndBuild, RouterTick
  <2>2. CASE ManualRebuild \/ Stop
    BY <2>2 DEF ManualRebuild, Stop
  <2>3. CASE \E p \in Paths : PathBuilderKeysGenerated(p) \/ sentHandler(p) \/ LatencyFEC(p)
    BY <2>3 DEF PathBuilderKeysGenerated, sentHandler, LatencyFEC
  <2>4. CASE \E p \in Paths : \E what \in Answers : Receive(p, what) \/ Handle(p, what)
    BY <2>4 DEF Receive, Handle
  <2> QED BY <2>1, <2>2, <2>3, <2>4 DEF Next
<1> QED BY <1>1, PTL DEF Spec, NoPathAfterStop
=============================================================================
