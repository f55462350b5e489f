---------------------------- MODULE ServicePaths ----------------------------
(***************************************************************************)
(* How a client endpoint obtains a conversation with one remote hidden     *)
(* service (llarp/service: Endpoint::EnsurePathToService, OnLookup, Tick   *)
(* and Pump; OutboundContext; SendContext; the endpoint's pending          *)
(* lookups).                                                               *)
(*                                                                         *)
(* A request leaves a hook in m_PendingServiceLookups and, unless the      *)
(* lookup filter holds the address, starts lookup jobs.  An answer creates *)
(* the outbound context, which aligns a path to one of the introductions   *)
(* of the introset it was given, sends its handshake over it and is then   *)
(* ready; the pump of a ready context calls the hooks.  The context        *)
(* refreshes its introset with lookup jobs of its own.                     *)
(*                                                                         *)
(* Times are left open: which intro expires last, when a lookup, a context *)
(* or the filter is past its time, and when a path is built or dies are    *)
(* choices of the step.  The whole state of the endpoint towards the one   *)
(* remote address is the record `ep`.                                      *)
(***************************************************************************)
EXTENDS Integers, FiniteSets, TLAPS

CONSTANTS
    Requests,   \* calls made by the endpoint's users
    Data,       \* those that come from SendToOrQueue
    Versions,   \* the introsets the service has published, oldest first
    Intros,     \* introductions
    IntroSets,  \* IntroSets[v]: the introductions of version v
    RouterOf,   \* the router an introduction is at
    Parallel,   \* most endpoint paths used for one round of lookups
    PerPath,    \* RequestsPerLookup
    MaxUpdates, \* bound: update lookups in flight
    MaxUpsets,  \* bound: what goes wrong with paths, intros and conversations
    NoIntro, NoContext

VARIABLE ep

Routers == {RouterOf[i] : i \in Intros}

(* What a lookup is answered with: an introset, one that is past its       *)
(* expiry, or nothing that decrypts.                                       *)
Nothing == [found |-> 0, expired |-> FALSE]
Answers == [found : Versions, expired : BOOLEAN] \cup {Nothing}

-----------------------------------------------------------------------------
(* The outbound context.                                                   *)

Contexts ==
    [ version : Versions, remote : Intros \cup {NoIntro}, next : Intros,
      paths : SUBSET Routers, exchange : {"none", "working", "sending", "failed", "sent"},
      key : BOOLEAN, markedBad : BOOLEAN, updating : BOOLEAN,
      readyHook : BOOLEAN, timer : BOOLEAN ]

NewContext(v, i, zero) ==
    [ version |-> v, remote |-> NoIntro, next |-> i, paths |-> {}, exchange |-> "none",
      key |-> FALSE, markedBad |-> FALSE, updating |-> FALSE,
      readyHook |-> TRUE, timer |-> zero ]

ASSUME Parameters ==
    /\ Versions \subseteq Nat \ {0} /\ \A v \in Versions : IntroSets[v] \subseteq Intros
    /\ NoIntro \notin Intros /\ NoContext \notin Contexts
    /\ Parallel \in Nat /\ PerPath \in Nat /\ MaxUpdates \in Nat /\ MaxUpsets \in Nat

IntroGenerated(c) == c.exchange # "none"
IntroSent(c) == c.exchange = "sent"
HasPathTo(c, i) == i # NoIntro /\ RouterOf[i] \in c.paths
ReadyToSend(c) == ~c.markedBad /\ IntroSent(c) /\ HasPathTo(c, c.remote)

(* x is the introduction that expires last among those not at r; NoIntro   *)
(* when it expires soon.                                                   *)
ShiftIntroRouter(c, r, x) ==
    IF x \in IntroSets[c.version] /\ RouterOf[x] # r THEN [c EXCEPT !.next = x] ELSE c

AsyncGenIntro(c) ==
    IF ~IntroGenerated(c) /\ HasPathTo(c, c.remote) THEN [c EXCEPT !.exchange = "working"] ELSE c

(* Also KeepAlive and SendPacketToRemote.                                  *)
AsyncEncryptAndSendTo(c, x) ==
    IF ~IntroSent(c) THEN AsyncGenIntro(c)
    ELSE IF c.remote # NoIntro /\ ~HasPathTo(c, c.remote)
         THEN ShiftIntroRouter(c, RouterOf[c.remote], x)
         ELSE c

SwapIntros(c, x) ==
    IF c.remote = c.next THEN c
    ELSE LET d == ShiftIntroRouter([c EXCEPT !.remote = c.next], RouterOf[c.next], x)
         IN  IF IntroGenerated(d) THEN d ELSE AsyncEncryptAndSendTo(d, x)

(* Mutant: an older introset is taken as well.                             *)
AnyIntroSet(c, a, x) ==
    LET d == [c EXCEPT !.updating = FALSE]
    IN  IF c.markedBad THEN c
        ELSE IF a.found = 0 \/ a.expired THEN d
        ELSE IF x \in IntroSets[a.found] THEN [d EXCEPT !.version = a.found, !.next = x]
             ELSE [d EXCEPT !.version = a.found]

OnIntroSetUpdate(c, a, x) ==
    LET d == [c EXCEPT !.updating = FALSE]
    IN  IF c.markedBad THEN c
        ELSE IF a.found = 0 \/ c.version > a.found \/ a.expired THEN d
        ELSE IF x \in IntroSets[a.found] THEN [d EXCEPT !.version = a.found, !.next = x]
             ELSE [d EXCEPT !.version = a.found]

-----------------------------------------------------------------------------
(* The endpoint.                                                           *)

HasContext == ep.ctx # NoContext
WithContext(s, c) == [s EXCEPT !.ctx = c]

(* Mutant: the hooks stay in the map when they are called.                 *)
InformAndKeep(s, ok) ==
    [s EXCEPT !.calls = [r \in Requests |-> IF r \in s.hooks THEN @[r] + 1 ELSE @[r]]]

(* Every hook of the address is called, and the first hook of data takes   *)
(* the pending traffic with it: into the context, or nowhere.              *)
InformPathToService(s, ok) ==
    LET taken == IF s.hooks \cap Data = {} THEN {} ELSE s.traffic
    IN  [s EXCEPT !.hooks = {},
                  !.calls = [r \in Requests |-> IF r \in s.hooks THEN @[r] + 1 ELSE @[r]],
                  !.traffic = @ \ taken,
                  !.sent = IF ok THEN [r \in Requests |-> IF r \in taken THEN @[r] + 1 ELSE @[r]]
                           ELSE @]

PendingForAddr(s) == s.lookups + s.updates + s.orphans

(* k: the endpoint paths the update goes out on, none if it is not due.    *)
UpdateIntroSet(s, k) ==
    IF s.ctx.updating \/ s.ctx.markedBad \/ k = 0 THEN s
    ELSE [s EXCEPT !.updates = @ + k, !.ctx.updating = TRUE]

UpdatePaths == {k \in 0..Parallel : ep.updates + k <= MaxUpdates}

(* What follows the lookups of a round that are over: the sessions hear of *)
(* the introset; a failure is told to the hooks when no lookup is left.    *)
OnLookup(s, a, i, x, zero) ==
    LET u == IF a.found = 0 \/ s.ctx = NoContext THEN s
             ELSE WithContext(s, OnIntroSetUpdate(s.ctx, a, x))
        t == IF u.ctx # NoContext /\ a.found # 0 /\ ~a.expired /\ ReadyToSend(u.ctx)
             THEN InformPathToService(u, TRUE) ELSE u
    IN  IF a.found = 0 \/ a.expired
        THEN IF PendingForAddr(t) = 0 THEN InformPathToService(t, FALSE) ELSE t
        ELSE IF t.ctx # NoContext THEN t
        ELSE WithContext(t, NewContext(a.found, i, zero))

Init ==
    ep = [ hooks |-> {}, calls |-> [r \in Requests |-> 0], traffic |-> {},
           sent |-> [r \in Requests |-> 0], asked |-> {}, filter |-> FALSE,
           lookups |-> 0, updates |-> 0, orphans |-> 0, ctx |-> NoContext,
           deadTimer |-> FALSE, upsets |-> 0 ]

(* One of the MaxUpsets.                                                   *)
Upset(s) == [s EXCEPT !.upsets = @ + 1]
Upsettable == ep.upsets < MaxUpsets

(* Mutant: the filter is asked before the hook is put.                     *)
FilterFirst(s, r, k) ==
    LET h == [s EXCEPT !.hooks = @ \cup {r}]
    IN  IF s.ctx # NoContext /\ ReadyToSend(s.ctx) THEN InformPathToService(h, TRUE)
        ELSE IF s.filter THEN s
        ELSE [h EXCEPT !.filter = TRUE, !.lookups = @ + k * PerPath]

EnsurePathToService(s, r, k) ==
    LET h == [s EXCEPT !.hooks = @ \cup {r}]
    IN  IF s.ctx # NoContext /\ ReadyToSend(s.ctx) THEN InformPathToService(h, TRUE)
        ELSE IF s.filter THEN h
        ELSE [h EXCEPT !.filter = TRUE, !.lookups = @ + k * PerPath]

(* A user asks for a path, over k paths of the endpoint.                   *)
EnsurePath(r, k) ==
    /\ r \notin ep.asked \cup Data
    /\ ep' = EnsurePathToService([ep EXCEPT !.asked = @ \cup {r}], r, k)

SendToOrQueue(r, k, x) ==
    /\ r \in Data \ ep.asked
    /\ LET s == [ep EXCEPT !.asked = @ \cup {r}]
       IN  ep' = IF HasContext /\ ReadyToSend(ep.ctx)
                 THEN [WithContext(s, AsyncEncryptAndSendTo(s.ctx, x)) EXCEPT !.sent[r] = @ + 1]
                 ELSE EnsurePathToService([s EXCEPT !.traffic = @ \cup {r}], r, k)

(* HandleGotIntroMessage for a lookup of a request.  TimeLeft is negative, *)
(* which never fires a timer, or zero.                                     *)
GotIntroForLookup(a, i, x, zero) ==
    /\ ep.lookups > 0
    /\ IF a.found = 0 \/ HasContext THEN i = NoIntro ELSE i \in IntroSets[a.found]
    /\ zero => Upsettable /\ i # NoIntro
    /\ ep' = OnLookup([(IF zero THEN Upset(ep) ELSE ep) EXCEPT !.lookups = @ - 1], a, i, x, zero)

GotIntroForUpdate(a, x) ==
    /\ ep.updates > 0
    /\ ep' = WithContext([ep EXCEPT !.updates = @ - 1], OnIntroSetUpdate(ep.ctx, a, x))

(* The answer to a lookup of a context that is gone and marked bad.        *)
GotIntroForDead ==
    /\ ep.orphans > 0
    /\ ep' = [ep EXCEPT !.orphans = @ - 1]

ReadyTimeout ==
    /\ HasContext /\ ep.ctx.timer
    /\ LET s == [ep EXCEPT !.ctx.timer = FALSE, !.ctx.readyHook = FALSE]
       IN  ep' = IF ep.ctx.readyHook THEN InformPathToService(s, FALSE) ELSE s

DeadReadyTimeout ==
    /\ ep.deadTimer
    /\ ep' = InformPathToService([ep EXCEPT !.deadTimer = FALSE], FALSE)

HandlePathBuilt(r, x) ==
    /\ HasContext /\ ~ep.ctx.markedBad
    /\ LET c == [ep.ctx EXCEPT !.paths = @ \cup {r}]
       IN  ep' = WithContext(ep, IF RouterOf[c.next] = r THEN SwapIntros(c, x) ELSE c)

(* The build of a path to r timed out, or failed at r itself.              *)
HandlePathBuildFailed(r, x) ==
    /\ HasContext /\ Upsettable
    /\ ep' = WithContext(Upset(ep), ShiftIntroRouter(ep.ctx, r, x))

(* A path to r went silent; last: it was the only one.                     *)
HandlePathDied(r, last, k, x) ==
    /\ HasContext /\ r \in ep.ctx.paths /\ Upsettable
    /\ LET s == UpdateIntroSet([Upset(ep) EXCEPT !.ctx.paths = IF last THEN @ \ {r} ELSE @], k)
           c == s.ctx
       IN  ep' = IF last /\ c.remote # NoIntro /\ RouterOf[c.remote] = r
                 THEN WithContext(s, ShiftIntroRouter(c, r, x)) ELSE s

(* A path that reaches the end of its lifetime is not reported.            *)
ExpirePaths(r) ==
    /\ HasContext /\ r \in ep.ctx.paths /\ Upsettable
    /\ ep' = [Upset(ep) EXCEPT !.ctx.paths = @ \ {r}]

(* The endpoint of the current introduction dropped what was sent to it.   *)
HandleDataDrop(old, new, k, x) ==
    /\ HasContext /\ IntroSent(ep.ctx) /\ HasPathTo(ep.ctx, ep.ctx.remote) /\ Upsettable
    /\ LET s == UpdateIntroSet(
                  WithContext(Upset(ep), ShiftIntroRouter([ep.ctx EXCEPT !.markedBad = old],
                                                   RouterOf[ep.ctx.remote], x)), k)
       IN  ep' = [WithContext(s, SwapIntros(s.ctx, x)) EXCEPT !.ctx.markedBad = new]

(* The worker's key exchange: the session key is cached, and the frame is  *)
(* queued unless the path is gone or the queue is full.                    *)
KeyExchangeDone(queued) ==
    /\ HasContext /\ ep.ctx.exchange = "working"
    /\ queued => HasPathTo(ep.ctx, ep.ctx.remote)
    /\ ep' = [ep EXCEPT !.ctx.key = TRUE,
                        !.ctx.exchange = IF queued THEN "sending" ELSE "failed"]

(* The timer set after the handshake was queued.                           *)
HandshakeSent ==
    /\ HasContext /\ ep.ctx.exchange = "sending"
    /\ ep' = [ep EXCEPT !.ctx.exchange = "sent"]

(* A frame from the remote that resets or does not belong to the           *)
(* conversation removes it.                                                *)
HandleHiddenServiceFrame ==
    /\ HasContext /\ IntroSent(ep.ctx) /\ ep.ctx.paths # {} /\ Upsettable
    /\ ep' = [Upset(ep) EXCEPT !.ctx.key = FALSE]

Fugged(c) == ReadyToSend(c) /\ ~c.key

(* The part of Pump before its verdict; y is where stale intros, a silent  *)
(* remote or a keepalive without a path shift the next introduction to.    *)
PumpContext(s, k, y) ==
    IF Fugged(s.ctx) THEN s
    ELSE LET u == IF k = 0 /\ y = NoIntro THEN s ELSE Upset(UpdateIntroSet(s, k))
             c == IF y \in IntroSets[u.ctx.version] THEN [u.ctx EXCEPT !.next = y] ELSE u.ctx
             t == WithContext(u, [c EXCEPT !.readyHook = @ /\ ~ReadyToSend(c)])
         IN  IF ReadyToSend(c) /\ c.readyHook THEN InformPathToService(t, TRUE) ELSE t

(* Endpoint::Pump ignores the verdict.                                     *)
Calm(k, y) == Upsettable \/ (k = 0 /\ y = NoIntro)

Pump(k, y) == HasContext /\ Calm(k, y) /\ ep' = PumpContext(ep, k, y)

(* Stop, and the move to m_DeadSessions.                                   *)
RemoveContext(s) ==
    [s EXCEPT !.ctx = NoContext, !.updates = 0, !.orphans = @ + s.updates,
              !.deadTimer = @ \/ (s.ctx.timer /\ s.ctx.readyHook)]

(* Mutant: timeouts are handled while the lookups are still in the map.    *)
ExpireInPlace(s, l, u, o) ==
    LET c == IF u = 0 THEN s ELSE WithContext(s, OnIntroSetUpdate(s.ctx, Nothing, NoIntro))
        t == IF l = 0 THEN c ELSE OnLookup(c, Nothing, NoIntro, NoIntro, FALSE)
    IN  [t EXCEPT !.lookups = @ - l, !.updates = @ - u, !.orphans = @ - o]

(* ExpirePendingTx removes every lookup past its time before it handles    *)
(* the timeouts: l of the requests, u of the context, o of dead ones.      *)
ExpirePendingTx(s, l, u, o) ==
    LET t == [s EXCEPT !.lookups = @ - l, !.updates = @ - u, !.orphans = @ - o]
        c == IF u = 0 THEN t ELSE WithContext(t, OnIntroSetUpdate(t.ctx, Nothing, NoIntro))
    IN  IF l = 0 THEN c ELSE OnLookup(c, Nothing, NoIntro, NoIntro, FALSE)

(* TickRemoteSessions: the context goes when its pump says so: its key is  *)
(* gone, a keepalive finds it marked bad, or its time is over.             *)
TickRemoteSessions(s, k, y, over) ==
    IF s.ctx = NoContext THEN s
    ELSE IF Fugged(s.ctx) \/ over THEN RemoveContext(PumpContext(s, k, y))
    ELSE PumpContext(s, k, y)

ExpireConvoSessions(s, idle) ==
    IF s.ctx # NoContext /\ idle THEN [Upset(s) EXCEPT !.ctx.key = FALSE] ELSE s

Tick(decay, l, u, o, k, y, over, idle) ==
    /\ l \in 0..ep.lookups /\ u \in 0..ep.updates /\ o \in 0..ep.orphans
    /\ Calm(k, y) /\ (idle => Upsettable /\ ~over)
    /\ \E s \in {ExpirePendingTx([ep EXCEPT !.filter = @ /\ ~decay], l, u, o)} :
       \E t \in {TickRemoteSessions(s, k, y, over)} : ep' = ExpireConvoSessions(t, idle)

-----------------------------------------------------------------------------
Choice == Intros \cup {NoIntro}

(* Choices that only matter to a context are not made without one.         *)
ContextChoice(S, none) == IF HasContext THEN S ELSE {none}
Shifts == ContextChoice(IF Upsettable THEN Choice ELSE {NoIntro}, NoIntro)
Updates == ContextChoice(IF Upsettable THEN UpdatePaths ELSE {0}, 0)

TickSome(L) ==
    \E decay \in {FALSE, ep.filter}, over \in ContextChoice(BOOLEAN, FALSE),
       idle \in ContextChoice(BOOLEAN, FALSE), l \in L, u \in 0..ep.updates,
       o \in 0..ep.orphans, k \in Updates, y \in Shifts : Tick(decay, l, u, o, k, y, over, idle)

PumpSome == \E k \in Updates, y \in Shifts : Pump(k, y)

Next ==
    \/ \E r \in Requests, k \in 0..Parallel : EnsurePath(r, k)
    \/ \E r \in Requests, k \in 0..Parallel, x \in Choice : SendToOrQueue(r, k, x)
    \/ \E a \in Answers, i \in Choice, x \in ContextChoice(Choice, NoIntro), zero \in BOOLEAN :
          GotIntroForLookup(a, i, x, zero)
    \/ \E a \in Answers, x \in Choice : GotIntroForUpdate(a, x)
    \/ GotIntroForDead
    \/ ReadyTimeout
    \/ DeadReadyTimeout
    \/ \E r \in Routers, x \in Choice : HandlePathBuilt(r, x)
    \/ \E r \in Routers, x \in Choice : HandlePathBuildFailed(r, x)
    \/ \E r \in Routers, last \in BOOLEAN, k \in UpdatePaths, x \in Choice :
          HandlePathDied(r, last, k, x)
    \/ \E r \in Routers : ExpirePaths(r)
    \/ \E old, new \in BOOLEAN, k \in UpdatePaths, x \in Choice : HandleDataDrop(old, new, k, x)
    \/ \E queued \in BOOLEAN : KeyExchangeDone(queued)
    \/ HandshakeSent
    \/ HandleHiddenServiceFrame
    \/ PumpSome
    \/ TickSome(0..ep.lookups)

(* Every lookup has a timeout and the endpoint ticks, so a round of        *)
(* lookups does not stay in flight (that the rest of the tick does nothing *)
(* is no more than that: any tick that ends the lookups disables this      *)
(* one).  The loop pumps.                                                  *)
LookupsExpire ==
    ep.lookups > 0 /\ Tick(FALSE, ep.lookups, 0, 0, 0, NoIntro, FALSE, FALSE)

CallReadyHooks == HasContext /\ ep.ctx.readyHook /\ ReadyToSend(ep.ctx) /\ Pump(0, NoIntro)

Fairness == WF_ep(LookupsExpire) /\ WF_ep(CallReadyHooks)
Spec == Init /\ [][Next]_ep /\ Fairness

-----------------------------------------------------------------------------
Endpoints ==
    [ hooks : SUBSET Requests, calls : [Requests -> Nat], traffic : SUBSET Requests,
      sent : [Requests -> Nat], asked : SUBSET Requests, filter : BOOLEAN,
      lookups : Nat, updates : Nat, orphans : Nat, ctx : Contexts \cup {NoContext},
      deadTimer : BOOLEAN, upsets : Nat ]

(* The update lookups that are counted belong to a context there is.       *)
Sound(s) == s \in Endpoints /\ (s.ctx = NoContext => s.updates = 0)

TypeOK == Sound(ep)

CalledOnce(s) ==
    \A r \in Requests :
        /\ s.calls[r] <= 1 /\ s.sent[r] <= 1
        /\ r \in s.hooks => s.calls[r] = 0
        /\ r \in s.traffic => s.sent[r] = 0

HasHook(s) == s.traffic # {} => s.hooks \cap Data # {}

(* A hook is called at most once, however its lookups, the context's pump, *)
(* the ready timers of live and of dead contexts and the expiry of the     *)
(* lookups interleave, and queued data is handed to a context at most      *)
(* once (InformPathToService, OnLookup, SendToOrQueue).                    *)
HookCalledOnce == CalledOnce(ep)

(* Data waiting in m_PendingTraffic is never left without a hook that will *)
(* take it along: whichever way the hooks are called, a later success      *)
(* cannot find old data that nobody asked a path for.                      *)
DataHasHook == HasHook(ep)

(* The hooks and the data queued behind them are kept track of together:   *)
(* each hook is called at most once, each datum is sent at most once, and  *)
(* none waits without a hook.                                              *)
HooksTracked == HookCalledOnce /\ DataHasHook

(* A context never goes back to an older introset, though the answers to   *)
(* its own updates and to the endpoint's lookups arrive in any order from  *)
(* routers that store different versions (OnIntroSetUpdate).               *)
NoOlderIntroSet ==
    [][ep.ctx # NoContext /\ ep'.ctx # NoContext => ep'.ctx.version >= ep.ctx.version]_ep

(* Requests whose lookups are in flight are told the outcome, or a context *)
(* is made for them: lookups that fail or time out one by one or together  *)
(* leave no hook behind.  Lookups of a dead context still in flight        *)
(* (orphans) are excluded: they count as pending and end without a call.   *)
LookupResolves ==
    (ep.hooks # {} /\ ep.lookups > 0 /\ ep.ctx = NoContext /\ ep.orphans = 0)
        ~> (ep.hooks = {} \/ ep.ctx # NoContext)

(* Every hook is called, with a context or with none ("passed a sendto     *)
(* context when we have a path established otherwise nullptr if the path   *)
(* was not made before the timeout", endpoint.hpp).                        *)
EveryHookTold == \A r \in Requests : r \in ep.hooks ~> ep.calls[r] > 0

-----------------------------------------------------------------------------
(* Theorems.  An endpoint record is sound; its hooks and data are tracked,  *)
(* and a request that was not made has neither; a step keeps both.          *)

Unasked(s) ==
    \A r \in Requests \ s.asked :
        r \notin s.hooks /\ r \notin s.traffic /\ s.calls[r] = 0 /\ s.sent[r] = 0

Tracked(s) == CalledOnce(s) /\ HasHook(s) /\ Unasked(s)

(* t is s with the same hooks and data.                                     *)
SameHooks(s, t) ==
    /\ t.hooks = s.hooks /\ t.calls = s.calls /\ t.traffic = s.traffic
    /\ t.sent = s.sent /\ t.asked = s.asked

NotOlder(s, t) ==
    s.ctx # NoContext /\ t.ctx # NoContext => t.ctx.version >= s.ctx.version

(* What a step from s to t must keep.                                       *)
Good(s, t) == Sound(t) /\ Tracked(t) /\ NotOlder(s, t)

(* A context keeps its type and its introset when it moves to another       *)
(* introduction (ShiftIntroRouter).                                         *)
LEMMA ShiftKeeps ==
    ASSUME NEW c \in Contexts, NEW r, NEW x
    PROVE  ShiftIntroRouter(c, r, x) \in Contexts /\ ShiftIntroRouter(c, r, x).version = c.version
<1>1. c.version \in Versions /\ IntroSets[c.version] \subseteq Intros
  BY Parameters DEF Contexts
<1> QED
  BY <1>1 DEF ShiftIntroRouter, Contexts

(* The same when it starts its handshake (AsyncGenIntro).                   *)
LEMMA GenIntroKeeps ==
    ASSUME NEW c \in Contexts
    PROVE  AsyncGenIntro(c) \in Contexts /\ AsyncGenIntro(c).version = c.version
BY DEF AsyncGenIntro, Contexts

(* The same when it sends (AsyncEncryptAndSendTo).                          *)
LEMMA SendKeeps ==
    ASSUME NEW c \in Contexts, NEW x
    PROVE  AsyncEncryptAndSendTo(c, x) \in Contexts /\ AsyncEncryptAndSendTo(c, x).version = c.version
BY ShiftKeeps, GenIntroKeeps DEF AsyncEncryptAndSendTo

(* The same when it takes the next introduction (SwapIntros).               *)
LEMMA SwapKeeps ==
    ASSUME NEW c \in Contexts, NEW x
    PROVE  SwapIntros(c, x) \in Contexts /\ SwapIntros(c, x).version = c.version
<1> DEFINE n == [c EXCEPT !.remote = c.next]
           d == ShiftIntroRouter(n, RouterOf[c.next], x)
<1>1. n \in Contexts /\ n.version = c.version
  BY DEF Contexts
<1>2. d \in Contexts /\ d.version = c.version
  BY <1>1, ShiftKeeps
<1>3. AsyncEncryptAndSendTo(d, x) \in Contexts /\ AsyncEncryptAndSendTo(d, x).version = c.version
  BY <1>2, SendKeeps
<1> HIDE DEF n
<1>4. SwapIntros(c, x) = IF c.remote = c.next THEN c
                         ELSE IF IntroGenerated(d) THEN d ELSE AsyncEncryptAndSendTo(d, x)
  BY DEF SwapIntros, n
<1> HIDE DEF d
<1> QED
  BY <1>2, <1>3, <1>4

(* An answer never takes a context back to an older introset                *)
(* (OnIntroSetUpdate).                                                      *)
LEMMA UpdateNotOlder ==
    ASSUME NEW c \in Contexts, NEW a \in Answers, NEW x
    PROVE  OnIntroSetUpdate(c, a, x) \in Contexts /\ OnIntroSetUpdate(c, a, x).version >= c.version
<1>1. c.version \in Versions /\ c.version \in Nat
  BY Parameters DEF Contexts
<1>2. a.found = 0 \/ (a.found \in Versions /\ a.found \in Nat)
  <2>1. CASE a = Nothing
    BY <2>1 DEF Nothing
  <2>2. CASE a \in [found : Versions, expired : BOOLEAN]
    BY <2>2, Parameters
  <2> QED
    BY <2>1, <2>2 DEF Answers
<1> DEFINE d == [c EXCEPT !.updating = FALSE]
           n == [d EXCEPT !.version = a.found, !.next = x]
           m == [d EXCEPT !.version = a.found]
<1>3. d \in Contexts /\ d.version = c.version
  BY DEF Contexts
<1>4. CASE c.markedBad = TRUE
  BY <1>1, <1>4 DEF OnIntroSetUpdate
<1>5. CASE c.markedBad # TRUE /\ (a.found = 0 \/ c.version > a.found \/ a.expired)
  <2>1. OnIntroSetUpdate(c, a, x) = d
    BY <1>5 DEF OnIntroSetUpdate, Contexts
  <2> QED
    BY <1>1, <1>3, <2>1
<1>6. CASE c.markedBad # TRUE /\ ~(a.found = 0 \/ c.version > a.found \/ a.expired)
  <2>1. a.found \in Versions /\ a.found \in Nat /\ a.found >= c.version
    BY <1>1, <1>2, <1>6
  <2>2. CASE x \in IntroSets[a.found]
    <3>1. x \in Intros
      BY <2>1, <2>2, Parameters
    <3>2. n \in Contexts /\ n.version = a.found
      BY <1>3, <2>1, <3>1 DEF Contexts
    <3>3. OnIntroSetUpdate(c, a, x) = n
      BY <1>6, <2>2 DEF OnIntroSetUpdate, Contexts
    <3> QED
      BY <2>1, <3>2, <3>3
  <2>3. CASE x \notin IntroSets[a.found]
    <3>1. m \in Contexts /\ m.version = a.found
      BY <1>3, <2>1 DEF Contexts
    <3>2. OnIntroSetUpdate(c, a, x) = m
      BY <1>6, <2>3 DEF OnIntroSetUpdate, Contexts
    <3> QED
      BY <2>1, <3>1, <3>2
  <2> QED
    BY <2>2, <2>3
<1> QED
  BY <1>4, <1>5, <1>6

(* Steps that leave hooks and data alone keep them tracked.                 *)
LEMMA SameHooksTracked ==
    ASSUME NEW s, NEW t, Tracked(s), SameHooks(s, t)
    PROVE  Tracked(t)
BY DEF Tracked, SameHooks, CalledOnce, HasHook, Unasked

(* Calling the hooks of the address takes the data with them, calls each    *)
(* once and leaves the context alone (InformPathToService).                 *)
LEMMA InformTracked ==
    ASSUME NEW s, Sound(s), Tracked(s), NEW ok
    PROVE  /\ Sound(InformPathToService(s, ok)) /\ Tracked(InformPathToService(s, ok))
           /\ InformPathToService(s, ok).ctx = s.ctx
           /\ InformPathToService(s, ok).updates = s.updates
<1> DEFINE taken == IF s.hooks \cap Data = {} THEN {} ELSE s.traffic
           calls == [r \in Requests |-> IF r \in s.hooks THEN s.calls[r] + 1 ELSE s.calls[r]]
           sent == IF ok THEN [r \in Requests |-> IF r \in taken THEN s.sent[r] + 1 ELSE s.sent[r]]
                   ELSE s.sent
           t == [s EXCEPT !.hooks = {}, !.calls = calls, !.traffic = s.traffic \ taken, !.sent = sent]
<1>1. taken = s.traffic
  BY DEF Tracked, HasHook
<1>2. s \in Endpoints
  BY DEF Sound
<1>3. calls \in [Requests -> Nat] /\ sent \in [Requests -> Nat]
  BY <1>2 DEF Endpoints
<1>4. InformPathToService(s, ok) = t
  BY DEF InformPathToService
<1> HIDE DEF taken, calls, sent
<1>5. /\ t \in Endpoints /\ t.hooks = {} /\ t.calls = calls /\ t.traffic = {} /\ t.sent = sent
      /\ t.asked = s.asked /\ t.ctx = s.ctx /\ t.updates = s.updates
  BY <1>1, <1>2, <1>3 DEF Endpoints
<1> HIDE DEF t
<1>6. Sound(t)
  BY <1>5 DEF Sound
<1>7. \A r \in Requests : calls[r] <= 1 /\ (r \notin s.asked => calls[r] = 0)
  BY <1>2 DEF Tracked, CalledOnce, Unasked, Endpoints, calls
<1>8. \A r \in Requests : sent[r] <= 1 /\ (r \notin s.asked => sent[r] = 0)
  BY <1>1, <1>2 DEF Tracked, CalledOnce, Unasked, Endpoints, sent
<1>9. Tracked(t)
  BY <1>5, <1>7, <1>8 DEF Tracked, CalledOnce, HasHook, Unasked
<1> QED
  BY <1>4, <1>5, <1>6, <1>9

(* Replacing the context by one that is not older keeps the rest.           *)
LEMMA ContextReplaced ==
    ASSUME NEW s, Sound(s), NEW c \in Contexts
    PROVE  /\ Sound(WithContext(s, c)) /\ SameHooks(s, WithContext(s, c))
           /\ WithContext(s, c).ctx = c /\ WithContext(s, c).updates = s.updates
BY Parameters DEF Sound, Endpoints, WithContext, SameHooks

(* The same for a context that starts an update of its introset.            *)
LEMMA UpdateKeeps ==
    ASSUME NEW s, Sound(s), s.ctx # NoContext, NEW k \in Nat
    PROVE  /\ Sound(UpdateIntroSet(s, k)) /\ SameHooks(s, UpdateIntroSet(s, k))
           /\ UpdateIntroSet(s, k).ctx \in Contexts
           /\ UpdateIntroSet(s, k).ctx.version = s.ctx.version
<1> DEFINE c == [s.ctx EXCEPT !.updating = TRUE]
           t == [s EXCEPT !.updates = s.updates + k, !.ctx = c]
<1>1. s \in Endpoints /\ s.ctx \in Contexts
  BY DEF Sound, Endpoints
<1>2. c \in Contexts /\ c.version = s.ctx.version
  BY <1>1 DEF Contexts
<1>3. UpdateIntroSet(s, k) = IF s.ctx.updating \/ s.ctx.markedBad \/ k = 0 THEN s ELSE t
  BY <1>1 DEF UpdateIntroSet, Endpoints
<1> HIDE DEF c
<1>4. t \in Endpoints /\ t.ctx = c /\ SameHooks(s, t)
  <2>1. s.updates + k \in Nat
    BY <1>1 DEF Endpoints
  <2> HIDE DEF c
  <2>2. t \in Endpoints
    BY <1>1, <1>2, <2>1 DEF Endpoints
  <2>3. t.ctx = c /\ SameHooks(s, t)
    BY <1>1 DEF Endpoints, SameHooks
  <2> QED
    BY <2>2, <2>3
<1>5. t.ctx # NoContext
  BY <1>2, <1>4, Parameters
<1> HIDE DEF t
<1>6. Sound(t)
  BY <1>4, <1>5 DEF Sound
<1>7. SameHooks(s, s)
  BY DEF SameHooks
<1> QED
  BY <1>1, <1>2, <1>3, <1>4, <1>6, <1>7

(* The context of a sound endpoint, and the number of its introset.         *)
LEMMA ContextOf ==
    ASSUME NEW s, Sound(s), s.ctx # NoContext
    PROVE  s.ctx \in Contexts /\ s.ctx.version \in Nat
BY Parameters DEF Sound, Endpoints, Contexts

(* Counting what goes wrong changes nothing else.                           *)
LEMMA UpsetKeeps ==
    ASSUME NEW s, Sound(s)
    PROVE  /\ Sound(Upset(s)) /\ SameHooks(s, Upset(s))
           /\ Upset(s).ctx = s.ctx /\ Upset(s).updates = s.updates
BY DEF Sound, Endpoints, Upset, SameHooks

(* A step that leaves hooks and data alone and ends with a context that is  *)
(* not older is good.                                                       *)
LEMMA KeepsGood ==
    ASSUME NEW s, NEW t, Sound(s), Tracked(s), Sound(t), SameHooks(s, t), NotOlder(s, t)
    PROVE  Good(s, t)
BY SameHooksTracked DEF Good

(* Replacing the context by one that is not older is good.                  *)
LEMMA ReplacedGood ==
    ASSUME NEW s, Sound(s), Tracked(s), s.ctx # NoContext,
           NEW c \in Contexts, c.version >= s.ctx.version
    PROVE  Good(s, WithContext(s, c))
BY ContextReplaced, SameHooksTracked DEF Good, NotOlder

(* What follows a lookup that is over keeps hooks and data tracked, and     *)
(* makes a context only where there is none (OnLookup).                     *)
LEMMA OnLookupGood ==
    ASSUME NEW s, Sound(s), Tracked(s), NEW a \in Answers, NEW i, NEW x, NEW zero \in BOOLEAN,
           a.found # 0 /\ s.ctx = NoContext => i \in Intros
    PROVE  Good(s, OnLookup(s, a, i, x, zero))
<1> DEFINE u == IF a.found = 0 \/ s.ctx = NoContext THEN s
                ELSE WithContext(s, OnIntroSetUpdate(s.ctx, a, x))
           t == IF u.ctx # NoContext /\ a.found # 0 /\ ~a.expired /\ ReadyToSend(u.ctx)
                THEN InformPathToService(u, TRUE) ELSE u
           o == IF a.found = 0 \/ a.expired
                THEN IF PendingForAddr(t) = 0 THEN InformPathToService(t, FALSE) ELSE t
                ELSE IF t.ctx # NoContext THEN t
                ELSE WithContext(t, NewContext(a.found, i, zero))
<1>1. OnLookup(s, a, i, x, zero) = o
  BY DEF OnLookup
<1>2. Good(s, u) /\ (u.ctx = NoContext <=> s.ctx = NoContext)
  <2>1. CASE a.found = 0 \/ s.ctx = NoContext
    <3>1. u = s
      BY <2>1
    <3>2. NotOlder(s, s)
      BY ContextOf DEF NotOlder
    <3> QED
      BY <3>1, <3>2 DEF Good
  <2>2. CASE ~(a.found = 0 \/ s.ctx = NoContext)
    <3>1. s.ctx \in Contexts
      BY <2>2, ContextOf
    <3>2. /\ OnIntroSetUpdate(s.ctx, a, x) \in Contexts
          /\ OnIntroSetUpdate(s.ctx, a, x).version >= s.ctx.version
      BY <3>1, UpdateNotOlder
    <3>3. u = WithContext(s, OnIntroSetUpdate(s.ctx, a, x))
      BY <2>2
    <3>4. u.ctx # NoContext
      BY <3>2, <3>3, ContextReplaced, Parameters
    <3> QED
      BY <2>2, <3>2, <3>3, <3>4, ReplacedGood
  <2> QED
    BY <2>1, <2>2
<1> HIDE DEF u
<1>3. Good(s, t) /\ t.ctx = u.ctx
  BY <1>2, InformTracked DEF Good, NotOlder
<1> HIDE DEF t
<1>4. Good(s, o)
  <2>1. CASE a.found = 0 \/ a.expired
    <3>1. o = IF PendingForAddr(t) = 0 THEN InformPathToService(t, FALSE) ELSE t
      BY <2>1
    <3> QED
      BY <1>3, <3>1, InformTracked DEF Good, NotOlder
  <2>2. CASE ~(a.found = 0 \/ a.expired) /\ t.ctx # NoContext
    BY <1>3, <2>2
  <2>3. CASE ~(a.found = 0 \/ a.expired) /\ t.ctx = NoContext
    <3>1. s.ctx = NoContext /\ i \in Intros
      BY <1>2, <1>3, <2>3
    <3>2. a.found \in Versions
      BY <2>3 DEF Answers, Nothing
    <3>3. NewContext(a.found, i, zero) \in Contexts
      BY <3>1, <3>2 DEF NewContext, Contexts
    <3>4. o = WithContext(t, NewContext(a.found, i, zero))
      BY <2>3
    <3> HIDE DEF o
    <3>5. Sound(o) /\ Tracked(o)
      <4>1. Sound(t) /\ Tracked(t)
        BY <1>3 DEF Good
      <4>2. Sound(o) /\ SameHooks(t, o)
        BY <4>1, <3>3, <3>4, ContextReplaced
      <4> QED
        BY <4>1, <4>2, SameHooksTracked
    <3> QED
      BY <3>1, <3>5 DEF Good, NotOlder
  <2> QED
    BY <2>1, <2>2, <2>3
<1> QED
  BY <1>1, <1>4

(* A request whose hook was put is told at once or starts lookups           *)
(* (EnsurePathToService).                                                   *)
LEMMA EnsureKeeps ==
    ASSUME NEW s, NEW r \in Requests, NEW k \in Nat,
           Sound([s EXCEPT !.hooks = @ \cup {r}]), Tracked([s EXCEPT !.hooks = @ \cup {r}]),
           [s EXCEPT !.hooks = @ \cup {r}].ctx = s.ctx
    PROVE  /\ Sound(EnsurePathToService(s, r, k)) /\ Tracked(EnsurePathToService(s, r, k))
           /\ EnsurePathToService(s, r, k).ctx = s.ctx
<1> DEFINE h == [s EXCEPT !.hooks = @ \cup {r}]
           n == [h EXCEPT !.filter = TRUE, !.lookups = h.lookups + k * PerPath]
<1>1. Sound(h) /\ Tracked(h) /\ h.ctx = s.ctx
  OBVIOUS
<1>2. EnsurePathToService(s, r, k) =
        IF s.ctx # NoContext /\ ReadyToSend(s.ctx) THEN InformPathToService(h, TRUE)
        ELSE IF s.filter THEN h ELSE n
  BY DEF EnsurePathToService
<1> HIDE DEF h
<1>3. h \in Endpoints /\ k * PerPath \in Nat
  BY <1>1, Parameters DEF Sound
<1>4. Sound(n) /\ SameHooks(h, n) /\ n.ctx = h.ctx
  <2>1. h.lookups + k * PerPath \in Nat
    BY <1>3 DEF Endpoints
  <2>2. n \in Endpoints
    BY <1>3, <2>1 DEF Endpoints
  <2>3. SameHooks(h, n) /\ n.ctx = h.ctx /\ n.updates = h.updates
    BY <1>3 DEF Endpoints, SameHooks
  <2> QED
    BY <1>1, <2>2, <2>3 DEF Sound
<1> HIDE DEF n
<1>5. Tracked(n)
  BY <1>1, <1>4, SameHooksTracked
<1>6. /\ Sound(InformPathToService(h, TRUE)) /\ Tracked(InformPathToService(h, TRUE))
      /\ InformPathToService(h, TRUE).ctx = h.ctx
  BY <1>1, InformTracked
<1>7. \/ EnsurePathToService(s, r, k) = InformPathToService(h, TRUE)
      \/ EnsurePathToService(s, r, k) = h
      \/ EnsurePathToService(s, r, k) = n
  BY <1>2
<1> QED
  BY <1>1, <1>4, <1>5, <1>6, <1>7

(* A request for a path is good (EnsurePath).                               *)
LEMMA EnsurePathGood ==
    ASSUME TypeOK, Tracked(ep), NEW r \in Requests, NEW k \in Nat, EnsurePath(r, k)
    PROVE  Good(ep, ep')
<1> DEFINE s == [ep EXCEPT !.asked = @ \cup {r}]
           h == [s EXCEPT !.hooks = @ \cup {r}]
<1>1. Sound(ep) /\ ep \in Endpoints
  BY DEF TypeOK, Sound
<1>2. r \notin ep.asked /\ ep' = EnsurePathToService(s, r, k)
  BY DEF EnsurePath
<1>3. s \in Endpoints /\ s.ctx = ep.ctx
  BY <1>1 DEF Endpoints
<1>4. h \in Endpoints
  BY <1>1 DEF Endpoints
<1>5. /\ h.hooks = ep.hooks \cup {r} /\ h.asked = ep.asked \cup {r} /\ h.ctx = ep.ctx
      /\ h.calls = ep.calls /\ h.sent = ep.sent /\ h.traffic = ep.traffic /\ h.updates = ep.updates
  BY <1>1 DEF Endpoints
<1>6. Sound(h)
  BY <1>1, <1>4, <1>5 DEF Sound
<1>7. Tracked(h)
  <2>1. CalledOnce(ep) /\ HasHook(ep) /\ Unasked(ep)
    BY DEF Tracked
  <2> HIDE DEF h
  <2>2. CalledOnce(h)
    BY <1>2, <1>5, <2>1 DEF CalledOnce, Unasked
  <2>3. HasHook(h)
    BY <1>5, <2>1 DEF HasHook
  <2>4. Unasked(h)
    BY <1>5, <2>1 DEF Unasked
  <2> QED
    BY <2>2, <2>3, <2>4 DEF Tracked
<1>8. h = [s EXCEPT !.hooks = @ \cup {r}] /\ h.ctx = s.ctx
  BY <1>3, <1>5
<1> HIDE DEF s, h
<1>9. Sound(ep') /\ Tracked(ep') /\ ep'.ctx = ep.ctx
  BY <1>2, <1>3, <1>6, <1>7, <1>8, EnsureKeeps
<1> QED
  BY <1>1, <1>9, ContextOf DEF Good, NotOlder

(* Data to send is sent at once over a ready context, or waits behind its   *)
(* own hook (SendToOrQueue).                                                *)
LEMMA SendToOrQueueGood ==
    ASSUME TypeOK, Tracked(ep), NEW r \in Requests, NEW k \in Nat, NEW x, SendToOrQueue(r, k, x)
    PROVE  Good(ep, ep')
<1> DEFINE s == [ep EXCEPT !.asked = @ \cup {r}]
<1>1. Sound(ep) /\ ep \in Endpoints /\ CalledOnce(ep) /\ HasHook(ep) /\ Unasked(ep)
  BY DEF TypeOK, Sound, Tracked
<1>2. /\ r \in Data /\ r \notin ep.asked
      /\ ep' = IF HasContext /\ ReadyToSend(ep.ctx)
               THEN [WithContext(s, AsyncEncryptAndSendTo(s.ctx, x)) EXCEPT !.sent[r] = @ + 1]
               ELSE EnsurePathToService([s EXCEPT !.traffic = @ \cup {r}], r, k)
  BY DEF SendToOrQueue
<1>3. /\ s \in Endpoints /\ s.hooks = ep.hooks /\ s.asked = ep.asked \cup {r} /\ s.ctx = ep.ctx
      /\ s.calls = ep.calls /\ s.sent = ep.sent /\ s.traffic = ep.traffic /\ s.updates = ep.updates
  BY <1>1 DEF Endpoints
<1> HIDE DEF s
<1>4. CASE HasContext /\ ReadyToSend(ep.ctx)
  <2> DEFINE c == AsyncEncryptAndSendTo(s.ctx, x)
             w == WithContext(s, c)
             n == [w.sent EXCEPT ![r] = w.sent[r] + 1]
             t == [w EXCEPT !.sent = n]
  <2>1. s.ctx \in Contexts /\ Sound(s)
    BY <1>1, <1>3, <1>4, ContextOf DEF HasContext, Sound
  <2>2. c \in Contexts /\ c.version = ep.ctx.version
    BY <1>3, <2>1, SendKeeps
  <2> HIDE DEF c
  <2>3. Sound(w) /\ SameHooks(s, w) /\ w.ctx = c
    BY <2>1, <2>2, ContextReplaced
  <2> HIDE DEF w
  <2>4. w \in Endpoints /\ w.sent \in [Requests -> Nat]
    BY <2>3 DEF Sound, Endpoints
  <2>5. ep' = t
    BY <1>2, <1>4, <2>4 DEF w, c, Endpoints
  <2>6. n \in [Requests -> Nat] /\ n[r] = w.sent[r] + 1 /\ \A q \in Requests : q # r => n[q] = w.sent[q]
    BY <2>4
  <2> HIDE DEF n
  <2>7. /\ t \in Endpoints /\ t.sent = n /\ t.ctx = c /\ t.updates = w.updates /\ t.hooks = ep.hooks
        /\ t.calls = ep.calls /\ t.traffic = ep.traffic /\ t.asked = ep.asked \cup {r}
    BY <1>3, <2>3, <2>4, <2>6 DEF Endpoints, SameHooks
  <2> HIDE DEF t
  <2>8. Sound(t)
    BY <2>3, <2>7 DEF Sound
  <2>9. w.sent = ep.sent
    BY <1>3, <2>3 DEF SameHooks
  <2>10. ep.sent[r] = 0 /\ r \notin ep.traffic
    BY <1>1, <1>2 DEF Unasked
  <2>11. CalledOnce(t)
    BY <1>1, <2>6, <2>7, <2>9, <2>10 DEF CalledOnce
  <2>12. HasHook(t)
    BY <1>1, <2>7 DEF HasHook
  <2>13. Unasked(t)
    BY <1>1, <2>6, <2>7, <2>9 DEF Unasked
  <2>14. c.version >= ep.ctx.version
    BY <1>1, <1>4, <2>2, ContextOf DEF HasContext
  <2> QED
    BY <2>5, <2>7, <2>8, <2>11, <2>12, <2>13, <2>14 DEF Good, Tracked, NotOlder
<1>5. CASE ~(HasContext /\ ReadyToSend(ep.ctx))
  <2> DEFINE q == [s EXCEPT !.traffic = @ \cup {r}]
             h == [q EXCEPT !.hooks = @ \cup {r}]
  <2>1. ep' = EnsurePathToService(q, r, k)
    BY <1>2, <1>5
  <2>2. q \in Endpoints /\ q.ctx = ep.ctx
    BY <1>3 DEF Endpoints
  <2>3. h \in Endpoints
    BY <1>3 DEF Endpoints
  <2>4. /\ h.hooks = ep.hooks \cup {r} /\ h.asked = ep.asked \cup {r} /\ h.ctx = ep.ctx
        /\ h.calls = ep.calls /\ h.sent = ep.sent /\ h.traffic = ep.traffic \cup {r}
        /\ h.updates = ep.updates
    BY <1>3 DEF Endpoints
  <2>5. h = [q EXCEPT !.hooks = @ \cup {r}] /\ h.ctx = q.ctx
    BY <2>2, <2>4
  <2> HIDE DEF q, h
  <2>6. Sound(h)
    BY <1>1, <2>3, <2>4 DEF Sound
  <2>7. CalledOnce(h)
    BY <1>1, <1>2, <2>4 DEF CalledOnce, Unasked
  <2>8. HasHook(h)
    BY <1>2, <2>4 DEF HasHook
  <2>9. Unasked(h)
    BY <1>1, <2>4 DEF Unasked
  <2>10. Sound(ep') /\ Tracked(ep') /\ ep'.ctx = ep.ctx
    BY <2>1, <2>2, <2>5, <2>6, <2>7, <2>8, <2>9, EnsureKeeps DEF Tracked
  <2> QED
    BY <1>1, <2>10, ContextOf DEF Good, NotOlder
<1> QED
  BY <1>4, <1>5


(* Good steps may start from a state with the same context.                 *)
LEMMA SameContextGood ==
    ASSUME NEW s, NEW t, NEW u, Good(t, u), t.ctx = s.ctx
    PROVE  Good(s, u)
BY DEF Good, NotOlder

(* An answer to a lookup of a request is good (HandleGotIntroMessage).      *)
LEMMA GotIntroForLookupGood ==
    ASSUME TypeOK, Tracked(ep), NEW a \in Answers, NEW i, NEW x, NEW zero \in BOOLEAN,
           GotIntroForLookup(a, i, x, zero)
    PROVE  Good(ep, ep')
<1> DEFINE b == IF zero THEN Upset(ep) ELSE ep
           s == [b EXCEPT !.lookups = b.lookups - 1]
<1>1. Sound(ep) /\ ep.lookups > 0 /\ ep \in Endpoints
  BY DEF TypeOK, GotIntroForLookup, Sound
<1>2. Sound(b) /\ SameHooks(ep, b) /\ b.ctx = ep.ctx /\ b.lookups = ep.lookups
  <2>1. Upset(ep).lookups = ep.lookups
    BY <1>1 DEF Upset, Endpoints
  <2>2. SameHooks(ep, ep)
    BY DEF SameHooks
  <2> QED
    BY <1>1, <2>1, <2>2, UpsetKeeps
<1>3. ep' = OnLookup(s, a, i, x, zero)
  BY DEF GotIntroForLookup
<1> HIDE DEF b
<1>4. Sound(s) /\ SameHooks(b, s) /\ s.ctx = b.ctx
  <2>1. b \in Endpoints /\ b.lookups - 1 \in Nat
    BY <1>1, <1>2 DEF Sound, Endpoints
  <2>2. s \in Endpoints
    BY <2>1 DEF Endpoints
  <2>3. SameHooks(b, s) /\ s.ctx = b.ctx /\ s.updates = b.updates
    BY <2>1 DEF Endpoints, SameHooks
  <2> QED
    BY <1>2, <2>2, <2>3 DEF Sound
<1> HIDE DEF s
<1>5. Tracked(s)
  BY <1>2, <1>4, SameHooksTracked
<1>6. ASSUME a.found # 0, s.ctx = NoContext
      PROVE  i \in Intros
  <2>1. i \in IntroSets[a.found]
    BY <1>2, <1>4, <1>6 DEF GotIntroForLookup, HasContext
  <2>2. a.found \in Versions
    BY <1>6 DEF Answers, Nothing
  <2> QED
    BY <2>1, <2>2, Parameters
<1>7. Good(s, ep')
  BY <1>3, <1>4, <1>5, <1>6, OnLookupGood
<1> QED
  BY <1>2, <1>4, <1>7, SameContextGood

(* An answer to an update of the context is good.                           *)
LEMMA GotIntroForUpdateGood ==
    ASSUME TypeOK, Tracked(ep), NEW a \in Answers, NEW x, GotIntroForUpdate(a, x)
    PROVE  Good(ep, ep')
<1> DEFINE s == [ep EXCEPT !.updates = ep.updates - 1]
<1>1. Sound(ep) /\ ep \in Endpoints /\ ep.updates > 0 /\ ep.ctx # NoContext
  BY DEF TypeOK, GotIntroForUpdate, Sound
<1>2. ep.updates - 1 \in Nat
  BY <1>1 DEF Endpoints
<1>3. s \in Endpoints
  BY <1>1, <1>2 DEF Endpoints
<1>4. SameHooks(ep, s) /\ s.ctx = ep.ctx
  BY <1>1 DEF Endpoints, SameHooks
<1>5. ep' = WithContext(s, OnIntroSetUpdate(s.ctx, a, x))
  BY <1>4 DEF GotIntroForUpdate
<1> HIDE DEF s
<1>6. Sound(s) /\ Tracked(s) /\ s.ctx # NoContext
  BY <1>1, <1>3, <1>4, SameHooksTracked DEF Sound
<1>7. s.ctx \in Contexts
  BY <1>6, ContextOf
<1>8. Good(s, ep')
  BY <1>5, <1>6, <1>7, UpdateNotOlder, ReplacedGood
<1> QED
  BY <1>4, <1>8, SameContextGood

(* An answer for a context that is gone is good.                            *)
LEMMA GotIntroForDeadGood ==
    ASSUME TypeOK, Tracked(ep), GotIntroForDead
    PROVE  Good(ep, ep')
<1>1. Sound(ep) /\ ep \in Endpoints /\ ep.orphans - 1 \in Nat /\ ep' = [ep EXCEPT !.orphans = ep.orphans - 1]
  BY DEF TypeOK, GotIntroForDead, Sound, Endpoints
<1>2. ep' \in Endpoints
  BY <1>1 DEF Endpoints
<1>3. SameHooks(ep, ep') /\ ep'.ctx = ep.ctx /\ ep'.updates = ep.updates
  BY <1>1 DEF Endpoints, SameHooks
<1>4. Sound(ep')
  BY <1>1, <1>2, <1>3 DEF Sound
<1> QED
  BY <1>1, <1>3, <1>4, SameHooksTracked, ContextOf DEF Good, NotOlder

(* The timer of a ready hook is good, of a live context and of a dead one.  *)
LEMMA TimeoutsGood ==
    ASSUME TypeOK, Tracked(ep), ReadyTimeout \/ DeadReadyTimeout
    PROVE  Good(ep, ep')
<1>1. Sound(ep) /\ ep \in Endpoints
  BY DEF TypeOK, Sound
<1>2. CASE ReadyTimeout
  <2> DEFINE c == [ep.ctx EXCEPT !.timer = FALSE, !.readyHook = FALSE]
             s == [ep EXCEPT !.ctx.timer = FALSE, !.ctx.readyHook = FALSE]
  <2>1. ep.ctx # NoContext /\ ep.ctx \in Contexts
    BY <1>1, <1>2, ContextOf DEF ReadyTimeout, HasContext
  <2>2. c \in Contexts /\ c.version = ep.ctx.version
    BY <2>1 DEF Contexts
  <2>3. s = WithContext(ep, c)
    BY <1>1, <2>1 DEF WithContext, Endpoints
  <2>4. ep' = InformPathToService(s, FALSE) \/ ep' = s
    BY <1>2 DEF ReadyTimeout
  <2> HIDE DEF c, s
  <2>5. Good(ep, s)
    BY <1>1, <2>1, <2>2, <2>3, ReplacedGood, ContextOf
  <2> QED
    BY <2>4, <2>5, InformTracked DEF Good, NotOlder
<1>3. CASE DeadReadyTimeout
  <2> DEFINE s == [ep EXCEPT !.deadTimer = FALSE]
  <2>1. s \in Endpoints /\ SameHooks(ep, s) /\ s.ctx = ep.ctx /\ s.updates = ep.updates
    BY <1>1 DEF Endpoints, SameHooks
  <2>2. ep' = InformPathToService(s, FALSE)
    BY <1>3 DEF DeadReadyTimeout
  <2> HIDE DEF s
  <2>3. Sound(s) /\ Tracked(s)
    BY <1>1, <2>1, SameHooksTracked DEF Sound
  <2>4. Sound(ep') /\ Tracked(ep') /\ ep'.ctx = ep.ctx
    BY <2>1, <2>2, <2>3, InformTracked
  <2> QED
    BY <1>1, <2>4, ContextOf DEF Good, NotOlder
<1> QED
  BY <1>2, <1>3

(* Counting what goes wrong, or nothing, is good.                           *)
LEMMA StartsGood ==
    ASSUME NEW s, Sound(s), Tracked(s)
    PROVE  Good(s, s) /\ Good(s, Upset(s)) /\ Upset(s).ctx = s.ctx
<1>1. /\ Sound(Upset(s)) /\ SameHooks(s, Upset(s))
      /\ Upset(s).ctx = s.ctx /\ Upset(s).updates = s.updates
  BY UpsetKeeps
<1>2. Tracked(Upset(s))
  BY <1>1, SameHooksTracked
<1>3. NotOlder(s, s)
  BY ContextOf DEF NotOlder
<1> QED
  BY <1>1, <1>2, <1>3 DEF Good, NotOlder

(* After a good step the context may be replaced by one that is not older.  *)
LEMMA ThenReplaced ==
    ASSUME NEW s, NEW t, Sound(s), Good(s, t), s.ctx # NoContext, t.ctx # NoContext,
           NEW c \in Contexts, c.version >= t.ctx.version
    PROVE  /\ Good(s, WithContext(t, c)) /\ WithContext(t, c).ctx = c
           /\ WithContext(t, c).ctx # NoContext
<1>1. Sound(t) /\ Tracked(t) /\ t.ctx.version >= s.ctx.version
  BY DEF Good, NotOlder
<1>2. /\ Sound(WithContext(t, c)) /\ SameHooks(t, WithContext(t, c))
      /\ WithContext(t, c).ctx = c
  BY <1>1, ContextReplaced
<1>3. Tracked(WithContext(t, c))
  BY <1>1, <1>2, SameHooksTracked
<1>4. s.ctx.version \in Nat /\ t.ctx.version \in Nat
  BY <1>1, ContextOf
<1>5. c.version \in Nat /\ c # NoContext
  BY Parameters DEF Contexts
<1>6. c.version >= s.ctx.version
  BY <1>1, <1>4, <1>5
<1> QED
  BY <1>2, <1>3, <1>5, <1>6 DEF Good, NotOlder

(* After a good step the context may start an update.                       *)
LEMMA ThenUpdates ==
    ASSUME NEW s, NEW t, Sound(s), Good(s, t), t.ctx # NoContext, NEW k \in Nat
    PROVE  /\ Good(s, UpdateIntroSet(t, k)) /\ UpdateIntroSet(t, k).ctx \in Contexts
           /\ UpdateIntroSet(t, k).ctx # NoContext
<1>1. Sound(t) /\ Tracked(t) /\ NotOlder(s, t)
  BY DEF Good
<1>2. /\ Sound(UpdateIntroSet(t, k)) /\ SameHooks(t, UpdateIntroSet(t, k))
      /\ UpdateIntroSet(t, k).ctx \in Contexts
      /\ UpdateIntroSet(t, k).ctx.version = t.ctx.version
  BY <1>1, UpdateKeeps
<1>3. Tracked(UpdateIntroSet(t, k))
  BY <1>1, <1>2, SameHooksTracked
<1> QED
  BY <1>1, <1>2, <1>3, Parameters DEF Good, NotOlder

(* A context has its version to itself.                                     *)
LEMMA SameVersion ==
    ASSUME NEW c \in Contexts, NEW d, d.version = c.version
    PROVE  d.version >= c.version
<1>1. c.version \in Nat
  BY Parameters DEF Contexts
<1> QED
  BY <1>1

(* Paths that are built or fail to be built are good (HandlePathBuilt,      *)
(* HandlePathBuildFailed), and so is one that expires (ExpirePaths).        *)
LEMMA PathsGood ==
    ASSUME TypeOK, Tracked(ep), NEW r \in Routers, NEW x,
           HandlePathBuilt(r, x) \/ HandlePathBuildFailed(r, x) \/ ExpirePaths(r)
    PROVE  Good(ep, ep')
<1>1. Sound(ep) /\ ep \in Endpoints /\ ep.ctx # NoContext
  BY DEF TypeOK, Sound, HandlePathBuilt, HandlePathBuildFailed, ExpirePaths, HasContext
<1>2. ep.ctx \in Contexts
  BY <1>1, ContextOf
<1>3. Good(ep, ep) /\ Good(ep, Upset(ep)) /\ Upset(ep).ctx = ep.ctx
  BY <1>1, StartsGood
<1>4. CASE HandlePathBuilt(r, x)
  <2> DEFINE c == [ep.ctx EXCEPT !.paths = @ \cup {r}]
             d == IF RouterOf[c.next] = r THEN SwapIntros(c, x) ELSE c
  <2>1. c \in Contexts /\ c.version = ep.ctx.version
    BY <1>2 DEF Contexts
  <2>2. ep' = WithContext(ep, d)
    BY <1>4 DEF HandlePathBuilt
  <2> HIDE DEF c
  <2>3. d \in Contexts /\ d.version = ep.ctx.version
    BY <2>1, SwapKeeps
  <2> HIDE DEF d
  <2>4. d.version >= ep.ctx.version
    BY <1>2, <2>3, SameVersion
  <2> QED
    BY <1>1, <1>3, <2>2, <2>3, <2>4, ThenReplaced
<1>5. CASE HandlePathBuildFailed(r, x)
  <2> DEFINE d == ShiftIntroRouter(ep.ctx, r, x)
  <2>1. ep' = WithContext(Upset(ep), d)
    BY <1>5 DEF HandlePathBuildFailed
  <2>2. d \in Contexts /\ d.version = ep.ctx.version
    BY <1>2, ShiftKeeps
  <2> HIDE DEF d
  <2>3. d.version >= Upset(ep).ctx.version
    BY <1>2, <1>3, <2>2, SameVersion
  <2> QED
    BY <1>1, <1>3, <2>1, <2>2, <2>3, ThenReplaced
<1>6. CASE ExpirePaths(r)
  <2> DEFINE d == [ep.ctx EXCEPT !.paths = @ \ {r}]
             u == Upset(ep)
  <2>1. ep' = [u EXCEPT !.ctx.paths = @ \ {r}]
    BY <1>6 DEF ExpirePaths
  <2>2. d \in Contexts /\ d.version = ep.ctx.version
    BY <1>2 DEF Contexts
  <2> HIDE DEF u
  <2>3. ep' = WithContext(u, d)
    BY <1>3, <2>1 DEF WithContext, u
  <2> HIDE DEF d
  <2>4. d.version >= u.ctx.version
    BY <1>2, <1>3, <2>2, SameVersion DEF u
  <2> QED
    BY <1>1, <1>3, <2>2, <2>3, <2>4, ThenReplaced DEF u
<1> QED
  BY <1>4, <1>5, <1>6

(* A path that died is good (HandlePathDied).                               *)
LEMMA PathDiedGood ==
    ASSUME TypeOK, Tracked(ep), NEW r \in Routers, NEW last \in BOOLEAN, NEW k \in Nat, NEW x,
           HandlePathDied(r, last, k, x)
    PROVE  Good(ep, ep')
<1> DEFINE u == Upset(ep)
           d == [ep.ctx EXCEPT !.paths = IF last THEN @ \ {r} ELSE @]
           w == [u EXCEPT !.ctx.paths = IF last THEN @ \ {r} ELSE @]
           s == UpdateIntroSet(w, k)
<1>1. Sound(ep) /\ ep.ctx # NoContext
  BY DEF TypeOK, HandlePathDied, HasContext
<1>2. ep.ctx \in Contexts
  BY <1>1, ContextOf
<1>3. Good(ep, u) /\ u.ctx = ep.ctx
  BY <1>1, StartsGood
<1>4. \/ ep' = s
      \/ ep' = WithContext(s, ShiftIntroRouter(s.ctx, r, x))
  BY DEF HandlePathDied
<1> HIDE DEF u
<1>5. w = WithContext(u, d)
  BY <1>3 DEF WithContext
<1>6. d \in Contexts /\ d.version = ep.ctx.version
  BY <1>2 DEF Contexts
<1> HIDE DEF d
<1>7. d.version >= u.ctx.version
  BY <1>2, <1>3, <1>6, SameVersion
<1> HIDE DEF w
<1>8. Good(ep, w) /\ w.ctx # NoContext
  BY <1>1, <1>3, <1>5, <1>6, <1>7, ThenReplaced
<1>9. Good(ep, s) /\ s.ctx \in Contexts /\ s.ctx # NoContext
  BY <1>1, <1>8, ThenUpdates
<1> HIDE DEF s
<1>10. /\ ShiftIntroRouter(s.ctx, r, x) \in Contexts
       /\ ShiftIntroRouter(s.ctx, r, x).version >= s.ctx.version
  BY <1>9, ShiftKeeps, SameVersion
<1>11. Good(ep, WithContext(s, ShiftIntroRouter(s.ctx, r, x)))
  BY <1>1, <1>9, <1>10, ThenReplaced
<1> QED
  BY <1>4, <1>9, <1>11

(* Data the remote dropped is good (HandleDataDrop).                        *)
LEMMA DataDropGood ==
    ASSUME TypeOK, Tracked(ep), NEW old \in BOOLEAN, NEW new \in BOOLEAN, NEW k \in Nat, NEW x,
           HandleDataDrop(old, new, k, x)
    PROVE  Good(ep, ep')
<1> DEFINE u == Upset(ep)
           m == [ep.ctx EXCEPT !.markedBad = old]
           d == ShiftIntroRouter(m, RouterOf[ep.ctx.remote], x)
           w == WithContext(u, d)
           s == UpdateIntroSet(w, k)
           c == SwapIntros(s.ctx, x)
           v == WithContext(s, c)
           n == [c EXCEPT !.markedBad = new]
<1>1. Sound(ep) /\ ep.ctx # NoContext
  BY DEF TypeOK, HandleDataDrop, HasContext
<1>2. ep.ctx \in Contexts
  BY <1>1, ContextOf
<1>3. Good(ep, u) /\ u.ctx = ep.ctx
  BY <1>1, StartsGood
<1>4. ep' = [v EXCEPT !.ctx.markedBad = new]
  BY DEF HandleDataDrop
<1> HIDE DEF u
<1>5. m \in Contexts /\ m.version = ep.ctx.version
  BY <1>2 DEF Contexts
<1> HIDE DEF m
<1>6. d \in Contexts /\ d.version = ep.ctx.version
  BY <1>5, ShiftKeeps
<1> HIDE DEF d
<1>7. d.version >= u.ctx.version
  BY <1>2, <1>3, <1>6, SameVersion
<1>8. Good(ep, w) /\ w.ctx # NoContext
  BY <1>1, <1>3, <1>6, <1>7, ThenReplaced
<1> HIDE DEF w
<1>9. Good(ep, s) /\ s.ctx \in Contexts /\ s.ctx # NoContext
  BY <1>1, <1>8, ThenUpdates
<1> HIDE DEF s
<1>10. c \in Contexts /\ c.version >= s.ctx.version
  BY <1>9, SwapKeeps, SameVersion
<1> HIDE DEF c
<1>11. Good(ep, v) /\ v.ctx = c /\ v.ctx # NoContext
  BY <1>1, <1>9, <1>10, ThenReplaced
<1> HIDE DEF v
<1>12. n \in Contexts /\ n.version = c.version
  BY <1>10 DEF Contexts
<1>13. ep' = WithContext(v, n)
  BY <1>4, <1>11 DEF WithContext
<1> HIDE DEF n
<1>14. n.version >= v.ctx.version
  BY <1>10, <1>11, <1>12, SameVersion
<1> QED
  BY <1>1, <1>11, <1>12, <1>13, <1>14, ThenReplaced

(* The handshake's steps and a reset of the conversation are good           *)
(* (KeyExchangeDone, HandshakeSent, HandleHiddenServiceFrame).              *)
LEMMA HandshakeGood ==
    ASSUME TypeOK, Tracked(ep),
           \/ \E queued \in BOOLEAN : KeyExchangeDone(queued)
           \/ HandshakeSent
           \/ HandleHiddenServiceFrame
    PROVE  Good(ep, ep')
<1>1. Sound(ep) /\ ep.ctx # NoContext
  BY DEF TypeOK, KeyExchangeDone, HandshakeSent, HandleHiddenServiceFrame, HasContext
<1>2. ep.ctx \in Contexts
  BY <1>1, ContextOf
<1>3. Good(ep, ep) /\ Good(ep, Upset(ep)) /\ Upset(ep).ctx = ep.ctx
  BY <1>1, StartsGood
<1>4. ASSUME NEW queued \in BOOLEAN, KeyExchangeDone(queued)
      PROVE  Good(ep, ep')
  <2> DEFINE d == [ep.ctx EXCEPT !.key = TRUE, !.exchange = IF queued THEN "sending" ELSE "failed"]
  <2>1. ep' = WithContext(ep, d)
    BY <1>4 DEF KeyExchangeDone, WithContext
  <2>2. d \in Contexts /\ d.version = ep.ctx.version
    BY <1>2 DEF Contexts
  <2> HIDE DEF d
  <2>3. d.version >= ep.ctx.version
    BY <1>2, <2>2, SameVersion
  <2> QED
    BY <1>1, <1>3, <2>1, <2>2, <2>3, ThenReplaced
<1>5. CASE HandshakeSent
  <2> DEFINE d == [ep.ctx EXCEPT !.exchange = "sent"]
  <2>1. ep' = WithContext(ep, d)
    BY <1>5 DEF HandshakeSent, WithContext
  <2>2. d \in Contexts /\ d.version = ep.ctx.version
    BY <1>2 DEF Contexts
  <2> HIDE DEF d
  <2>3. d.version >= ep.ctx.version
    BY <1>2, <2>2, SameVersion
  <2> QED
    BY <1>1, <1>3, <2>1, <2>2, <2>3, ThenReplaced
<1>6. CASE HandleHiddenServiceFrame
  <2> DEFINE d == [ep.ctx EXCEPT !.key = FALSE]
             u == Upset(ep)
  <2>1. ep' = [u EXCEPT !.ctx.key = FALSE]
    BY <1>6 DEF HandleHiddenServiceFrame
  <2> HIDE DEF u
  <2>2. ep' = WithContext(u, d)
    BY <1>3, <2>1 DEF WithContext, u
  <2>3. d \in Contexts /\ d.version = ep.ctx.version
    BY <1>2 DEF Contexts
  <2> HIDE DEF d
  <2>4. d.version >= u.ctx.version
    BY <1>2, <1>3, <2>3, SameVersion DEF u
  <2> QED
    BY <1>1, <1>3, <2>2, <2>3, <2>4, ThenReplaced DEF u
<1> QED
  BY <1>4, <1>5, <1>6

(* A pump of the context is good, and keeps it (OutboundContext::Pump).     *)
LEMMA PumpGood ==
    ASSUME NEW s, Sound(s), Tracked(s), s.ctx # NoContext, NEW k \in Nat, NEW y
    PROVE  Good(s, PumpContext(s, k, y)) /\ PumpContext(s, k, y).ctx # NoContext
<1> DEFINE u == IF k = 0 /\ y = NoIntro THEN s ELSE Upset(UpdateIntroSet(s, k))
           c == IF y \in IntroSets[u.ctx.version] THEN [u.ctx EXCEPT !.next = y] ELSE u.ctx
           d == [c EXCEPT !.readyHook = @ /\ ~ReadyToSend(c)]
           t == WithContext(u, d)
<1>1. Good(s, s)
  BY StartsGood
<1>2. Good(s, u) /\ u.ctx # NoContext
  <2>1. Good(s, UpdateIntroSet(s, k)) /\ UpdateIntroSet(s, k).ctx # NoContext
    BY <1>1, ThenUpdates
  <2>2. Sound(UpdateIntroSet(s, k)) /\ Tracked(UpdateIntroSet(s, k))
    BY <2>1 DEF Good
  <2>3. /\ Good(UpdateIntroSet(s, k), Upset(UpdateIntroSet(s, k)))
        /\ Upset(UpdateIntroSet(s, k)).ctx = UpdateIntroSet(s, k).ctx
    BY <2>2, StartsGood
  <2>4. Good(s, Upset(UpdateIntroSet(s, k))) /\ Upset(UpdateIntroSet(s, k)).ctx # NoContext
    BY <2>1, <2>3 DEF Good, NotOlder
  <2> QED
    BY <1>1, <2>4
<1>3. PumpContext(s, k, y) = IF Fugged(s.ctx) THEN s
                             ELSE IF ReadyToSend(c) /\ c.readyHook
                                  THEN InformPathToService(t, TRUE) ELSE t
  BY DEF PumpContext
<1> HIDE DEF u
<1>4. u.ctx \in Contexts
  BY <1>2, ContextOf DEF Good
<1>5. c \in Contexts /\ c.version = u.ctx.version
  <2>1. u.ctx.version \in Versions /\ IntroSets[u.ctx.version] \subseteq Intros
    BY <1>4, Parameters DEF Contexts
  <2> QED
    BY <1>4, <2>1 DEF Contexts
<1> HIDE DEF c
<1>6. d \in Contexts /\ d.version = u.ctx.version
  BY <1>5 DEF Contexts, ReadyToSend
<1> HIDE DEF d
<1>7. Good(s, t) /\ t.ctx # NoContext
  BY <1>2, <1>4, <1>6, SameVersion, ThenReplaced
<1> HIDE DEF t
<1>8. Good(s, InformPathToService(t, TRUE)) /\ InformPathToService(t, TRUE).ctx # NoContext
  BY <1>7, InformTracked DEF Good, NotOlder
<1> QED
  BY <1>1, <1>3, <1>7, <1>8

(* Good steps follow each other, if a context that is gone stays gone.      *)
LEMMA GoodThen ==
    ASSUME NEW s, NEW t, NEW u, Sound(s), Good(s, t), Good(t, u),
           t.ctx = NoContext => u.ctx = NoContext
    PROVE  Good(s, u)
<1>1. Sound(t) /\ Sound(u) /\ Tracked(u)
  BY DEF Good
<1>2. ASSUME s.ctx # NoContext, u.ctx # NoContext
      PROVE  u.ctx.version >= s.ctx.version
  <2>1. t.ctx # NoContext
    BY <1>2
  <2>2. s.ctx.version \in Nat /\ t.ctx.version \in Nat /\ u.ctx.version \in Nat
    BY <1>1, <1>2, <2>1, ContextOf
  <2>3. t.ctx.version >= s.ctx.version /\ u.ctx.version >= t.ctx.version
    BY <1>2, <2>1 DEF Good, NotOlder
  <2> QED
    BY <2>2, <2>3
<1> QED
  BY <1>1, <1>2 DEF Good, NotOlder

(* The context that is moved to m_DeadSessions takes no hook along.         *)
LEMMA RemoveGood ==
    ASSUME NEW s, Sound(s), Tracked(s), s.ctx # NoContext
    PROVE  Good(s, RemoveContext(s)) /\ RemoveContext(s).ctx = NoContext
<1> DEFINE dead == s.deadTimer \/ (s.ctx.timer /\ s.ctx.readyHook)
           t == [s EXCEPT !.ctx = NoContext, !.updates = 0, !.orphans = s.orphans + s.updates,
                          !.deadTimer = dead]
<1>1. s \in Endpoints /\ s.ctx \in Contexts
  BY ContextOf DEF Sound
<1>2. dead \in BOOLEAN /\ s.orphans + s.updates \in Nat
  BY <1>1 DEF Endpoints, Contexts
<1>3. RemoveContext(s) = t
  BY DEF RemoveContext
<1> HIDE DEF dead
<1>4. t \in Endpoints
  BY <1>1, <1>2 DEF Endpoints
<1>5. SameHooks(s, t) /\ t.ctx = NoContext /\ t.updates = 0
  BY <1>1 DEF Endpoints, SameHooks
<1> HIDE DEF t
<1>6. Sound(t) /\ Tracked(t)
  BY <1>4, <1>5, SameHooksTracked DEF Sound
<1> QED
  BY <1>3, <1>5, <1>6 DEF Good, NotOlder

(* The lookups past their time are good (ExpirePendingTx).                  *)
LEMMA ExpireGood ==
    ASSUME NEW s, Sound(s), Tracked(s),
           NEW l \in 0 .. s.lookups, NEW u \in 0 .. s.updates, NEW o \in 0 .. s.orphans
    PROVE  Good(s, ExpirePendingTx(s, l, u, o))
<1> DEFINE t == [s EXCEPT !.lookups = s.lookups - l, !.updates = s.updates - u, !.orphans = s.orphans - o]
           n == OnIntroSetUpdate(t.ctx, Nothing, NoIntro)
           c == IF u = 0 THEN t ELSE WithContext(t, n)
<1>1. s \in Endpoints /\ (s.ctx = NoContext => s.updates = 0)
  BY DEF Sound
<1>2. s.lookups - l \in Nat /\ s.updates - u \in Nat /\ s.orphans - o \in Nat
  BY <1>1 DEF Endpoints
<1>3. t \in Endpoints
  BY <1>1, <1>2 DEF Endpoints
<1>4. SameHooks(s, t) /\ t.ctx = s.ctx /\ t.updates = s.updates - u
  BY <1>1 DEF Endpoints, SameHooks
<1>5. u # 0 => s.ctx # NoContext
  BY <1>1 DEF Endpoints
<1>6. s.ctx = NoContext => t.updates = 0
  BY <1>1, <1>4, <1>5
<1>7. ExpirePendingTx(s, l, u, o) =
        IF l = 0 THEN c ELSE OnLookup(c, Nothing, NoIntro, NoIntro, FALSE)
  BY DEF ExpirePendingTx
<1> HIDE DEF t
<1>8. Sound(t) /\ Tracked(t)
  BY <1>3, <1>4, <1>6, SameHooksTracked DEF Sound
<1>9. Good(t, c) /\ (t.ctx = NoContext => c.ctx = NoContext)
  <2>1. CASE u = 0
    BY <1>8, <2>1, StartsGood
  <2>2. CASE u # 0
    <3>1. t.ctx # NoContext /\ t.ctx \in Contexts
      BY <1>4, <1>5, <1>8, <2>2, ContextOf
    <3>2. Nothing \in Answers
      BY DEF Answers
    <3>3. n \in Contexts /\ n.version >= t.ctx.version
      BY <3>1, <3>2, UpdateNotOlder
    <3> HIDE DEF n
    <3> QED
      BY <1>8, <2>2, <3>1, <3>3, ReplacedGood
  <2> QED
    BY <2>1, <2>2
<1> HIDE DEF c, n
<1>10. Good(t, ExpirePendingTx(s, l, u, o))
  <2>1. CASE l = 0
    BY <1>7, <1>9, <2>1
  <2>2. CASE l # 0
    <3>1. Nothing \in Answers /\ Nothing.found = 0
      BY DEF Answers, Nothing
    <3>2. Sound(c) /\ Tracked(c)
      BY <1>9 DEF Good
    <3>3. Good(c, OnLookup(c, Nothing, NoIntro, NoIntro, FALSE))
      BY <3>1, <3>2, OnLookupGood
    <3>4. c.ctx = NoContext => OnLookup(c, Nothing, NoIntro, NoIntro, FALSE).ctx = NoContext
      BY <3>1, <3>2, InformTracked DEF OnLookup
    <3> QED
      BY <1>7, <1>8, <1>9, <2>2, <3>3, <3>4, GoodThen
  <2> QED
    BY <2>1, <2>2
<1> QED
  BY <1>4, <1>10, SameContextGood

(* The tick of the sessions is good, and makes no context                   *)
(* (TickRemoteSessions).                                                    *)
LEMMA TickSessionsGood ==
    ASSUME NEW s, Sound(s), Tracked(s), NEW k \in Nat, NEW y, NEW over
    PROVE  /\ Good(s, TickRemoteSessions(s, k, y, over))
           /\ s.ctx = NoContext => TickRemoteSessions(s, k, y, over).ctx = NoContext
<1> DEFINE p == PumpContext(s, k, y)
<1>1. CASE s.ctx = NoContext
  BY <1>1, StartsGood DEF TickRemoteSessions
<1>2. CASE s.ctx # NoContext
  <2>1. Good(s, p)
    BY <1>2, PumpGood
  <2>2. TickRemoteSessions(s, k, y, over) = IF Fugged(s.ctx) \/ over THEN RemoveContext(p) ELSE p
    BY <1>2 DEF TickRemoteSessions
  <2>3. p.ctx # NoContext
    BY <1>2, PumpGood
  <2> HIDE DEF p
  <2>4. Sound(p) /\ Tracked(p)
    BY <2>1 DEF Good
  <2>5. Good(p, RemoveContext(p)) /\ RemoveContext(p).ctx = NoContext
    BY <2>3, <2>4, RemoveGood
  <2>6. Good(s, RemoveContext(p))
    BY <2>1, <2>3, <2>5, GoodThen
  <2> QED
    BY <1>2, <2>1, <2>2, <2>6
<1> QED
  BY <1>1, <1>2

(* A conversation that was idle for too long is good (ExpireConvoSessions). *)
LEMMA ExpireConvoGood ==
    ASSUME NEW s, Sound(s), Tracked(s), NEW idle
    PROVE  /\ Good(s, ExpireConvoSessions(s, idle))
           /\ s.ctx = NoContext => ExpireConvoSessions(s, idle).ctx = NoContext
<1> DEFINE u == Upset(s)
           d == [s.ctx EXCEPT !.key = FALSE]
<1>1. Good(s, s) /\ Good(s, u) /\ u.ctx = s.ctx
  BY StartsGood
<1>2. ExpireConvoSessions(s, idle) =
        IF s.ctx # NoContext /\ idle THEN [u EXCEPT !.ctx.key = FALSE] ELSE s
  BY DEF ExpireConvoSessions
<1> HIDE DEF u
<1>3. CASE s.ctx # NoContext /\ idle
  <2>1. s.ctx \in Contexts
    BY <1>3, ContextOf
  <2>2. d \in Contexts /\ d.version = s.ctx.version
    BY <2>1 DEF Contexts
  <2>3. ExpireConvoSessions(s, idle) = WithContext(u, d)
    BY <1>1, <1>2, <1>3 DEF WithContext
  <2> HIDE DEF d
  <2>4. d.version >= u.ctx.version
    BY <1>1, <2>1, <2>2, SameVersion
  <2> QED
    BY <1>1, <1>3, <2>2, <2>3, <2>4, ThenReplaced
<1>4. CASE ~(s.ctx # NoContext /\ idle)
  BY <1>1, <1>2, <1>4
<1> QED
  BY <1>3, <1>4

(* The endpoint's tick is good (Endpoint::Tick).                            *)
LEMMA TickGood ==
    ASSUME TypeOK, Tracked(ep), NEW decay, NEW l, NEW u, NEW o, NEW k \in Nat, NEW y,
           NEW over, NEW idle, Tick(decay, l, u, o, k, y, over, idle)
    PROVE  Good(ep, ep')
<1> DEFINE f == [ep EXCEPT !.filter = @ /\ ~decay]
           s == ExpirePendingTx(f, l, u, o)
           t == TickRemoteSessions(s, k, y, over)
<1>1. Sound(ep) /\ ep \in Endpoints
  BY DEF TypeOK, Sound
<1>2. /\ l \in 0 .. ep.lookups /\ u \in 0 .. ep.updates /\ o \in 0 .. ep.orphans
      /\ ep' = ExpireConvoSessions(t, idle)
  BY DEF Tick
<1>3. f \in Endpoints
  <2>1. (ep.filter /\ ~decay) \in BOOLEAN
    OBVIOUS
  <2> QED
    BY <1>1, <2>1 DEF Endpoints
<1>4. /\ SameHooks(ep, f) /\ f.ctx = ep.ctx /\ f.updates = ep.updates
      /\ f.lookups = ep.lookups /\ f.orphans = ep.orphans
  BY <1>1 DEF Endpoints, SameHooks
<1> HIDE DEF f
<1>5. Sound(f) /\ Tracked(f)
  BY <1>1, <1>3, <1>4, SameHooksTracked DEF Sound
<1>6. Good(f, s)
  BY <1>2, <1>4, <1>5, ExpireGood
<1> HIDE DEF s
<1>7. Sound(s) /\ Tracked(s)
  BY <1>6 DEF Good
<1>8. Good(s, t) /\ (s.ctx = NoContext => t.ctx = NoContext)
  BY <1>7, TickSessionsGood
<1> HIDE DEF t
<1>9. Sound(t) /\ Tracked(t)
  BY <1>8 DEF Good
<1>10. Good(t, ep') /\ (t.ctx = NoContext => ep'.ctx = NoContext)
  BY <1>2, <1>9, ExpireConvoGood
<1>11. Good(f, ep')
  BY <1>5, <1>6, <1>8, <1>10, GoodThen
<1> QED
  BY <1>4, <1>11, SameContextGood

(* Every step of the endpoint is good.                                      *)
LEMMA NextGood ==
    ASSUME TypeOK, Tracked(ep), Next
    PROVE  Good(ep, ep')
<1>1. Parallel \in Nat /\ 0 .. Parallel \subseteq Nat /\ UpdatePaths \subseteq Nat
  BY Parameters DEF UpdatePaths
<1>2. Updates \subseteq Nat
  BY <1>1 DEF Updates, ContextChoice
<1>3. ASSUME NEW r \in Requests, NEW k \in 0 .. Parallel, EnsurePath(r, k)
      PROVE  Good(ep, ep')
  BY <1>1, <1>3, EnsurePathGood
<1>4. ASSUME NEW r \in Requests, NEW k \in 0 .. Parallel, NEW x \in Choice, SendToOrQueue(r, k, x)
      PROVE  Good(ep, ep')
  BY <1>1, <1>4, SendToOrQueueGood
<1>5. ASSUME NEW a \in Answers, NEW i \in Choice, NEW x \in ContextChoice(Choice, NoIntro),
             NEW zero \in BOOLEAN, GotIntroForLookup(a, i, x, zero)
      PROVE  Good(ep, ep')
  BY <1>5, GotIntroForLookupGood
<1>6. ASSUME NEW a \in Answers, NEW x \in Choice, GotIntroForUpdate(a, x)
      PROVE  Good(ep, ep')
  BY <1>6, GotIntroForUpdateGood
<1>7. CASE GotIntroForDead
  BY <1>7, GotIntroForDeadGood
<1>8. CASE ReadyTimeout \/ DeadReadyTimeout
  BY <1>8, TimeoutsGood
<1>9. ASSUME NEW r \in Routers, NEW x \in Choice,
             HandlePathBuilt(r, x) \/ HandlePathBuildFailed(r, x)
      PROVE  Good(ep, ep')
  BY <1>9, PathsGood
<1>10. ASSUME NEW r \in Routers, NEW last \in BOOLEAN, NEW k \in UpdatePaths, NEW x \in Choice,
              HandlePathDied(r, last, k, x)
       PROVE  Good(ep, ep')
  BY <1>1, <1>10, PathDiedGood
<1>11. ASSUME NEW r \in Routers, ExpirePaths(r)
       PROVE  Good(ep, ep')
  BY <1>11, PathsGood
<1>12. ASSUME NEW old \in BOOLEAN, NEW new \in BOOLEAN, NEW k \in UpdatePaths, NEW x \in Choice,
              HandleDataDrop(old, new, k, x)
       PROVE  Good(ep, ep')
  BY <1>1, <1>12, DataDropGood
<1>13. CASE \/ \E queued \in BOOLEAN : KeyExchangeDone(queued)
            \/ HandshakeSent \/ HandleHiddenServiceFrame
  BY <1>13, HandshakeGood
<1>14. ASSUME NEW k \in Updates, NEW y \in Shifts, Pump(k, y)
       PROVE  Good(ep, ep')
  <2>1. Sound(ep) /\ ep.ctx # NoContext /\ ep' = PumpContext(ep, k, y) /\ k \in Nat
    BY <1>2, <1>14 DEF TypeOK, Pump, HasContext
  <2> QED
    BY <2>1, PumpGood
<1>15. ASSUME NEW decay, NEW over, NEW idle, NEW l, NEW u, NEW o, NEW k \in Updates, NEW y,
              Tick(decay, l, u, o, k, y, over, idle)
       PROVE  Good(ep, ep')
  BY <1>2, <1>15, TickGood
<1> QED
  BY <1>3, <1>4, <1>5, <1>6, <1>7, <1>8, <1>9, <1>10, <1>11, <1>12, <1>13, <1>14, <1>15
  DEF Next, PumpSome, TickSome

(* The endpoint starts sound, with nothing asked for.                       *)
LEMMA InitGood == Init => TypeOK /\ Tracked(ep)
<1> SUFFICES ASSUME Init PROVE TypeOK /\ Tracked(ep)
  OBVIOUS
<1>1. ep \in Endpoints /\ ep.updates = 0
  BY DEF Init, Endpoints
<1>2. /\ ep.hooks = {} /\ ep.traffic = {} /\ ep.asked = {}
      /\ \A r \in Requests : ep.calls[r] = 0 /\ ep.sent[r] = 0
  BY DEF Init
<1> QED
  BY <1>1, <1>2 DEF TypeOK, Sound, Tracked, CalledOnce, HasHook, Unasked

(* The state stays sound and tracked.                                       *)
LEMMA StaysTracked == Spec => [](TypeOK /\ Tracked(ep))
<1>1. Init => TypeOK /\ Tracked(ep)
  BY InitGood
<1>2. TypeOK /\ Tracked(ep) /\ [Next]_ep => (TypeOK /\ Tracked(ep))'
  <2>1. ASSUME TypeOK, Tracked(ep), Next
        PROVE  TypeOK' /\ Tracked(ep)'
    BY <2>1, NextGood DEF Good, TypeOK
  <2>2. ASSUME TypeOK, Tracked(ep), UNCHANGED ep
        PROVE  TypeOK' /\ Tracked(ep)'
    BY <2>2 DEF TypeOK
  <2> QED
    BY <2>1, <2>2
<1> QED
  BY <1>1, <1>2, PTL DEF Spec

(* The endpoint and its context are well formed, and update lookups are     *)
(* counted only for a context there is.                                     *)
THEOREM TypeCorrect == Spec => []TypeOK
BY StaysTracked, PTL

(* For any requests, introsets and numbers of lookups in flight, however    *)
(* answers, timeouts, pumps, ticks and paths interleave: each hook is       *)
(* called at most once, each datum is sent at most once, and no datum waits *)
(* without a hook that will take it along (InformPathToService).            *)
THEOREM HooksAreTracked == Spec => []HooksTracked
<1>1. Tracked(ep) => HooksTracked
  BY DEF Tracked, HooksTracked, HookCalledOnce, DataHasHook
<1> QED
  BY <1>1, StaysTracked, PTL

(* In no step does a context that stays go back to an older introset, in    *)
(* whichever order the answers to its updates and to the endpoint's lookups *)
(* arrive (OnIntroSetUpdate).                                               *)
THEOREM IntroSetsOnlyAdvance == Spec => NoOlderIntroSet
<1>1. TypeOK /\ Tracked(ep) /\ [Next]_ep =>
        [ep.ctx # NoContext /\ ep'.ctx # NoContext => ep'.ctx.version >= ep.ctx.version]_ep
  BY NextGood DEF Good, NotOlder
<1> QED
  BY <1>1, StaysTracked, PTL DEF Spec, NoOlderIntroSet
=============================================================================
