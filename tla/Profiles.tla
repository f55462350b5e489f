------------------------------ MODULE Profiles ------------------------------
(***************************************************************************)
(* What this node thinks of one router (llarp/profiling.cpp): counters of  *)
(* what went well and what did not, halved every 30 seconds, from which    *)
(* path and session building decide whether to use it.  Integer division   *)
(* is kept.  Saving and loading the counters are not modelled.             *)
(***************************************************************************)
EXTENDS Naturals

CONSTANTS
  Hops,      \* length of a path
  MaxCount,  \* bound of the model: the largest counter
  Halvings   \* halvings that bring MaxCount to 0

VARIABLES
  profile,   \* the router's counters, all 0 when it has no entry
  disabled,  \* m_DisableProfiling
  quiet      \* halvings since something was last marked

vars == <<profile, disabled, quiet>>

NoProfile == [connectTimeoutCount |-> 0, connectGoodCount |-> 0, pathSuccessCount |-> 0,
              pathFailCount |-> 0, pathTimeoutCount |-> 0]

\* The numbers of chances that path building and the DHT give.
Chances == {1, 4}

Init ==
  /\ profile = NoProfile
  /\ disabled \in BOOLEAN
  /\ quiet = 0

checkIsGood(fails, success, chances) ==
  IF fails > 0 /\ fails + success >= chances THEN success \div fails > 1
  ELSE success = 0 => fails < chances

IsGoodForConnect(chances) ==
  checkIsGood(profile.connectTimeoutCount, profile.connectGoodCount, chances)

IsGoodForPath(chances) ==
  /\ profile.pathTimeoutCount <= chances
  /\ checkIsGood(profile.pathFailCount, profile.pathSuccessCount, chances)

IsBadForConnect(chances) == ~disabled /\ ~IsGoodForConnect(chances)
IsBadForPath(chances) == ~disabled /\ ~IsGoodForPath(chances)

Marked(counters) ==
  /\ \A c \in DOMAIN counters : counters[c] <= MaxCount
  /\ profile' = counters
  /\ quiet' = 0
  /\ UNCHANGED disabled

MarkConnectTimeout == Marked([profile EXCEPT !.connectTimeoutCount = @ + 1])
MarkConnectSuccess == Marked([profile EXCEPT !.connectGoodCount = @ + 1])

\* MarkHopFail, and MarkPathFail for every hop but the first.
MarkPathFail == Marked([profile EXCEPT !.pathFailCount = @ + 1])
MarkPathTimeout == Marked([profile EXCEPT !.pathTimeoutCount = @ + 1])

\* Former failures are halved and timeouts forgotten.
MarkPathSuccess ==
  Marked([profile EXCEPT !.pathFailCount = @ \div 2, !.pathTimeoutCount = 0,
                         !.pathSuccessCount = @ + Hops])

\* Halves are rounded up.
Decay_RoundsUp ==
  /\ profile' = [c \in DOMAIN profile |-> (profile[c] + 1) \div 2]
  /\ quiet' = IF quiet < Halvings THEN quiet + 1 ELSE quiet
  /\ UNCHANGED disabled

Decay ==
  /\ profile' = [c \in DOMAIN profile |-> profile[c] \div 2]
  /\ quiet' = IF quiet < Halvings THEN quiet + 1 ELSE quiet
  /\ UNCHANGED disabled

\* Without its entry a router is as good as with one that holds zeros.
ClearProfile ==
  /\ profile' = NoProfile
  /\ UNCHANGED <<disabled, quiet>>

Next ==
  \/ MarkConnectTimeout \/ MarkConnectSuccess
  \/ MarkPathFail \/ MarkPathTimeout \/ MarkPathSuccess
  \/ Decay \/ ClearProfile

-----------------------------------------------------------------------------
(* Properties.                                                             *)

\* No router is avoided for ever: once nothing was marked for as many halvings
\* as the counters have bits, it is good for sessions and paths again; and a
\* router that is good when one failure is too many is good when four are
\* allowed (Decay, checkIsGood with its integer division).
Forgiven ==
  /\ quiet >= Halvings => \A n \in Chances : ~IsBadForConnect(n) /\ ~IsBadForPath(n)
  /\ IsGoodForConnect(1) => IsGoodForConnect(4)
  /\ IsGoodForPath(1) => IsGoodForPath(4)
=============================================================================
