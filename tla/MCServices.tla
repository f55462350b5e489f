----------------------------- MODULE MCServices -----------------------------
(* Hidden services: a client endpoint that looks a service up and talks to it *)
(* (ServicePaths), and the DHT that stores the service's introsets            *)
(* (IntroSetDHT).  Only the one chosen at the start moves.                    *)
EXTENDS ServicePaths, TLC

CONSTANTS i1, i2, r1, r2, q1, q2

MCRouterOf == (i1 :> r1) @@ (i2 :> r2)
MCIntroSets == <<{i1}, {i1, i2}>>

(* A is the router closest to the service's key; B does not know it and takes *)
(* C for the closest.                                                         *)
CONSTANTS A, B, C, Endpoint, Redundancy, MaxVersion

MCClosest == (A :> <<A>>) @@ (B :> <<C>>) @@ (C :> <<A>>)
MCRelays == << {0 :> B, 0 :> C}, {0 :> A} >>
MCReads == << [order |-> 0, relay |-> C], [order |-> 0, relay |-> C] >>

VARIABLES
  node, net, jobs, signed, expired, answers, confirmed, stored,
  moves   \* "endpoint" or "dht"

DHT == INSTANCE IntroSetDHT
         WITH Routers <- {A, B, C}, Closest <- MCClosest, Relays <- MCRelays, Reads <- MCReads

dhtVars == <<node, net, jobs, signed, expired, answers, confirmed, stored>>

ServicesInit == Init /\ DHT!Init /\ moves \in {"endpoint", "dht"}

ServicesNext ==
  \/ moves = "endpoint" /\ Next /\ UNCHANGED <<dhtVars, moves>>
  \/ moves = "dht" /\ DHT!Next /\ UNCHANGED <<ep, moves>>

ServicesSpec ==
  /\ ServicesInit /\ [][ServicesNext]_<<ep, dhtVars, moves>>
  /\ WF_ep(moves = "endpoint" /\ LookupsExpire)
  /\ WF_ep(moves = "endpoint" /\ CallReadyHooks)

\* Lookups made one after the other with the same relay order do not go back in
\* time, however late or out of order the copies of several publishings arrive
\* (Bucket::PutNode): once one was answered with an introset, a later one is
\* answered with that or a newer one, or with none.
FreshReads == DHT!FreshReads
=============================================================================
