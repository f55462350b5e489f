------------------------ MODULE ReachabilityTesting ------------------------
(***************************************************************************)
(* How a master node tests the others (llarp/consensus/                    *)
(* reachability_testing.cpp and the testing timer of Router::Run): a       *)
(* shuffled list of all routers is worked off one by one, and a router     *)
(* that could not be reached moves to a second schedule, which retests it  *)
(* after a delay.  A test is a CreateSessionTo whose callback comes later, *)
(* so several tests of one router can be under way and their results can   *)
(* arrive in any order.                                                    *)
(***************************************************************************)
EXTENDS Naturals, FiniteSets, Bags

CONSTANTS
  Routers,
  Self,                 \* this router
  MAX_RETESTS_PER_TICK,
  MaxDelay,             \* bound of the model: the longest delay of a retest
  MaxTests              \* bound of the model: tests and retests outstanding

VARIABLES
  listed,         \* RCLookupHandler: the list each router is on
  testing_queue,  \* its order is random: a set
  failing,
  failing_queue,  \* bag of [router, delay]: how long until the retest is due
  tests           \* bag: CreateSessionTo was called, its callback not yet

vars == <<listed, testing_queue, failing, failing_queue, tests>>

Lists == {"whitelist", "greylist", "none"}

Init ==
  /\ listed = [r \in Routers \cup {Self} |-> "whitelist"]
  /\ testing_queue = {} /\ failing = {}
  /\ failing_queue = EmptyBag /\ tests = EmptyBag

Whitelist == {r \in DOMAIN listed : listed[r] = "whitelist"}
SessionIsAllowed(r) == listed[r] # "none"
ShouldTestOtherRouters == SessionIsAllowed(Self)

\* The number of copies of the entries in S.
Copies(bag, S) == BagCardinality([e \in DOMAIN bag \cap S |-> bag[e]])

Due == {e \in DOMAIN failing_queue : e.delay = 0}
OfFailing == {e \in Due : e.router \in failing}

\* get_failing: the due entries, those of routers no longer failing being thrown
\* away, until MAX_RETESTS_PER_TICK are found.
get_failing(popped) ==
  /\ popped \in SubBag([e \in Due |-> failing_queue[e]])
  /\ Copies(popped, OfFailing) <= MAX_RETESTS_PER_TICK
  /\ \/ Copies(popped, OfFailing) = MAX_RETESTS_PER_TICK
     \/ popped = [e \in Due |-> failing_queue[e]]
  /\ failing_queue' = failing_queue (-) popped

Eligible(queue) == {r \in queue : r # Self /\ r \notin failing}

\* Routers are popped and skipped, up to one that is neither this one nor failing.
PopEligible(queue, chosen) ==
  \E r \in Eligible(queue), skipped \in SUBSET (queue \ Eligible(queue)) :
    chosen = {r} /\ testing_queue' = queue \ (skipped \cup {r})

\* next_random when it is time.  With no router left the queue is filled again, but
\* the recursive call finds that the time of the next test is already set and
\* returns nothing, unless the random interval is not positive.
next_random(chosen) ==
  \/ PopEligible(testing_queue, chosen)
  \/ /\ Eligible(testing_queue) = {}
     /\ \/ chosen = {} /\ testing_queue' = Whitelist
        \/ PopEligible(Whitelist, chosen)
        \/ Eligible(Whitelist) = {} /\ chosen = {} /\ testing_queue' = {}

Retested(popped) ==
  [r \in {e.router : e \in DOMAIN popped \cap OfFailing} |->
     Copies(popped, {e \in OfFailing : e.router = r})]

\* The timer: retests that are due and at times a random test, of those that are
\* still registered.
TestRouters ==
  /\ ShouldTestOtherRouters
  /\ \E popped \in SubBag(failing_queue), chosen \in {{}} \cup {{r} : r \in Routers} :
       /\ get_failing(popped)
       /\ \/ next_random(chosen)
          \/ chosen = {} /\ UNCHANGED testing_queue
       /\ LET picked == Retested(popped) (+) SetToBag(chosen)
              allowed == {r \in DOMAIN picked : SessionIsAllowed(r)}
              started == [r \in allowed |-> picked[r]]
          IN /\ failing' = failing \ (DOMAIN picked \ allowed)
             /\ tests' = tests (+) started
             /\ BagCardinality(tests') + BagCardinality(failing_queue') <= MaxTests
             /\ <<tests', failing', failing_queue', testing_queue'>>
                  # <<tests, failing, failing_queue, testing_queue>>
  /\ UNCHANGED listed

remove_node_from_failing(r) ==
  failing' = failing \ {r} /\ UNCHANGED failing_queue

add_failing_node_NotQueuedAgain(r) ==
  /\ failing' = failing \cup {r}
  /\ \E delay \in 0..MaxDelay :
       failing_queue' = IF r \in failing THEN failing_queue
                        ELSE failing_queue (+) SetToBag({[router |-> r, delay |-> delay]})

\* The delay is random, and grows with the failures in a row up to a limit.
add_failing_node(r) ==
  /\ failing' = failing \cup {r}
  /\ \E delay \in 0..MaxDelay :
       failing_queue' = failing_queue (+) SetToBag({[router |-> r, delay |-> delay]})

\* The callback given to CreateSessionTo.
TestResult(r) ==
  /\ BagIn(r, tests)
  /\ tests' = tests (-) SetToBag({r})
  /\ add_failing_node(r) \/ remove_node_from_failing(r)
  /\ UNCHANGED <<listed, testing_queue>>

Elapse(bag) ==
  LET later(e) == [e EXCEPT !.delay = IF @ = 0 THEN 0 ELSE @ - 1]
  IN [l \in {later(e) : e \in DOMAIN bag} |->
        Copies(bag, {e \in DOMAIN bag : later(e) = l})]

TimePasses ==
  /\ failing_queue' = Elapse(failing_queue)
  /\ failing_queue' # failing_queue
  /\ UNCHANGED <<listed, testing_queue, failing, tests>>

\* A new list: never one without active routers (HandleNewMasterNodeList).
SetRouterWhitelist ==
  /\ listed' \in [Routers \cup {Self} -> Lists]
  /\ \E r \in DOMAIN listed' : listed'[r] = "whitelist"
  /\ UNCHANGED <<testing_queue, failing, failing_queue, tests>>

Next ==
  \/ TestRouters \/ TimePasses \/ SetRouterWhitelist
  \/ \E r \in Routers : TestResult(r)

-----------------------------------------------------------------------------
(* Properties.                                                             *)

\* A router that is marked failing is never forgotten: next_random skips it, so
\* it must be queued for a retest or have a test under way whose callback queues
\* it again or unmarks it (get_failing, add_failing_node,
\* remove_node_from_failing), however results of concurrent tests, retests and
\* changes of the list follow each other.
FailingIsRetested ==
  \A r \in failing :
    BagIn(r, tests) \/ \E e \in DOMAIN failing_queue : e.router = r
=============================================================================
