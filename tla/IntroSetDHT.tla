---------------------------- MODULE IntroSetDHT ----------------------------
(***************************************************************************)
(* Publishing and looking up the introset of one hidden service: the       *)
(* endpoint that signs it (Endpoint::RegenAndPublishIntroSet and the       *)
(* PublishIntroSetJob), an endpoint that looks it up, the routers at the   *)
(* ends of their paths that relay the requests, and the routers closest to *)
(* the service's key that store it (PublishIntroMessage, FindIntroMessage, *)
(* GotIntroMessage and the transactions they start).                       *)
(*                                                                         *)
(* Introsets are numbered in the order they are signed; those up to        *)
(* `expired` are past their time.  Messages arrive in any order; one that  *)
(* is lost stays in `net`.                                                 *)
(***************************************************************************)
EXTENDS Integers, Sequences, FiniteSets, FiniteSetsExt, TxHolder

CONSTANTS
    Routers,
    Closest,     \* Closest[r]: FindManyClosestTo(the key) in r's nodedb, nearest first
    Redundancy,  \* IntroSetStorageRedundancy
    Relays,      \* Relays[v]: the choices of relays for publishing v; the relay of
                 \* order o ends the path that carries it
    MaxVersion,  \* bound: introsets signed
    Reads,       \* bound: the lookups made, each with its relay order and relay
    Endpoint

VARIABLES
    node,        \* per router: introset stored and transactions
    net,         \* messages between routers and up and down the paths
    jobs,        \* the endpoints' pending publishings and lookups
    signed, expired,
    answers,     \* ghost: what lookups were answered with
    confirmed,   \* ghost: introsets whose publishing was confirmed
    stored       \* ghost: introsets some router has stored

vars == <<node, net, jobs, signed, expired, answers, confirmed, stored>>

(* Messages.  An endpoint's request is relayed; its txid is the job's.     *)
PublishIntro(to, from, txid, v, order, relayed) ==
    [type |-> "PIM", to |-> to, from |-> from, txid |-> txid, set |-> {v},
     order |-> order, relayed |-> relayed]
FindIntro(to, from, txid, order, relayed) ==
    [type |-> "FIM", to |-> to, from |-> from, txid |-> txid, set |-> {},
     order |-> order, relayed |-> relayed]
GotIntro(to, from, txid, found) ==
    [type |-> "GIM", to |-> to, from |-> from, txid |-> txid, set |-> found,
     order |-> 0, relayed |-> FALSE]
Down(r, job, found) == GotIntro(Endpoint, r, job, found)

Init ==
    /\ node = [r \in Routers |-> [store |-> 0, intros |-> EmptyHolder]]
    /\ net = {} /\ jobs = {} /\ signed = 0 /\ expired = 0
    /\ answers = {} /\ confirmed = {} /\ stored = {}

-----------------------------------------------------------------------------
(* The routers.                                                            *)

\* Mutant: the introset that arrives last is kept.
PutLast(n, v) == [n EXCEPT !.store = v]
PutNode(n, v) == IF n.store < v THEN [n EXCEPT !.store = v] ELSE n

Expired(v) == v <= expired

Reply(m, answer) == net' = (net \ {m}) \cup answer

(* A new transaction towards peer for the request m, waited for under key  *)
(* k; it goes out if nobody waits for k.  The id it gets (++ids) is one no *)
(* other has, and so is the txid of the one request it is made for.        *)
Start(m, peer, k, publish, request) ==
    /\ node' = [node EXCEPT ![m.to].intros =
                    NewTX(@, <<peer, m.txid>>, k, [job |-> m.txid, publish |-> publish])]
    /\ Reply(m, IF Starts(node[m.to].intros, k) THEN {request} ELSE {})

PropagateLocalIntroSet(m, v, peer) ==
    Start(m, peer, <<peer, m.txid>>, {v}, PublishIntro(peer, m.to, m.txid, v, 0, FALSE))

LookupIntroSetForPath(m, peer) ==
    Start(m, peer, <<m.to, m.txid>>, {}, FindIntro(peer, m.to, m.txid, 0, FALSE))

HandlePublishIntro(m) ==
    LET r == m.to v == CHOOSE x \in m.set : TRUE near == Closest[r]
        Answer(found) == {IF m.relayed THEN Down(r, m.txid, found) ELSE GotIntro(m.from, r, m.txid, found)}
        Store == /\ node' = [node EXCEPT ![r] = PutNode(@, v)]
                 /\ stored' = stored \cup {v}
                 /\ Reply(m, Answer({v}))
    IN  IF Expired(v) \/ Len(near) # Redundancy
        THEN Reply(m, Answer({})) /\ UNCHANGED <<node, stored>>
        ELSE IF m.relayed
             THEN IF near[m.order + 1] = r THEN Store
                  ELSE PropagateLocalIntroSet(m, v, near[m.order + 1]) /\ UNCHANGED stored
             ELSE IF \E i \in DOMAIN near : near[i] = r THEN Store
                  ELSE Reply(m, {}) /\ UNCHANGED <<node, stored>>

GetIntroSetByLocation(r) == IF node[r].store = 0 THEN {} ELSE {node[r].store}

HandleFindIntro(m) ==
    LET r == m.to near == Closest[r]
    IN  IF ~m.relayed
        THEN Reply(m, {GotIntro(m.from, r, m.txid, GetIntroSetByLocation(r))}) /\ UNCHANGED node
        ELSE IF Len(near) <= m.order
        THEN Reply(m, {Down(r, m.txid, {})}) /\ UNCHANGED node
        ELSE LookupIntroSetForPath(m, near[m.order + 1])

(* SendReply of the transactions that wait for a key: a lookup hands on    *)
(* the newest introset found, a publish its own introset whatever came.    *)
SendReplies(r, k, found) ==
    {Down(r, t.job, IF t.publish # {} THEN t.publish ELSE found) : t \in Informed(node[r].intros, k)}

HandleGotIntro(m) ==
    LET r == m.to owner == <<m.from, m.txid>> h == node[r].intros
        k == (CHOOSE w \in h.waiting : w[2] = owner)[1]
    IN  IF HasPendingLookupFrom(h, owner) /\ \A v \in m.set : ~Expired(v)
        THEN /\ node' = [node EXCEPT ![r].intros = AfterInform(@, k)]
             /\ Reply(m, SendReplies(r, k, m.set))
        ELSE Reply(m, {}) /\ UNCHANGED node

Handle(m) ==
    /\ m.to \in Routers
    /\ \/ m.type = "PIM" /\ HandlePublishIntro(m)
       \/ m.type = "FIM" /\ HandleFindIntro(m) /\ UNCHANGED stored
       \/ m.type = "GIM" /\ HandleGotIntro(m) /\ UNCHANGED stored
    /\ UNCHANGED <<jobs, signed, expired, answers, confirmed>>

(* The cleaner: a key past its timeout, and introsets past theirs.         *)
CleanupTX(r, k) ==
    /\ k \in node[r].intros.timeouts
    /\ node' = [node EXCEPT ![r].intros = AfterInform(@, k),
                            ![r].store = IF Expired(@) THEN 0 ELSE @]
    /\ net' = net \cup SendReplies(r, k, {})
    /\ UNCHANGED <<jobs, signed, expired, answers, confirmed, stored>>

ExpireIntroSets(r) ==
    /\ node[r].store # 0 /\ Expired(node[r].store)
    /\ node' = [node EXCEPT ![r].store = 0]
    /\ UNCHANGED <<net, jobs, signed, expired, answers, confirmed, stored>>

-----------------------------------------------------------------------------
(* The endpoints.                                                          *)

Time == expired < signed /\ expired' = expired + 1
        /\ UNCHANGED <<node, net, jobs, signed, answers, confirmed, stored>>

Orders == 0..(Redundancy - 1)
AnyRelays == UNION {Relays[v] : v \in 1..MaxVersion}

(* RegenAndPublishIntroSet with enough introductions and paths: one job    *)
(* for each copy of the new introset.                                      *)
PublishIntroSet(j, n, relay) ==
    LET v == signed + 1
        txid(o) == [kind |-> "publish", number |-> v, order |-> o]
    IN  /\ signed < MaxVersion /\ relay \in Relays[v]
        /\ signed' = v
        /\ jobs' = j \cup {[txid |-> txid(o), floor |-> 0] : o \in Orders}
        /\ net' = n \cup {PublishIntro(relay[o], Endpoint, txid(o), v, o, TRUE) : o \in Orders}

Publish(relay) == PublishIntroSet(jobs, net, relay) /\ UNCHANGED <<node, expired, answers, confirmed, stored>>

(* A lookup of the reader; its floor is ghost: the newest introset a       *)
(* lookup with this order was already answered with.                       *)
Lookup(i, o, relay) ==
    LET txid == [kind |-> "lookup", number |-> i, order |-> o]
    IN  /\ \A j \in jobs : j.txid # txid
        /\ \A a \in answers : a.txid # txid
        /\ jobs' = jobs \cup {[txid |-> txid,
                               floor |-> Max({0} \cup {a.found : a \in {b \in answers : b.txid.order = o}})]}
        /\ net' = net \cup {FindIntro(relay, Endpoint, txid, o, TRUE)}
        /\ UNCHANGED <<node, signed, expired, answers, confirmed, stored>>

(* IntroSetPublishFail publishes again if it is time to (relay # <<>>).      *)
IntroSetPublishFail(j, n, relay) ==
    IF relay # <<>> THEN PublishIntroSet(j, n, relay) ELSE jobs' = j /\ net' = n /\ UNCHANGED signed

(* The end of a job: an answer, or nothing at its timeout.                 *)
HandleIntrosetResponse(j, found, n, relay) ==
    /\ IF j.txid.kind = "publish" /\ found = {}
       THEN IntroSetPublishFail(jobs \ {j}, n, relay)
       ELSE relay = <<>> /\ jobs' = jobs \ {j} /\ net' = n /\ UNCHANGED signed
    /\ confirmed' = IF j.txid.kind = "publish" /\ found # {}
                    THEN confirmed \cup {j.txid.number} ELSE confirmed
    /\ answers' = IF j.txid.kind = "lookup"
                  THEN answers \cup {[txid |-> j.txid, floor |-> j.floor, found |-> Max({0} \cup found)]}
                  ELSE answers
    /\ UNCHANGED <<node, expired, stored>>

EndpointGotIntro(m, relay) ==
    /\ m.to = Endpoint /\ \A v \in m.set : ~Expired(v)
    /\ \E j \in jobs : j.txid = m.txid /\ HandleIntrosetResponse(j, m.set, net \ {m}, relay)

(* ExpirePendingTx.                                                        *)
JobTimeout(j, relay) == HandleIntrosetResponse(j, {}, net, relay)

-----------------------------------------------------------------------------
Next ==
    \/ \E m \in net : Handle(m)
    \/ \E m \in net, relay \in AnyRelays \cup {<<>>} : EndpointGotIntro(m, relay)
    \/ \E r \in Routers : \E k \in node[r].intros.timeouts : CleanupTX(r, k)
    \/ \E r \in Routers : ExpireIntroSets(r)
    \/ Time
    \/ \E relay \in AnyRelays : Publish(relay)
    \/ \E i \in DOMAIN Reads : Lookup(i, Reads[i].order, Reads[i].relay)
    \/ \E j \in jobs, relay \in AnyRelays \cup {<<>>} : JobTimeout(j, relay)

Spec == Init /\ [][Next]_vars

-----------------------------------------------------------------------------
(* Lookups made one after the other with the same relay order do not go    *)
(* back in time, however late or out of order the copies of several        *)
(* publishings arrive (Bucket::PutNode): once one was answered with an     *)
(* introset, a later one is answered with that or a newer one, or none.    *)
FreshReads == \A a \in answers : a.found = 0 \/ a.found >= a.floor

(* A publishing that is confirmed to the endpoint was stored by some       *)
(* router.                                                                 *)
AckedIsStored == confirmed \subseteq stored
=============================================================================
