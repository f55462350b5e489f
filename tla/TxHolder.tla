------------------------------ MODULE TxHolder ------------------------------
(* The table of a router's DHT transactions of one sort (dht/txholder.hpp): the
   transaction of every request sent to a peer, by TXOwner (the peer asked and
   our id of the request); who waits for each key; the keys that have a timeout.
   A transaction for a key that is already waited for is not started: it shares
   the answer of the one that was.                                             *)
EXTENDS TLC

EmptyHolder == [tx |-> <<>>, waiting |-> {}, timeouts |-> {}]

HasPendingLookupFrom(h, owner) == owner \in DOMAIN h.tx

\* NewTX adds the transaction t; it starts it when nobody waited for the key.
Starts(h, k) == \A w \in h.waiting : w[1] # k
NewTX(h, askpeer, k, t) ==
  [tx       |-> (askpeer :> t) @@ h.tx,
   waiting  |-> h.waiting \union {<<k, askpeer>>},
   timeouts |-> h.timeouts \union {k}]

\* Inform with a reply: every transaction that waits for the key gets SendReply
\* and ends; nobody waits for the key any more and its timeout is gone.
WaitingFor(h, k) == {o \in DOMAIN h.tx : <<k, o>> \in h.waiting}
Informed(h, k) == {h.tx[o] : o \in WaitingFor(h, k)}
AfterInform(h, k) ==
  [tx       |-> [o \in DOMAIN h.tx \ WaitingFor(h, k) |-> h.tx[o]],
   waiting  |-> {w \in h.waiting : w[1] # k},
   timeouts |-> h.timeouts \ {k}]
==============================================================================
