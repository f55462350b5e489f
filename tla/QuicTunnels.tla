----------------------------- MODULE QuicTunnels -----------------------------
(***************************************************************************)
(* Outgoing tunnels of TunnelManager (llarp/quic/tunnel.cpp): a local TCP  *)
(* socket listens at once, its connections wait until the name is resolved,*)
(* a path is built and the QUIC connection has streams.  Everything runs   *)
(* on the event loop.                                                      *)
(***************************************************************************)
EXTENDS Integers, Sequences, FiniteSets, Functions

CONSTANTS
  MaxPort,    \* the largest pseudo-port
  Conns,      \* local TCP connections
  MaxStreams  \* streams the remote allows at a time

VARIABLES
  client_tunnels_,    \* pseudo-port -> tunnel, for the ports in use
  next_pseudo_port_,
  steps,              \* ports whose name lookup or path build has not ended
  tcp,                \* state of each local TCP connection
  of                  \* its tunnel

Ports == 0..MaxPort
NoPort == -1

vars == <<client_tunnels_, next_pseudo_port_, steps, tcp, of>>

NewTunnel == [listening |-> TRUE, client |-> "none", streams |-> 0, pending_incoming |-> <<>>]

Init ==
  /\ client_tunnels_ = [p \in {} |-> NewTunnel]
  /\ next_pseudo_port_ = 0
  /\ steps = [p \in Ports |-> "none"]
  /\ tcp = [c \in Conns |-> "none"]
  /\ of = [c \in Conns |-> NoPort]

\* The process ends and is started again.
Restart ==
  /\ client_tunnels_' = [p \in {} |-> NewTunnel]
  /\ next_pseudo_port_' = 0
  /\ steps' = [p \in Ports |-> "none"]
  /\ tcp' = [c \in Conns |-> "none"]
  /\ of' = [c \in Conns |-> NoPort]

Used == DOMAIN client_tunnels_
With(p, t) == [q \in Used \cup {p} |-> IF q = p THEN t ELSE client_tunnels_[q]]
Without(ps) == [q \in Used \ ps |-> client_tunnels_[q]]

\* The first free key from start on, from 0 on if there is none.
find_unused_key(start) ==
  LET free == Ports \ Used
      after == {p \in free : p >= start}
      from == IF after = {} THEN free ELSE after
  IN CHOOSE p \in from : \A q \in from : p <= q

\* The map counts as full with one key free.
HasUnusedKey == Cardinality(Used) < MaxPort

\* What becomes of the local connections of the ports ps with a state in ended when
\* their QUIC connection is destroyed: ~Stream closes one that waits for its first
\* byte; one that forwards holds its Stream, which outlives the connection.
Unlinked(ps, ended) ==
  /\ tcp' = [c \in Conns |->
       IF of[c] \in ps /\ tcp[c] \in ended
         THEN (IF tcp[c] = "forwarding" THEN "orphaned" ELSE "none") ELSE tcp[c]]
  /\ of' = [c \in Conns |-> IF of[c] \in ps /\ tcp[c] \in ended THEN NoPort ELSE of[c]]

\* ~ClientTunnel: connections that wait are closed too.
Destroy(ps) ==
  /\ client_tunnels_' = Without(ps)
  /\ Unlinked(ps, {"pending", "initial", "forwarding"})

\* Pops connections while there are streams (as long as there are, opening one does
\* not fail).
flush_pending_incoming(p, t, tcps) ==
  LET n == IF t.client = "ready"
             THEN (IF Len(t.pending_incoming) < t.streams THEN Len(t.pending_incoming)
                   ELSE t.streams)
             ELSE 0
      popped == {t.pending_incoming[i] : i \in 1..n}
  IN /\ client_tunnels_' =
          With(p, [t EXCEPT !.streams = @ - n,
                            !.pending_incoming = SubSeq(@, n + 1, Len(@))])
     /\ tcp' = [c \in Conns |-> IF c \in popped THEN "initial" ELSE tcps[c]]

\* By name the lookup comes first; with a conversation there already is, the
\* client is made at once.  A port is not used again while the steps of its last
\* tunnel go on: that takes as many opens as there are ports.
open(first) ==
  LET p == find_unused_key(next_pseudo_port_)
  IN /\ HasUnusedKey
     /\ steps[p] = "none"
     /\ next_pseudo_port_' = (p + 1) % (MaxPort + 1)
     /\ client_tunnels_' = With(p, [NewTunnel EXCEPT
          !.client = IF first = "none" THEN "handshake" ELSE "none"])
     /\ steps' = [steps EXCEPT ![p] = first]
     /\ UNCHANGED <<tcp, of>>

\* continue_connecting fails: the tunnel, if it is there, is told and erased.  One
\* closed in between has no listening socket left to close, and the process ends.
StepFails(p) ==
  /\ steps[p] # "none"
  /\ IF p \in Used /\ ~client_tunnels_[p].listening
       THEN Restart
       ELSE /\ steps' = [steps EXCEPT ![p] = "none"]
            /\ UNCHANGED next_pseudo_port_
            /\ Destroy({p})

\* The name is resolved and a path asked for, or the path is there and the client
\* made; nothing of the kind if the tunnel is gone.
StepSucceeds(p) ==
  /\ steps[p] # "none"
  /\ steps' = [steps EXCEPT ![p] = IF @ = "lookup" /\ p \in Used THEN "path" ELSE "none"]
  /\ client_tunnels_' = IF steps[p] = "path" /\ p \in Used
       THEN [client_tunnels_ EXCEPT ![p].client = "handshake"] ELSE client_tunnels_
  /\ UNCHANGED <<next_pseudo_port_, tcp, of>>

Accept_NotFlushed(c, p) ==
  /\ tcp[c] = "none" /\ p \in Used /\ client_tunnels_[p].listening
  /\ of' = [of EXCEPT ![c] = p]
  /\ tcp' = [tcp EXCEPT ![c] = "pending"]
  /\ client_tunnels_' = [client_tunnels_ EXCEPT ![p].pending_incoming = Append(@, c)]
  /\ UNCHANGED <<next_pseudo_port_, steps>>

\* The listen event.
Accept(c, p) ==
  /\ tcp[c] = "none" /\ p \in Used /\ client_tunnels_[p].listening
  /\ of' = [of EXCEPT ![c] = p]
  /\ flush_pending_incoming(p,
       [client_tunnels_[p] EXCEPT !.pending_incoming = Append(@, c)],
       [tcp EXCEPT ![c] = "pending"])
  /\ UNCHANGED <<next_pseudo_port_, steps>>

\* The handshake ends, or the remote allows another stream: on_stream_available.
StreamAvailable(p, n) ==
  /\ p \in Used /\ client_tunnels_[p].client \in {"handshake", "ready"}
  /\ n + client_tunnels_[p].streams
       + Cardinality({c \in Conns : of[c] = p /\ tcp[c] \in {"initial", "forwarding"}}) <= MaxStreams
  /\ flush_pending_incoming(p,
       [client_tunnels_[p] EXCEPT !.client = "ready", !.streams = @ + n], tcp)
  /\ UNCHANGED <<next_pseudo_port_, steps, of>>

\* The first byte from the remote, and what closes a connection with its stream:
\* another first byte, the stream closed or the TCP connection closed.
InitialData(c) ==
  /\ tcp[c] = "initial"
  /\ tcp' = [tcp EXCEPT ![c] = "forwarding"]
  /\ UNCHANGED <<client_tunnels_, next_pseudo_port_, steps, of>>

CloseConn(c) ==
  /\ tcp[c] \in {"initial", "forwarding"}
  /\ tcp' = [tcp EXCEPT ![c] = "none"] /\ of' = [of EXCEPT ![c] = NoPort]
  /\ UNCHANGED <<client_tunnels_, next_pseudo_port_, steps>>

\* Data or the end of a connection whose Stream has lost its Connection: what is
\* called there no longer exists, and the connection goes on or ends, or the process.
OrphanEvent(c) ==
  /\ tcp[c] = "orphaned"
  /\ \/ /\ tcp' = [tcp EXCEPT ![c] = "none"]
        /\ UNCHANGED <<client_tunnels_, next_pseudo_port_, steps, of>>
     \/ Restart

\* check_timeouts, at the end of draining: the client is left without a connection.
ConnectionExpires(p) ==
  /\ p \in Used /\ client_tunnels_[p].client \in {"handshake", "ready"}
  /\ client_tunnels_' = [client_tunnels_ EXCEPT ![p].client = "expired", ![p].streams = 0]
  /\ Unlinked({p}, {"initial", "forwarding"})
  /\ UNCHANGED <<next_pseudo_port_, steps>>

close(p) ==
  /\ p \in Used /\ client_tunnels_[p].listening
  /\ client_tunnels_' = [client_tunnels_ EXCEPT ![p].listening = FALSE]
  /\ UNCHANGED <<next_pseudo_port_, steps, tcp, of>>

\* Every 500ms.  Nothing is ever put into conns, so that a tunnel which does not
\* listen is erased whatever connections it has.
Cleanup ==
  LET ended == {p \in Used : ~client_tunnels_[p].listening}
  IN /\ ended # {}
     /\ Destroy(ended)
     /\ UNCHANGED <<next_pseudo_port_, steps>>

Next ==
  \/ \E first \in {"lookup", "path", "none"} : open(first)
  \/ \E p \in Ports : StepFails(p) \/ StepSucceeds(p) \/ ConnectionExpires(p) \/ close(p)
  \/ \E p \in Ports, n \in 1..MaxStreams : StreamAvailable(p, n)
  \/ \E c \in Conns, p \in Ports : Accept(c, p)
  \/ \E c \in Conns : InitialData(c) \/ CloseConn(c) \/ OrphanEvent(c)
  \/ Cleanup

-----------------------------------------------------------------------------
(* Properties.                                                             *)

\* No local connection is left frozen: one that waits is in the queue of its tunnel,
\* which then has no stream to give, and one that has a stream but no first byte yet
\* has a tunnel with a live connection, so that it is closed when that ends
\* (flush_pending_incoming and its callers, ~ClientTunnel, ~Stream).
TunnelsTracked ==
  /\ \A c \in Conns :
       /\ tcp[c] = "pending" =>
            of[c] \in Used /\ c \in Range(client_tunnels_[of[c]].pending_incoming)
       /\ tcp[c] = "initial" => of[c] \in Used /\ client_tunnels_[of[c]].client = "ready"
  /\ \A p \in Used :
       client_tunnels_[p].streams = 0 \/ client_tunnels_[p].pending_incoming = <<>>
=============================================================================
