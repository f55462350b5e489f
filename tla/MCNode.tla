------------------------------- MODULE MCNode -------------------------------
(* Parts of a node that do not interact in one step, each with a small         *)
(* instance.  Only the one chosen at the start moves, so that all but the      *)
(* first, the outbound message handler, share the variables v1..v11.           *)
EXTENDS OutboundMessages, TLC

CONSTANTS A, B, a1, a2, b1, dht, R, zero

MCPathOf == [m \in Msgs |-> CASE m \in {a1, a2} -> A [] m = b1 -> B [] OTHER -> zeroID]

\* Relay messages 0, dht 1 (messages/*.hpp).
MCPriority == [m \in Msgs |-> IF m = dht THEN 1 ELSE 0]
MCRouterOf == [m \in Msgs |-> R]

CONSTANTS k1, k2, k3, k4, us, p1, p2, p3, g1, g2, none, s1, s2, q1, q2, q3

\* Two paths of one client, and one of a master node.
MCKeyOf == (p1 :> k1) @@ (p2 :> k1) @@ (p3 :> k2)
MCIPOf == (s1 :> 1) @@ (s2 :> 2)

\* Halves of addresses: all zeros, all ones, and one of which two and the word 2 of
\* the rest add up to all ones, where a checksum is 0.
MCWords32 == {<<0, 0>>, <<65535, 65535>>, <<1, 65533>>}

VARIABLES v1, v2, v3, v4, v5, v6, v7, v8, v9, v10, v11,
  moves   \* the part that moves

Exit == INSTANCE ExitEndpoint WITH
  Keys <- {k1, k2, k3}, Us <- us, Paths <- {p1, p2, p3}, KeyOf <- MCKeyOf,
  FromRouter <- {p3}, m_HigestAddr <- 2, x <- v1, expired <- v2
Tun == INSTANCE TunAddresses WITH
  Addrs <- {k1, k2, k3, k4}, Us <- us, m_MaxIP <- 4,
  m_IPToAddr <- v1, m_AddrToIP <- v2, m_IPActivity <- v3, m_NextIP <- v4, file <- v5
Routes == INSTANCE RoutePoker WITH
  Routers <- {s1, s2}, IPOf <- MCIPOf, Gateways <- {g1, g2}, NoGateway <- none,
  m_up <- v1, m_CurrentGateway <- v2, m_PokedRoutes <- v3, routes <- v4,
  throughTunnel <- v5, exitDNS <- v6, gateway <- v7, hasExit <- v8, peers <- v9, known <- v10
Tests == INSTANCE ReachabilityTesting WITH
  Routers <- {s1, s2}, Self <- us, MAX_RETESTS_PER_TICK <- 1, MaxDelay <- 1, MaxTests <- 2,
  listed <- v1, testing_queue <- v2, failing <- v3, failing_queue <- v4, tests <- v5
List == INSTANCE MasterNodeList WITH
  MaxVersion <- 5, MaxPosted <- 2, NoActive <- {2, 5},
  version <- v1, m_UpdatingList <- v2, m_LastUpdateHash <- v3, request <- v4, reply <- v5,
  posted <- v6, whitelist <- v7
Stats == INSTANCE PeerDb WITH
  Routers <- {s1, s2}, MaxChanges <- 3, MaxJobs <- 2,
  m_peerStats <- v1, stale <- v2, stored <- v3, flushedLately <- v4, jobs <- v5,
  flushing <- v6, staleStats <- v7, lost <- v8
DNS == INSTANCE DnsServer WITH
  Queries <- {q1, q2, q3},
  threaded <- v1, m_ctx <- v2, asked <- v3, m_Pending <- v4, m_Done <- v5, posted <- v6,
  accepted <- v7, replies <- v8

MNodes == INSTANCE MNodeSessions WITH
  Requests <- {q1, q2}, Packets <- {q1}, Paths <- {p1, p2}, MaxUpstreamQueueLength <- 1,
  s <- v1, told <- v2
Contacts == INSTANCE NodeDb WITH
  Routers <- {s1, s2}, Bootstrap <- {s1}, MaxVersion <- 2, MaxJobs <- 2,
  m_Entries <- v1, file <- v2, jobs <- v3, phase <- v4, unsaved <- v5
Persist == INSTANCE PersistingSessions WITH
  Peers <- {s1}, HopLife <- 2, Margin <- 1, DhtPersist <- 1,
  m_PersistingSessions <- v1, m_Clients <- v2, outbound <- v3, inbound <- v4, hops <- v5,
  wanted <- v6, deregistered <- v7, stopping <- v8
Gossip == INSTANCE RCGossip WITH
  Routers <- {s1}, Us <- us, RCGossipFilterDecayInterval <- 3, GossipOurRCInterval <- 5,
  rcRegenInterval <- 6, StartDelay <- 1,
  m_Filter <- v1, sinceGossip <- v2, rcAge <- v3, uptime <- v4, isListed <- v5, unsent <- v6
Profile == INSTANCE Profiles WITH
  Hops <- 2, MaxCount <- 3, Halvings <- 2, profile <- v1, disabled <- v2, quiet <- v3
Sums == INSTANCE IPChecksums WITH Words32 <- MCWords32, Rests <- {2, 65533}, pkt <- v1
Stream == INSTANCE QuicStream WITH
  BufferSize <- 3, PAUSE_SIZE <- 3, MaxLength <- 2, MaxBytes <- 7,
  buffer <- v1, user_buffers <- v2, start <- v3, unacked_size <- v4, size <- v5,
  unblocked <- v6, triggered <- v7, is_closing <- v8, reading <- v9, appended <- v10,
  acked <- v11
Tunnels == INSTANCE QuicTunnels WITH
  MaxPort <- 2, Conns <- {q1, q2}, MaxStreams <- 1,
  client_tunnels_ <- v1, next_pseudo_port_ <- v2, steps <- v3, tcp <- v4, of <- v5

\* The variables from v_n on, and that a part does not use them.
from11 == <<v11>>
from9 == <<v9, v10, from11>>
from8 == <<v8, from9>>
from7 == <<v7, from8>>
from6 == <<v6, from7>>
from4 == <<v4, v5, from6>>
from3 == <<v3, from4>>
from2 == <<v2, from3>>
from1 == <<v1, from2>>

Unused11 == v11 = none
Unused9 == v9 = none /\ v10 = none /\ Unused11
Unused8 == v8 = none /\ Unused9
Unused7 == v7 = none /\ Unused8
Unused6 == v6 = none /\ Unused7
Unused4 == v4 = none /\ v5 = none /\ Unused6
Unused3 == v3 = none /\ Unused4
Unused2 == v2 = none /\ Unused3
Unused1 == v1 = none /\ Unused2

PartInit ==
  \/ moves = "messages" /\ Unused1
  \/ moves = "exit" /\ Exit!Init /\ Unused3
  \/ moves = "tun" /\ Tun!Init /\ Unused6
  \/ moves = "routes" /\ Routes!Init /\ Unused11
  \/ moves = "tests" /\ Tests!Init /\ Unused6
  \/ moves = "list" /\ List!Init /\ Unused8
  \/ moves = "stats" /\ Stats!Init /\ Unused9
  \/ moves = "dns" /\ DNS!Init /\ Unused9
  \/ moves = "mnodes" /\ MNodes!Init /\ Unused3
  \/ moves = "contacts" /\ Contacts!Init /\ Unused6
  \/ moves = "persist" /\ Persist!Init /\ Unused9
  \/ moves = "gossip" /\ Gossip!Init /\ Unused7
  \/ moves = "profile" /\ Profile!Init /\ Unused4
  \/ moves = "sums" /\ Sums!Init /\ Unused2
  \/ moves = "stream" /\ Stream!Init
  \/ moves = "tunnels" /\ Tunnels!Init /\ Unused6

PartNext ==
  \/ moves = "exit" /\ Exit!Next /\ UNCHANGED from3
  \/ moves = "tun" /\ Tun!Next /\ UNCHANGED from6
  \/ moves = "routes" /\ Routes!Next /\ UNCHANGED from11
  \/ moves = "tests" /\ Tests!Next /\ UNCHANGED from6
  \/ moves = "list" /\ List!Next /\ UNCHANGED from8
  \/ moves = "stats" /\ Stats!Next /\ UNCHANGED from9
  \/ moves = "dns" /\ DNS!Next /\ UNCHANGED from9
  \/ moves = "mnodes" /\ MNodes!Next /\ UNCHANGED from3
  \/ moves = "contacts" /\ Contacts!Next /\ UNCHANGED from6
  \/ moves = "persist" /\ Persist!Next /\ UNCHANGED from9
  \/ moves = "gossip" /\ Gossip!Next /\ UNCHANGED from7
  \/ moves = "profile" /\ Profile!Next /\ UNCHANGED from4
  \/ moves = "sums" /\ Sums!Next /\ UNCHANGED from2
  \/ moves = "stream" /\ Stream!Next
  \/ moves = "tunnels" /\ Tunnels!Next /\ UNCHANGED from6

NodeInit == Init /\ PartInit

NodeNext ==
  \/ moves = "messages" /\ Next /\ UNCHANGED <<from1, moves>>
  \/ PartNext /\ UNCHANGED <<vars, moves>>

NodeSpec ==
  /\ NodeInit /\ [][NodeNext]_<<vars, from1, moves>>
  /\ WF_vars(moves = "messages" /\ Pump) /\ WF_vars(moves = "messages" /\ LoopStep)
  /\ WF_vars(moves = "messages" /\ LinkActivity)

-----------------------------------------------------------------------------
(* The properties of the parts, each stated with its comment in its module;    *)
(* the ones about one subject are checked together.                            *)

\* No two peers share an address and no address changes hands unnoticed, at the exit
\* (GetIPForIdent, KickIdentOffExit) and at the tunnel interface (ObtainIPForAddr); a
\* packet whose addresses are rewritten on the way keeps the checksum that its
\* receiver will verify (UpdateIPAddress); and a gateway that the poker has on record
\* for a peer is the one of a route in the operating system's table, the default route
\* going through the tunnel only while the poker is up (AddRoute, DisableRoute, Up,
\* Down).
AddressesAgree ==
  /\ moves = "exit" => Exit!ExitAddressesAgree
  /\ moves = "tun" => Tun!TunAddressesAgree
  /\ moves = "sums" => Sums!ChecksumsHold
  /\ moves = "routes" => Routes!RoutesRecorded

\* Other routers are followed up: one that failed its test is tested again
\* (add_failing_node), lists of master nodes are applied in their order
\* (HandleNewMasterNodeList), sessions are kept while hops over them live
\* (PersistSessionUntil), our changed contact goes out (Tick, GossipRC) and a bad
\* profile is forgiven in time (Decay).
RoutersFollowed ==
  /\ moves = "tests" => Tests!FailingIsRetested
  /\ moves = "list" => List!ListsInOrder
  /\ moves = "persist" => Persist!CommitmentsHeld
  /\ moves = "gossip" => Gossip!OurContactGoesOut
  /\ moves = "profile" => Profile!Forgiven

\* What is on disk follows what is in memory: the statistics of peers (flushDatabase)
\* and the contacts of routers (NodeDB::Put, RemoveIf, SaveToDisk).
DiskFollowsMemory ==
  /\ moves = "stats" => Stats!ChangesAreFlushed
  /\ moves = "contacts" => Contacts!DiskFollows

\* Who waits is answered, and once: a DNS query (SendReply), a hook for a session with
\* a master node (AddReadyHook, CallPendingCallbacks), the bytes of a stream and its
\* paused TCP connection (append, acknowledge, handle_unblocked), a TCP connection
\* that waits for a stream (flush_pending_incoming).
WaitersServed ==
  /\ moves = "dns" => DNS!AnsweredOnce
  /\ moves = "mnodes" => MNodes!MNodeHooksTold
  /\ moves = "stream" => Stream!StreamsHold
  /\ moves = "tunnels" => Tunnels!TunnelsTracked
=============================================================================
