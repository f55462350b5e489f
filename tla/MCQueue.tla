------------------------------ MODULE MCQueue -------------------------------
(* The queue between threads (ThreadQueue), and the files a node is started     *)
(* from: its configuration (Config) and its keys (KeyFiles).  Only the one      *)
(* chosen at the start moves, so that the last two share the variables v1..v12. *)
EXTENDS ThreadQueue

VARIABLES v1, v2, v3, v4, v5, v6, v7, v8, v9, v10, v11, v12,
  moves   \* "queue", "config" or "keys"

Options == INSTANCE Config WITH
  MaxLines <- 2,
  mode <- v1, opt <- v2, ini <- v3, conf_d <- v4, m_Overrides <- v5, saving <- v6, pc <- v7,
  todo <- v8, parsed <- v9, held <- v10, atStart <- v11, asked <- v12
Keys == INSTANCE KeyFiles WITH
  MaxBackups <- 2, MaxKeys <- 5,
  file <- v1, backup <- v2, whitelistRouters <- v3, pc <- v4, todo <- v5, key <- v6,
  nextKey <- v7, written <- v8

from9 == <<v9, v10, v11, v12>>
from1 == <<v1, v2, v3, v4, v5, v6, v7, v8, from9>>
Unused9 == v9 = 0 /\ v10 = 0 /\ v11 = 0 /\ v12 = 0
Unused1 == v1 = 0 /\ v2 = 0 /\ v3 = 0 /\ v4 = 0 /\ v5 = 0 /\ v6 = 0 /\ v7 = 0 /\ v8 = 0 /\ Unused9

QueueInit ==
  /\ Init
  /\ \/ moves = "queue" /\ Unused1
     \/ moves = "config" /\ Options!Init
     \/ moves = "keys" /\ Keys!Init /\ Unused9

QueueNext ==
  \/ moves = "queue" /\ Next /\ UNCHANGED <<from1, moves>>
  \/ moves = "config" /\ Options!Next /\ UNCHANGED <<vars, moves>>
  \/ moves = "keys" /\ Keys!Next /\ UNCHANGED <<vars, from9, moves>>

QueueSpec == QueueInit /\ [][QueueNext]_<<vars, from1, moves>>

\* A node starts from what its files say: with the configuration its file and the
\* saved overrides give it (Config::LoadConfigData), and without ever losing a key
\* it wrote before (KeyManager::initialize).
StartsAsGiven ==
  /\ moves = "config" => Options!ConfigAsGiven
  /\ moves = "keys" => Keys!KeysKept
==============================================================================
