--------------------------- MODULE MasterNodeList ---------------------------
(***************************************************************************)
(* How a master node follows beldexd's list of master nodes                *)
(* (llarp/rpc/beldexd_rpc_client.cpp).  Block notifications, a timer and   *)
(* the replies run on threads of the message queue; the list is handed to  *)
(* the router on the event loop.  A list is named by its version, which is *)
(* also the hash of its block.                                             *)
(***************************************************************************)
EXTENDS Naturals, Sequences, SequencesExt

CONSTANTS
  MaxVersion,   \* bound of the model: blocks
  MaxPosted,    \* bound of the model: lists the event loop has not taken yet
  NoActive      \* versions of the list without an active master node

None == 0       \* no hash, no list

VARIABLES
  version,           \* beldexd: the list of its newest block
  m_UpdatingList,
  m_LastUpdateHash,
  request,           \* the request sent: none, or its poll_block_hash
  reply,             \* the reply the callback is working on, and how far it is
  posted,            \* lists posted to the event loop
  whitelist          \* the list the router has

vars == <<version, m_UpdatingList, m_LastUpdateHash, request, reply, posted, whitelist>>

NoRequest == MaxVersion + 1
NoReply == [stage |-> "none"]

Init ==
  /\ version = 1
  /\ m_UpdatingList = FALSE /\ m_LastUpdateHash = None
  /\ request = NoRequest /\ reply = NoReply
  /\ posted = <<>> /\ whitelist = None

\* HandleNewBlock or the timer of Connected; a notification may be lost.
UpdateMasterNodeList ==
  /\ ~m_UpdatingList /\ Len(posted) < MaxPosted
  /\ m_UpdatingList' = TRUE
  /\ request' = m_LastUpdateHash
  /\ UNCHANGED <<version, m_LastUpdateHash, reply, posted, whitelist>>

NewBlock ==
  /\ version < MaxVersion
  /\ version' = version + 1
  /\ UNCHANGED <<m_UpdatingList, m_LastUpdateHash, request, reply, posted, whitelist>>

\* External: beldexd answers with its list, or that it is unchanged since the hash
\* it was given; or the request fails or has a reply that cannot be used.
Reply ==
  /\ request # NoRequest
  /\ request' = NoRequest
  /\ reply' \in {[stage |-> "done"], IF request = version THEN [stage |-> "done"]
                                     ELSE [stage |-> "list", list |-> version]}
  /\ UNCHANGED <<version, m_UpdatingList, m_LastUpdateHash, posted, whitelist>>

HandleNewMasterNodeList_HashFirst ==
  /\ reply.stage = "list"
  /\ \/ /\ posted' = IF reply.list \in NoActive THEN posted ELSE Append(posted, reply.list)
        /\ reply' = [reply EXCEPT !.stage = "hash"]
     \/ reply' = [stage |-> "done"] /\ UNCHANGED posted
  /\ m_LastUpdateHash' = reply.list
  /\ UNCHANGED <<version, m_UpdatingList, request, whitelist>>

\* A list without active routers is ignored; one that cannot be read throws.
HandleNewMasterNodeList ==
  /\ reply.stage = "list"
  /\ \/ /\ posted' = IF reply.list \in NoActive THEN posted ELSE Append(posted, reply.list)
        /\ reply' = [reply EXCEPT !.stage = "hash"]
     \/ reply' = [stage |-> "done"] /\ UNCHANGED posted
  /\ UNCHANGED <<version, m_UpdatingList, m_LastUpdateHash, request, whitelist>>

\* The reply may have no block_hash.
SetLastUpdateHash ==
  /\ reply.stage = "hash"
  /\ m_LastUpdateHash' \in {reply.list, None}
  /\ reply' = [stage |-> "done"]
  /\ UNCHANGED <<version, m_UpdatingList, request, posted, whitelist>>

UpdateDone ==
  /\ reply.stage = "done"
  /\ reply' = NoReply
  /\ m_UpdatingList' = FALSE
  /\ UNCHANGED <<version, m_LastUpdateHash, request, posted, whitelist>>

SetRouterWhitelist ==
  /\ posted # <<>>
  /\ whitelist' = Head(posted)
  /\ posted' = Tail(posted)
  /\ UNCHANGED <<version, m_UpdatingList, m_LastUpdateHash, request, reply>>

Next ==
  \/ UpdateMasterNodeList \/ NewBlock \/ Reply \/ HandleNewMasterNodeList
  \/ SetLastUpdateHash \/ UpdateDone \/ SetRouterWhitelist

-----------------------------------------------------------------------------
(* Properties.                                                             *)

\* The lists reach the router in the order of their blocks, and beldexd is not
\* told that a list is known unless that list, if it has active routers, has
\* been handed to the router: "so that the 1) we don't start updating until
\* we're completely finished with the previous update; and 2) so that
\* m_UpdatingList also guards m_LastUpdateHash" (UpdateMasterNodeList).
ListsInOrder ==
  LET lists == <<whitelist>> \o posted
  IN /\ \A i, j \in DOMAIN lists : i < j => lists[i] <= lists[j]
     /\ m_LastUpdateHash \in NoActive \cup {None} \/ m_LastUpdateHash <= Last(lists)
=============================================================================
