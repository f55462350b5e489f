------------------------------- MODULE PeerDb -------------------------------
(***************************************************************************)
(* PeerDb (llarp/peerstats/peer_db.cpp): statistics about peers, changed   *)
(* in memory by the event loop and written to a database by jobs of the    *)
(* disk thread, which run one after the other.                             *)
(***************************************************************************)
EXTENDS Naturals, FiniteSets

CONSTANTS
  Routers,
  MaxChanges,  \* bound of the model: changes of a router's statistics
  MaxJobs      \* bound of the model: flushes queued at a time

VARIABLES
  m_peerStats,   \* the statistics of r are those after m_peerStats[r] changes
  stale,         \* the entries with the flag set
  stored,        \* the rows of the database
  flushedLately, \* less than TargetFlushInterval since m_lastFlush
  jobs,          \* flushes queued with QueueDiskIO
  flushing,      \* the disk thread is in flushDatabase
  staleStats,    \* its local: copies of entries
  lost           \* entries whose last copy was in a transaction that failed

vars == <<m_peerStats, stale, stored, flushedLately, jobs, flushing, staleStats, lost>>

NoStats == [r \in {} |-> 0]

Init ==
  /\ m_peerStats = [r \in Routers |-> 0]
  /\ stored = [r \in Routers |-> 0]
  /\ stale = {} /\ lost = {}
  /\ flushedLately = FALSE
  /\ jobs = 0 /\ flushing = FALSE /\ staleStats = NoStats

\* accumulatePeerStats, modifyPeerStats, handleGossipedRC with a new contact.
modifyPeerStats(r) ==
  /\ m_peerStats[r] < MaxChanges
  /\ m_peerStats' = [m_peerStats EXCEPT ![r] = @ + 1]
  /\ stale' = stale \cup {r}
  /\ lost' = lost \ {r}
  /\ UNCHANGED <<stored, flushedLately, jobs, flushing, staleStats>>

\* Router::Tick.
QueueFlush ==
  /\ ~flushedLately
  /\ jobs < MaxJobs
  /\ jobs' = jobs + 1
  /\ UNCHANGED <<m_peerStats, stale, stored, flushedLately, flushing, staleStats, lost>>

\* A job that comes too early does nothing; otherwise the stale entries are
\* copied, and no longer stale, under the lock.
StartFlush ==
  /\ jobs > 0 /\ ~flushing
  /\ jobs' = jobs - 1
  /\ IF flushedLately THEN UNCHANGED <<stale, flushing, staleStats>>
     ELSE /\ flushing' = TRUE
          /\ staleStats' = [r \in stale |-> m_peerStats[r]]
          /\ stale' = {}
  /\ UNCHANGED <<m_peerStats, stored, flushedLately, lost>>

Commit_MarksClean ==
  /\ flushing
  /\ stored' = [r \in Routers |-> IF r \in DOMAIN staleStats THEN staleStats[r] ELSE stored[r]]
  /\ stale' = stale \ DOMAIN staleStats
  /\ flushing' = FALSE /\ staleStats' = NoStats
  /\ flushedLately' = TRUE
  /\ UNCHANGED <<m_peerStats, jobs, lost>>

Commit ==
  /\ flushing
  /\ stored' = [r \in Routers |-> IF r \in DOMAIN staleStats THEN staleStats[r] ELSE stored[r]]
  /\ flushing' = FALSE /\ staleStats' = NoStats
  /\ flushedLately' = TRUE
  /\ UNCHANGED <<m_peerStats, stale, jobs, lost>>

\* The database throws, and the job catches it: the copies are gone.
FlushFails ==
  /\ flushing
  /\ lost' = lost \cup (DOMAIN staleStats \ stale)
  /\ flushing' = FALSE /\ staleStats' = NoStats
  /\ UNCHANGED <<m_peerStats, stale, stored, flushedLately, jobs>>

IntervalPasses ==
  /\ flushedLately /\ flushedLately' = FALSE
  /\ UNCHANGED <<m_peerStats, stale, stored, jobs, flushing, staleStats, lost>>

Next ==
  \/ \E r \in Routers : modifyPeerStats(r)
  \/ QueueFlush \/ StartFlush \/ Commit \/ FlushFails \/ IntervalPasses

-----------------------------------------------------------------------------
(* Properties.                                                             *)

\* No change is missed because it came while the disk thread was writing: what
\* the database does not have yet is marked stale or is among the copies being
\* written, unless its transaction failed (flushDatabase, modifyPeerStats).
ChangesAreFlushed ==
  \A r \in Routers : stored[r] # m_peerStats[r] =>
    \/ r \in stale
    \/ r \in DOMAIN staleStats /\ staleStats[r] = m_peerStats[r]
    \/ r \in lost
=============================================================================
