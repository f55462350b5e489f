------------------------------- MODULE NodeDb -------------------------------
(***************************************************************************)
(* NodeDB (llarp/nodedb.cpp): the contacts a router knows, in memory on the*)
(* event loop, and their files, which jobs on the disk thread write and    *)
(* remove one after the other, while Router::Stop saves everything on the  *)
(* event loop.  The process may crash at any time, also in the middle of a *)
(* file, and is started again from the files.                              *)
(***************************************************************************)
EXTENDS Integers, FiniteSets, Sequences, SequencesExt

CONSTANTS
  Routers,
  Bootstrap,    \* routers of the bootstrap list, whose contact is version 1
  MaxVersion,   \* bound of the model: versions of a contact, by last_updated
  MaxJobs       \* bound of the model: jobs queued for the disk thread

VARIABLES
  m_Entries,   \* the contacts in memory: router -> version
  file,        \* file[r]: the version in the file of r, Absent or Junk
  jobs,        \* the disk thread's jobs; the first is being worked on
  phase,       \* of the router: see below
  unsaved      \* routers whose file SaveToDisk has yet to write

vars == <<m_Entries, file, jobs, phase, unsaved>>

Absent == 0
Junk == -1

\* Loop handlers run in these phases; "saving" is SaveToDisk, on the loop itself.
Phases == {"running", "stopping", "saving", "saved", "down"}
Serving == phase \in {"running", "stopping", "saved"}

NoEntries == [r \in {} |-> 0]
Put(entries, r, v) == [q \in DOMAIN entries \union {r} |-> IF q = r THEN v ELSE entries[q]]

WriteJob(entries) == [op |-> "write", rcs |-> entries, left |-> DOMAIN entries]
RemoveJob(S) == [op |-> "remove", left |-> S]

Init ==
  /\ m_Entries = [r \in Bootstrap |-> 1]
  /\ file = [r \in Routers |-> Absent]
  /\ jobs = <<>> /\ phase = "running" /\ unsaved = {}

-----------------------------------------------------------------------------
PutIfNewer(r, v) ==
  /\ Serving
  /\ r \in DOMAIN m_Entries => m_Entries[r] < v
  /\ m_Entries' = Put(m_Entries, r, v)
  /\ UNCHANGED <<file, jobs, phase, unsaved>>

\* The files are removed at once, ahead of the jobs that are queued.
AsyncRemoveManyFromDisk_NotQueued(S) ==
  file' = [r \in Routers |-> IF r \in S THEN Absent ELSE file[r]] /\ UNCHANGED jobs

AsyncRemoveManyFromDisk(S) ==
  /\ Len(jobs) < MaxJobs
  /\ jobs' = Append(jobs, RemoveJob(S))
  /\ UNCHANGED file

Erase(S) ==
  /\ m_Entries' = [r \in DOMAIN m_Entries \ S |-> m_Entries[r]]
  /\ AsyncRemoveManyFromDisk(S)
  /\ UNCHANGED <<phase, unsaved>>

\* A path build found no trace of the router any more.
RemoveOne(r) == Serving /\ Erase({r})

\* Router::Tick removes contacts that expired or are not allowed any more, and
\* RCLookupHandler those that are stale; bootstrap routers stay.
RemoveIf ==
  /\ phase = "running"
  /\ \E S \in SUBSET (DOMAIN m_Entries \ Bootstrap) \ {{}} : Erase(S)

\* The flush interval is over: all contacts are copied for the disk thread.
Tick ==
  /\ phase = "running" /\ Len(jobs) < MaxJobs
  /\ jobs' = Append(jobs, WriteJob(m_Entries))
  /\ UNCHANGED <<m_Entries, file, phase, unsaved>>

\* The disk thread handles one more file of its job, or ends the job.
DiskStep ==
  /\ jobs # <<>>
  /\ LET job == Head(jobs) IN
     IF job.left = {}
       THEN jobs' = Tail(jobs) /\ UNCHANGED file
       ELSE \E r \in job.left :
              /\ jobs' = [jobs EXCEPT ![1].left = @ \ {r}]
              /\ file' = [file EXCEPT ![r] = IF job.op = "write" THEN job.rcs[r] ELSE Absent]
  /\ UNCHANGED <<m_Entries, phase, unsaved>>

-----------------------------------------------------------------------------
(* Stopping and starting                                                       *)

Stop ==
  /\ phase = "running"
  /\ phase' = "stopping"
  /\ UNCHANGED <<m_Entries, file, jobs, unsaved>>

\* 200 ms later; the disk thread goes on meanwhile.
AfterStopIssued ==
  /\ phase = "stopping"
  /\ phase' = "saving" /\ unsaved' = DOMAIN m_Entries
  /\ UNCHANGED <<m_Entries, file, jobs>>

SaveToDisk ==
  /\ phase = "saving"
  /\ IF unsaved = {}
       THEN phase' = "saved" /\ UNCHANGED <<file, unsaved>>
       ELSE \E r \in unsaved :
              /\ unsaved' = unsaved \ {r} /\ file' = [file EXCEPT ![r] = m_Entries[r]]
              /\ UNCHANGED phase
  /\ UNCHANGED <<m_Entries, jobs>>

\* The files that are being written when the process ends.
BeingWritten ==
  IF jobs # <<>> /\ Head(jobs).op = "write" THEN Head(jobs).left \union unsaved ELSE unsaved

Down(files) ==
  /\ phase' = "down" /\ m_Entries' = NoEntries /\ jobs' = <<>> /\ unsaved' = {}
  /\ file' = files

\* AfterStopLinks, another 200 ms later, and Die end the loop; jobs that are still
\* queued then are not done.
AfterStopLinks == phase = "saved" /\ Down(file)
Die == phase = "running" /\ Down(file)

Crash ==
  /\ phase # "down"
  /\ \/ Down(file)
     \/ \E r \in BeingWritten : Down([file EXCEPT ![r] = Junk])

\* Junk and expired files are removed, the others loaded; then the bootstrap list
\* is put over what was loaded (Router::Run).
LoadFromDisk ==
  /\ phase = "down"
  /\ \E expired \in SUBSET {r \in Routers : file[r] # Absent} :
       LET loaded == {r \in Routers : file[r] > 0} \ expired IN
       /\ file' = [r \in Routers |-> IF r \in loaded THEN file[r] ELSE Absent]
       /\ m_Entries' = [r \in loaded \union Bootstrap |-> IF r \in Bootstrap THEN 1 ELSE file[r]]
  /\ phase' = "running"
  /\ UNCHANGED <<jobs, unsaved>>

Next ==
  \/ \E r \in Routers, v \in 1..MaxVersion : PutIfNewer(r, v)
  \/ \E r \in Routers : RemoveOne(r)
  \/ RemoveIf \/ Tick \/ DiskStep
  \/ Stop \/ AfterStopIssued \/ SaveToDisk \/ AfterStopLinks \/ Die
  \/ Crash \/ LoadFromDisk

Spec == Init /\ [][Next]_vars

-----------------------------------------------------------------------------
\* What the file of r holds once the jobs that are queued have been done.
AfterJobs(r) ==
  LET last == SelectLastInSeq(jobs, LAMBDA job : r \in job.left)
  IN IF last = 0 THEN file[r]
     ELSE IF jobs[last].op = "write" THEN jobs[last].rcs[r] ELSE Absent

\* A contact that was removed does not come back: once the disk thread has done
\* what is queued for it, there is no file of a router that the database does not
\* know, and none with a newer contact than the one in memory (which the bootstrap
\* list alone may replace by an older one).  The copy a flush made before the
\* removal, the save at the end and crashes do not change that.
DiskFollows ==
  phase # "down" =>
    \A r \in Routers :
      /\ AfterJobs(r) # Absent => r \in DOMAIN m_Entries
      /\ r \in DOMAIN m_Entries \ Bootstrap => AfterJobs(r) <= m_Entries[r]
=============================================================================
