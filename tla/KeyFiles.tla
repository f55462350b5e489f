------------------------------ MODULE KeyFiles ------------------------------
(***************************************************************************)
(* A relay's key files (llarp/config/key_manager.cpp, with the file         *)
(* functions it calls): a start reads the router contact, moves everything  *)
(* to backups when the contact is out of date, and loads or creates each    *)
(* key.  The process may be killed between any two file operations, a       *)
(* rename may fail, and a write may be cut short by a crash or a full disk. *)
(* (A client's keys are made in memory and touch no file.)                  *)
(***************************************************************************)
EXTENDS Integers, Sequences

CONSTANTS
  MaxBackups,  \* the backup names per file (9 in the code)
  MaxKeys      \* the keys generated, over all starts

VARIABLES
  file,      \* what each file holds
  backup,    \* the backups of each file, by number
  whitelistRouters, \* identity comes from beldexd, not from a file
  pc,        \* "stopped", "backup", "keys", "running" or "failed"
  todo,      \* the files initialize has still to move, or to load
  key,       \* the keys in memory
  nextKey,   \* the next key a generator makes
  written    \* (history) the keys whose file was written completely

vars == <<file, backup, whitelistRouters, pc, todo, key, nextKey, written>>

Files == <<"rc", "id", "enc", "transport">>
KeyNames == {"id", "enc", "transport"}
FileNames == {"rc"} \cup KeyNames

Nothing == 0    \* no file, or a key not loaded
Torn == -1      \* a file whose writing was cut short
Garbage == -2   \* a key read from such a file and the unset memory behind it
Current == -3   \* a contact that verifies
Stale == -4     \* a contact that reads but does not verify

Init ==
  /\ file = [f \in FileNames |-> Nothing]
  /\ backup = [f \in FileNames |-> <<>>]
  /\ whitelistRouters \in BOOLEAN
  /\ pc = "stopped" /\ todo = <<>>
  /\ key = [f \in KeyNames |-> Nothing]
  /\ nextKey = 1 /\ written = {}

KeyFilesUsed == IF whitelistRouters THEN <<"enc", "transport">> ELSE <<"id", "enc", "transport">>

\* KeyManager::initialize up to the backup: RouterContact::Read decodes the
\* whole buffer, so a torn contact may read as one that does not verify.
\* A contact that cannot be read needs no backup.
Initialize ==
  /\ pc = "stopped"
  /\ \E rc \in IF file["rc"] = Torn THEN {Nothing, Stale} ELSE {file["rc"]} :
       IF rc = Stale
       THEN pc' = "backup" /\ todo' = Files
       ELSE pc' = "keys" /\ todo' = KeyFilesUsed
  /\ UNCHANGED <<file, backup, whitelistRouters, key, nextKey, written>>

\* Mutant: the last backup is overwritten.
MoveOverLast(f) ==
  backup' = [backup EXCEPT ![f] = IF @ = <<>> THEN <<file[f]>> ELSE [@ EXCEPT ![Len(@)] = file[f]]]

\* findFreeBackupFilename.
FreeBackup(f) == Len(backup[f]) < MaxBackups
Move(f) == backup' = [backup EXCEPT ![f] = Append(@, file[f])]

\* KeyManager::backupFileByMoving for the next file: nothing to do when there
\* is none, failure when no name is free or the rename fails.
backupFileByMoving ==
  /\ pc = "backup" /\ todo # <<>>
  /\ LET f == Head(todo)
     IN \/ /\ file[f] = Nothing
           /\ todo' = Tail(todo) /\ UNCHANGED <<file, backup, pc>>
        \/ /\ file[f] # Nothing /\ FreeBackup(f)
           /\ Move(f)
           /\ file' = [file EXCEPT ![f] = Nothing]
           /\ todo' = Tail(todo) /\ UNCHANGED pc
        \/ /\ file[f] # Nothing
           /\ pc' = "failed" /\ UNCHANGED <<file, backup, todo>>
  /\ UNCHANGED <<whitelistRouters, key, nextKey, written>>

backupDone ==
  /\ pc = "backup" /\ todo = <<>>
  /\ pc' = "keys" /\ todo' = KeyFilesUsed
  /\ UNCHANGED <<file, backup, whitelistRouters, key, nextKey, written>>

\* Mutant: a key is generated although there is a file.
CreateAlways ==
  /\ pc = "keys" /\ todo # <<>> /\ nextKey <= MaxKeys
  /\ nextKey' = nextKey + 1
  /\ file' = [file EXCEPT ![Head(todo)] = nextKey]
  /\ written' = written \cup {nextKey}
  /\ UNCHANGED <<backup, whitelistRouters, todo, key, pc>>

\* KeyManager::loadOrCreateKey for the next key, when there is no file: the
\* new key is saved (SecretKey::SaveToFile).  util::dump_file reports a failed
\* open or write, not a failed flush, so a torn file may pass for a saved one.
createKey ==
  /\ pc = "keys" /\ todo # <<>> /\ file[Head(todo)] = Nothing /\ nextKey <= MaxKeys
  /\ nextKey' = nextKey + 1
  /\ \/ /\ file' = [file EXCEPT ![Head(todo)] = nextKey]
        /\ written' = written \cup {nextKey} /\ UNCHANGED pc
     \/ /\ file' = [file EXCEPT ![Head(todo)] = Torn]
        /\ pc' \in {"keys", "failed"} /\ UNCHANGED written
     \/ /\ pc' = "failed" /\ UNCHANGED <<file, written>>
  /\ UNCHANGED <<backup, whitelistRouters, todo, key>>

\* ... and when there is one: SecretKey::LoadFromFile.  A torn file is decoded
\* with whatever the buffer held behind it: it fails, or yields some key.
loadKey ==
  /\ pc = "keys" /\ todo # <<>> /\ file[Head(todo)] # Nothing
  /\ LET f == Head(todo)
     IN \/ /\ key' = [key EXCEPT ![f] = IF file[f] = Torn THEN Garbage ELSE file[f]]
           /\ todo' = Tail(todo) /\ UNCHANGED pc
        \/ /\ file[f] = Torn
           /\ pc' = "failed" /\ UNCHANGED <<key, todo>>
  /\ UNCHANGED <<file, backup, whitelistRouters, nextKey, written>>

Initialized ==
  /\ pc = "keys" /\ todo = <<>>
  /\ pc' = "running"
  /\ UNCHANGED <<file, backup, whitelistRouters, todo, key, nextKey, written>>

\* Router::SaveRC and HandleSaveRC: the running relay writes its contact.
SaveRC ==
  /\ pc = "running"
  /\ file' = [file EXCEPT !["rc"] = Current]
  /\ UNCHANGED <<backup, whitelistRouters, pc, todo, key, nextKey, written>>

Forgotten == key' = [f \in KeyNames |-> Nothing]

\* The process ends, by itself after a failure or at any time.
Exit ==
  /\ pc # "stopped"
  /\ pc' = "stopped" /\ todo' = <<>> /\ Forgotten
  /\ UNCHANGED <<file, backup, whitelistRouters, nextKey, written>>

\* ... in the middle of writing the contact.
ExitWriting ==
  /\ pc = "running"
  /\ file' = [file EXCEPT !["rc"] = Torn]
  /\ pc' = "stopped" /\ todo' = <<>> /\ Forgotten
  /\ UNCHANGED <<backup, whitelistRouters, nextKey, written>>

\* A new version of the program no longer accepts the contact's signature.
Upgrade ==
  /\ pc = "stopped" /\ file["rc"] = Current
  /\ file' = [file EXCEPT !["rc"] = Stale]
  /\ UNCHANGED <<backup, whitelistRouters, pc, todo, key, nextKey, written>>

Next ==
  \/ Initialize \/ backupFileByMoving \/ backupDone \/ createKey \/ loadKey
  \/ Initialized \/ SaveRC \/ Exit \/ ExitWriting \/ Upgrade

Spec == Init /\ [][Next]_vars

-----------------------------------------------------------------------------
\* Whatever starts, upgrades and crashes come between, a key that was once
\* written to its file is still there or in one of the backups, and a running
\* relay uses the key its file holds, unless that file is torn
\* (KeyManager::backupKeyFilesByMoving, loadOrCreateKey).
KeysKept ==
  /\ \A k \in written :
       \E f \in KeyNames : file[f] = k \/ \E i \in DOMAIN backup[f] : backup[f][i] = k
  /\ pc = "running" =>
       \A f \in KeyNames : key[f] \notin {Nothing, Garbage} => file[f] = key[f]
=============================================================================
