----------------------------- MODULE LinuxStore -----------------------------
(***************************************************************************)
(* LockedStore::save (platform/src/linux/store.rs) over a file system that *)
(* can lose power: the temporary file, its fsync, the rename and the fsync *)
(* of the directory, with a helper that can die between any two calls.     *)
(*                                                                         *)
(* Everything happens under the operation lock (HelperSession), so there   *)
(* is one saver at a time.  A helper saves at most once, so the sequence   *)
(* number of a temporary name is always 0 and its process id is the name.  *)
(*                                                                         *)
(* The file system, its write-back and its power losses are FileSystem.    *)
(***************************************************************************)
EXTENDS FileSystem, Naturals

VARIABLES
  pc,           \* control point of the saver
  pid,          \* its process
  target,       \* the record it saves
  file,         \* the inode it has open
  answer        \* what save returned

locals == <<pid, target, file>>
vars   == <<fs, pc, locals, answer>>

PCs == {"idle", "load", "create", "write", "sync", "rename", "cleanup",
        "syncdir", "done"}
Answers == {"none", "ok", "error", "unknown"}

Init ==
  /\ InitFs
  /\ pc = "idle" /\ answer = "none"
  /\ pid \in Pids /\ target \in Targets /\ file = Missing

(***************************************************************************)
(* The saver.                                                              *)
(***************************************************************************)

Finish(a) == pc' = "done" /\ answer' = a

\* A process holding the lock calls save.
Begin(p, t) ==
  /\ pc = "idle"
  /\ pid' = p /\ target' = t /\ file' = Missing
  /\ pc' = "load" /\ answer' = "none"
  /\ UNCHANGED fs

\* Fault: the present record is not looked at.
LoadFirstSkipped == pc = "load" /\ pc' = "create" /\ UNCHANGED <<fs, locals, answer>>

\* self.load()? and encode_record(target)?
LoadFirst ==
  /\ pc = "load"
  /\ \/ Finish("error")
     \/ Load(dir, data) # Torn /\ pc' = "create" /\ UNCHANGED answer
  /\ UNCHANGED <<fs, locals>>

\* Exclusive creation of the temporary name.
Create ==
  /\ pc = "create"
  /\ \/ Finish("error") /\ UNCHANGED <<fs, file>>
     \/ \E i \in Inodes :
          /\ CreateFile(pid, i) /\ file' = i
          /\ pc' = "write" /\ UNCHANGED answer
  /\ UNCHANGED <<pid, target>>

\* validate_file on the new file, and the write loop.
Write ==
  /\ pc = "write"
  /\ \/ pc' = "cleanup" /\ UNCHANGED data
     \/ data' = [data EXCEPT ![file] = target] /\ pc' = "sync"
  /\ UNCHANGED <<dir, disk, media, locals, answer>>

\* Fault: no fsync of the file.
SyncSkipped == pc = "sync" /\ pc' = "rename" /\ UNCHANGED <<fs, locals, answer>>

\* fsync of the file.
Sync ==
  /\ pc = "sync"
  /\ \/ pc' = "cleanup" /\ UNCHANGED fs
     \/ pc' = "rename" /\ SyncFile(file)
  /\ UNCHANGED <<locals, answer>>

\* rename over targets.json.
Rename ==
  /\ pc = "rename"
  /\ \/ pc' = "cleanup" /\ UNCHANGED dir
     \/ /\ dir[pid] # Missing
        /\ dir' = [dir EXCEPT ![Record] = dir[pid], ![pid] = Missing]
        /\ pc' = "syncdir"
  /\ UNCHANGED <<disk, data, media, locals, answer>>

\* cleanup_temp: removes the name if it still is the saver's own file; any
\* failure on the way leaves it.  The error of the save stands.
Cleanup ==
  /\ pc = "cleanup"
  /\ UNCHANGED fs \/ (dir[pid] = file /\ Unlink(pid))
  /\ Finish("error")
  /\ UNCHANGED locals

\* Fault: a failed fsync of the directory is ignored.
SyncDirectoryIgnored ==
  /\ pc = "syncdir" /\ Finish("ok") /\ UNCHANGED <<fs, locals>>

\* fsync of the directory; its failure is StoreDurabilityUnknown.
SyncDirectory ==
  /\ pc = "syncdir"
  /\ \/ Finish("unknown") /\ UNCHANGED fs
     \/ Finish("ok") /\ SyncDir
  /\ UNCHANGED locals

\* The helper exits after its answer, or dies: the lock is free again, the
\* file system stays as it is.
Stop ==
  /\ pc # "idle" /\ pc' = "idle" /\ answer' = "none"
  /\ file' = Missing
  /\ UNCHANGED <<fs, pid, target>>

Save ==
  \/ LoadFirst \/ Create \/ Write \/ Sync \/ Rename \/ Cleanup
  \/ SyncDirectory

(***************************************************************************)
(* The file system and the administrator.                                  *)
(***************************************************************************)

\* The kernel writes a file back.
WriteBack(i) == SyncFile(i) /\ UNCHANGED <<pc, locals, answer>>

\* The kernel commits the directory.
Commit == SyncDir /\ UNCHANGED <<pc, locals, answer>>

PowerLoss ==
  /\ LosePower
  /\ pc' = "idle" /\ answer' = "none" /\ file' = Missing
  /\ UNCHANGED <<pid, target>>

\* The administrator deletes a temporary name.
Tidy(n) ==
  /\ dir[n] # Missing /\ Unlink(n)
  /\ UNCHANGED <<pc, locals, answer>>

Next ==
  \/ \E p \in Pids, t \in Targets : Begin(p, t)
  \/ Save \/ Stop
  \/ \E i \in Inodes : WriteBack(i)
  \/ Commit \/ PowerLoss
  \/ \E n \in Pids : Tidy(n)

Spec == Init /\ [][Next]_vars

(***************************************************************************)
(* Properties.                                                             *)
(***************************************************************************)

\* Type invariant.
TypeOK ==
  /\ FsTypeOK
  /\ pc \in PCs /\ pid \in Pids /\ target \in Targets
  /\ file \in Inodes \cup {Missing}
  /\ answer \in Answers

\* A record that can be read now can be read after a power loss at this very
\* moment, whatever the saver was doing and whatever the kernel has written
\* back in which order (store.rs: fsync of the file before the rename).
RecordSurvives == Load(dir, data) # Torn => Load(disk, media) # Torn

\* A save that has answered Ok has put its record on the medium
\* (store.rs: fsync of the directory before Ok).
OkIsDurable ==
  answer = "ok" => Load(dir, data) = target /\ Load(disk, media) = target

\* The control points of the saver as the caller can tell them apart.
Phase ==
  IF pc = "idle" THEN "idle"
  ELSE IF pc = "done" THEN "answered"
  ELSE IF pc = "syncdir" THEN "replaced" ELSE "saving"

Abstract == INSTANCE AtomicRecord WITH
  Unreadable <- Torn,
  value <- Load(dir, data),
  durable <- Load(disk, media),
  phase <- Phase

\* The store implements the atomic record: the rename is the only step that
\* replaces it, no step replaces one that cannot be read, an error leaves it,
\* Ok means durable (store.rs: save).
ImplementsAtomicRecord == Abstract!Spec

=============================================================================
