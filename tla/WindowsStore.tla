----------------------------- MODULE WindowsStore -----------------------------
(***************************************************************************)
(* WindowsProtectedStore::save (platform/src/windows/store.rs) over        *)
(* FileSystem.  Two paths share their steps: the first save creates        *)
(* targets.json itself and fills it in place; every later one fills a      *)
(* temporary file and calls ReplaceFileW.                                  *)
(*                                                                         *)
(* It promises less than AtomicRecord.  A first save that fails leaves a   *)
(* record that cannot be read, and ReplaceFileW may fail after it has      *)
(* replaced the record or taken it away; the store preserves what it finds *)
(* for the administrator and says that the outcome is unknown.             *)
(*                                                                         *)
(* The operation mutex makes savers take turns.  The checks of types,      *)
(* owners, access lists and containment can fail at every step.            *)
(***************************************************************************)
EXTENDS FileSystem

VARIABLES
  pc,      \* control point of the saver
  pid,     \* its process
  target,  \* the record it saves
  name,    \* the file it creates: targets.json or a temporary name
  file,    \* the inode behind it
  answer,  \* what save returned
  before   \* history: the record when save began, and whether it was safe

locals == <<pid, target, name, file, before>>
vars   == <<fs, pc, locals, answer>>

PCs == {"idle", "load", "create", "write", "flush", "discard", "replace",
        "revalidate", "syncdir", "done"}
Answers == {"none", "ok", "error", "unknown"}

\* Readable now and after a power loss, whatever has been written back.
Safe ==
  {Load(dir, data), Load(dir, media), Load(disk, media)} \subseteq Targets

Now == [record |-> Load(dir, data), safe |-> Safe]

Init ==
  /\ InitFs
  /\ pc = "idle" /\ answer = "none"
  /\ pid \in Pids /\ target \in Targets /\ name = Record /\ file = Missing
  /\ before = Now

(***************************************************************************)
(* The saver.                                                              *)
(***************************************************************************)

\* "error" is every error but StoreDurabilityUnknown, which is "unknown".
Finish(a) == pc' = "done" /\ answer' = a

Begin(p, t) ==
  /\ pc = "idle" /\ pc' = "load"
  /\ pid' = p /\ target' = t /\ before' = Now
  /\ UNCHANGED <<fs, name, file, answer>>

\* Fault: a record that cannot be read is replaced like any other.
LoadFirstLenient ==
  /\ pc = "load" /\ pc' = "create"
  /\ name' = IF dir[Record] = Missing THEN Record ELSE pid
  /\ UNCHANGED <<fs, pid, target, file, before, answer>>

\* load_inner and encode_record: the record decides the path.
LoadFirst ==
  /\ pc = "load"
  /\ \/ Finish("error") /\ UNCHANGED name
     \/ /\ Load(dir, data) # Torn
        /\ name' = IF Load(dir, data) = Missing THEN Record ELSE pid
        /\ pc' = "create" /\ UNCHANGED answer
  /\ UNCHANGED <<fs, pid, target, file, before>>

\* create_exclusive_file, and the check of a first record's handle: once the
\* name exists, a doubt about it makes the outcome unknown.
Create ==
  /\ pc = "create"
  /\ \/ Finish("error") /\ UNCHANGED <<fs, file>>
     \/ \E i \in Inodes :
          /\ CreateFile(name, i) /\ file' = i
          /\ Finish("unknown") \/ (pc' = "write" /\ UNCHANGED answer)
  /\ UNCHANGED <<pid, target, name, before>>

\* A failure before the replacement.  A first record stays as it is, a
\* temporary file is discarded.
Abandon ==
  IF name = Record THEN Finish("error") ELSE pc' = "discard" /\ UNCHANGED answer

\* The write loop; a failure can come after any part has been written.
Write ==
  /\ pc = "write"
  /\ \/ Abandon /\ UNCHANGED data
     \/ Abandon /\ data' = [data EXCEPT ![file] = target]
     \/ /\ pc' = "flush" /\ UNCHANGED answer
        /\ data' = [data EXCEPT ![file] = target]
  /\ UNCHANGED <<dir, disk, media, locals>>

\* Fault: the file is closed without having been flushed.
FlushSkipped ==
  /\ pc = "flush"
  /\ pc' = IF name = Record THEN "revalidate" ELSE "replace"
  /\ UNCHANGED <<fs, locals, answer>>

\* flush and close of the file.
Flush ==
  /\ pc = "flush"
  /\ \/ Abandon /\ (UNCHANGED fs \/ SyncFile(file))
     \/ /\ pc' = IF name = Record THEN "revalidate" ELSE "replace"
        /\ SyncFile(file) /\ UNCHANGED answer
  /\ UNCHANGED locals

\* cleanup: the temporary name is removed if it can be; a removal whose place
\* is in doubt makes the outcome unknown.
Discard ==
  /\ pc = "discard"
  /\ UNCHANGED fs \/ (dir[name] # Missing /\ Unlink(name))
  /\ Finish("error") \/ Finish("unknown")
  /\ UNCHANGED locals

\* The effects of ReplaceFileW on the directory.
Replaced == dir' = [dir EXCEPT ![Record] = dir[name], ![name] = Missing]
Removed  == dir' = [dir EXCEPT ![Record] = Missing]

Replaceable == dir[Record] # Missing /\ dir[name] # Missing

\* Fault: a failed ReplaceFileW is cleaned up after.
ReplaceTidied ==
  /\ pc = "replace"
  /\ \/ /\ pc' = "discard" /\ UNCHANGED answer
        /\ UNCHANGED dir \/ (Replaceable /\ (Replaced \/ Removed))
     \/ Replaceable /\ Replaced /\ pc' = "revalidate" /\ UNCHANGED answer
  /\ UNCHANGED <<disk, data, media, locals>>

\* replace_file.  An error may come before the call, or from a call that has
\* replaced the record, left it, or taken it away; nothing is retried or
\* removed.
Replace ==
  /\ pc = "replace"
  /\ \/ Finish("unknown") /\ (UNCHANGED dir \/ (Replaceable /\ (Replaced \/ Removed)))
     \/ Replaceable /\ Replaced /\ pc' = "revalidate" /\ UNCHANGED answer
  /\ UNCHANGED <<disk, data, media, locals>>

\* revalidate_directory_and_record
Revalidate ==
  /\ pc = "revalidate"
  /\ \/ Finish("unknown")
     \/ dir[Record] # Missing /\ pc' = "syncdir" /\ UNCHANGED answer
  /\ UNCHANGED <<fs, locals>>

\* Fault: a failed flush of the directory is ignored.
SyncDirectoryIgnored == pc = "syncdir" /\ Finish("ok") /\ UNCHANGED <<fs, locals>>

\* The flush of the directory handle.
SyncDirectory ==
  /\ pc = "syncdir"
  /\ \/ Finish("unknown") /\ UNCHANGED fs
     \/ Finish("ok") /\ SyncDir
  /\ UNCHANGED locals

\* The helper exits after its answer, or dies.
Stop ==
  /\ pc # "idle" /\ pc' = "idle" /\ answer' = "none"
  /\ UNCHANGED <<fs, locals>>

Save ==
  \/ LoadFirst \/ Create \/ Write \/ Flush \/ Discard \/ Replace \/ Revalidate
  \/ SyncDirectory

(***************************************************************************)
(* The file system and the administrator.                                  *)
(***************************************************************************)

WriteBack(i) == SyncFile(i) /\ UNCHANGED <<pc, locals, answer>>

Commit == SyncDir /\ UNCHANGED <<pc, locals, answer>>

PowerLoss ==
  /\ LosePower
  /\ pc' = "idle" /\ answer' = "none"
  /\ UNCHANGED locals

\* Between two operations the administrator removes a temporary file, or a
\* record that cannot be read.
Repair(n) ==
  /\ pc = "idle" /\ dir[n] # Missing
  /\ n = Record => Load(dir, data) = Torn
  /\ Unlink(n)
  /\ UNCHANGED <<pc, locals, answer>>

Next ==
  \/ \E p \in Pids, t \in Targets : Begin(p, t)
  \/ Save \/ Stop
  \/ \E i \in Inodes : WriteBack(i)
  \/ Commit \/ PowerLoss
  \/ \E n \in Names : Repair(n)

Spec == Init /\ [][Next]_vars

(***************************************************************************)
(* Properties.                                                             *)
(***************************************************************************)

\* Type invariant.
TypeOK ==
  /\ FsTypeOK
  /\ pc \in PCs /\ pid \in Pids /\ target \in Targets /\ name \in Names
  /\ file \in Inodes \cup {Missing}
  /\ answer \in Answers
  /\ before.record \in Contents \cup {Missing} /\ before.safe \in BOOLEAN

\* A save that has answered Ok has put its record on the medium, on either
\* path (store.rs: save_inner flushes the file before and the directory after).
OkIsDurable ==
  answer = "ok" => Load(dir, data) = target /\ Load(disk, media) = target

\* A save that starts over a safe record never leads to one that cannot be
\* read, now or after a power loss at any moment (store.rs: the temporary file
\* is flushed before ReplaceFileW).  It can lead to no record.
ReplacementPreserves ==
  before.safe =>
    Torn \notin {Load(dir, data), Load(dir, media), Load(disk, media)}

\* A save that does not say Ok or StoreDurabilityUnknown has left the record
\* that was there, and no save touches one it cannot read (store.rs: save_inner
\* reloads so that unknown records cannot be overwritten; a failed ReplaceFileW
\* is an unknown outcome).
RecordIsKept ==
  /\ answer = "error" /\ before.record # Missing => Load(dir, data) = before.record
  /\ pc # "idle" /\ before.record = Torn => Load(dir, data) = Torn

\* Whatever ReplaceFileW did, some file the saver leaves behind holds a whole
\* record, the old or the new one (store.rs: never delete the replacement).
SomeCopyRemains ==
  pc # "idle" /\ before.record \in Targets =>
    \E n \in Names : dir[n] # Missing /\ data[dir[n]] \in {before.record, target}

=============================================================================
