------------------------------ MODULE FileSystem ------------------------------
(***************************************************************************)
(* A file system that can lose power, as the protected stores use it: one  *)
(* directory with the record and the temporary names, and file contents.   *)
(* It is outside the repository; the stores' order of calls is what makes  *)
(* it safe.                                                                *)
(*                                                                         *)
(* There is a visible and a durable copy of the directory and of every     *)
(* file.  Write-back may happen at any time and in any order; a power loss *)
(* leaves the durable copies.  A content is a whole record or Torn, which  *)
(* stands for all that decoding or the checks of a file's metadata reject. *)
(***************************************************************************)
CONSTANTS
  Targets,    \* target records
  Torn,       \* a content that load rejects
  Missing,    \* no file
  Pids,       \* process ids, reused; a temporary file is named by one
  Record,     \* the name targets.json
  Inodes      \* bound: files the directory and the medium can refer to

ASSUME NamesAssumption == Record \notin Pids
ASSUME ContentsAssumption ==
  Torn \notin Targets /\ Missing \notin Targets \cup Inodes /\ Torn # Missing

Names == Pids \cup {Record}
Contents == Targets \cup {Torn}
Directories == [Names -> Inodes \cup {Missing}]

VARIABLES
  dir, disk,    \* the directory, visible and durable
  data, media   \* file contents, visible and durable

fs == <<dir, disk, data, media>>

\* What load makes of a directory and file contents.
Load(d, c) == IF d[Record] = Missing THEN Missing ELSE c[d[Record]]

\* At rest, with no record or one of any content.
InitFs ==
  /\ \E i \in Inodes, c \in Contents : \E n \in {Missing, i} :
       /\ dir = [m \in Names |-> IF m = Record THEN n ELSE Missing]
       /\ data = [j \in Inodes |-> IF j = i THEN c ELSE Torn]
  /\ disk = dir /\ media = data

\* An inode the file system may allocate.
Free(i) == \A n \in Names : dir[n] # i /\ disk[n] # i

\* Exclusive creation of a name.
CreateFile(n, i) ==
  /\ dir[n] = Missing /\ Free(i)
  /\ dir' = [dir EXCEPT ![n] = i]
  /\ data' = [data EXCEPT ![i] = Torn]
  /\ media' = [media EXCEPT ![i] = Torn]
  /\ UNCHANGED disk

\* The kernel writes a file back, or is made to.
SyncFile(i) == media' = [media EXCEPT ![i] = data[i]] /\ UNCHANGED <<dir, disk, data>>

\* The kernel commits the directory, or is made to.
SyncDir == disk' = dir /\ UNCHANGED <<dir, data, media>>

LosePower == dir' = disk /\ data' = media /\ UNCHANGED <<disk, media>>

Unlink(n) == dir' = [dir EXCEPT ![n] = Missing] /\ UNCHANGED <<disk, data, media>>

FsTypeOK ==
  /\ dir \in Directories /\ disk \in Directories
  /\ data \in [Inodes -> Contents] /\ media \in [Inodes -> Contents]

=============================================================================
