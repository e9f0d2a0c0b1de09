-------------------------- MODULE LinuxStoreProofs --------------------------
(***************************************************************************)
(* LinuxStore implements AtomicRecord, for any records, process ids and    *)
(* files.                                                                  *)
(***************************************************************************)
EXTENDS LinuxStore, TLAPS

\* Control points at which the saver has a file open that is not yet the
\* record.
Preparing == {"write", "sync", "rename", "cleanup"}

\* Control points after the present record has been read.
Checked == {"create"} \cup Preparing

\* The file behind the record, visible or durable, has been written back.
CleanInv ==
  /\ dir[Record] # Missing => data[dir[Record]] = media[dir[Record]]
  /\ disk[Record] # Missing => data[disk[Record]] = media[disk[Record]]

\* The saver's file is not the record, its name is the saver's or gone, and
\* its content is what has been written so far.
FileInv ==
  /\ pc \in Preparing => /\ file \in Inodes
                         /\ dir[Record] # file /\ disk[Record] # file
                         /\ dir[pid] \in {file, Missing}
  /\ pc \in {"sync", "rename"} => data[file] = target
  /\ pc = "rename" => media[file] = target
  /\ pc = "syncdir" => dir[Record] \in Inodes /\ data[dir[Record]] = target

\* A record that is about to be replaced can be read, and so can what a power
\* loss would leave of it.
ReadableInv == RecordSurvives /\ (pc \in Checked => Load(dir, data) # Torn)

\* The inductive invariant.
IInv == TypeOK /\ CleanInv /\ FileInv /\ ReadableInv /\ OkIsDurable

USE NamesAssumption, ContentsAssumption

-----------------------------------------------------------------------------

\* Every initial state satisfies the invariant.
LEMMA InvInit == Init => IInv
  BY DEF Init, InitFs, IInv, TypeOK, FsTypeOK, CleanInv, FileInv, ReadableInv, RecordSurvives,
         OkIsDurable, Load, Directories, Names, Contents, PCs, Answers,
         Preparing, Checked

\* Every step keeps the state well typed.
LEMMA TypingStep == TypeOK /\ [Next]_vars => TypeOK'
  <1> SUFFICES ASSUME TypeOK, [Next]_vars PROVE TypeOK'
    OBVIOUS
  <1> USE DEF TypeOK, FsTypeOK, CreateFile, SyncFile, SyncDir, LosePower, Unlink,
              Directories, Names, Contents, PCs, Answers, fs, locals
  <1>1. CASE UNCHANGED vars
    BY <1>1 DEF vars
  <1>2. ASSUME NEW p \in Pids, NEW t \in Targets, Begin(p, t) PROVE TypeOK'
    BY <1>2 DEF Begin
  <1>3. CASE Save
    BY <1>3 DEF Save, LoadFirst, Create, Write, Sync, Rename, Cleanup,
       SyncDirectory, Finish
  <1>4. CASE Stop \/ Commit \/ PowerLoss
    BY <1>4 DEF Stop, Commit, PowerLoss
  <1>5. ASSUME NEW i \in Inodes, WriteBack(i) PROVE TypeOK'
    BY <1>5 DEF WriteBack
  <1>6. ASSUME NEW n \in Pids, Tidy(n) PROVE TypeOK'
    BY <1>6 DEF Tidy
  <1> QED
    BY <1>1, <1>2, <1>3, <1>4, <1>5, <1>6 DEF Next

\* Every step preserves the rest of the invariant.
LEMMA InvStep == IInv /\ [Next]_vars => IInv'
  <1> SUFFICES ASSUME IInv, [Next]_vars
               PROVE  (CleanInv /\ FileInv /\ ReadableInv /\ OkIsDurable)'
    BY TypingStep DEF IInv
  <1>0. TypeOK /\ TypeOK'
    BY TypingStep DEF IInv
  <1> USE <1>0 DEF IInv, TypeOK, CleanInv, FileInv, ReadableInv, RecordSurvives,
                   OkIsDurable, Load, Directories, Names, Contents, Preparing,
                   Checked, FsTypeOK, CreateFile, SyncFile, SyncDir, LosePower,
                   Unlink, fs, locals
  <1>1. CASE UNCHANGED vars
    BY <1>1 DEF vars
  <1>2. ASSUME NEW p \in Pids, NEW t \in Targets, Begin(p, t)
        PROVE  (CleanInv /\ FileInv /\ ReadableInv /\ OkIsDurable)'
    BY <1>2 DEF Begin
  <1>3. CASE LoadFirst
    BY <1>3 DEF LoadFirst, Finish
  <1>4. CASE Create
    BY <1>4 DEF Create, Finish, Free
  <1>5. CASE Write
    BY <1>5 DEF Write
  <1>6. CASE Sync
    BY <1>6 DEF Sync
  <1>7. CASE Rename
    BY <1>7 DEF Rename
  <1>8. CASE Cleanup
    BY <1>8 DEF Cleanup, Finish
  <1>9. CASE SyncDirectory
    BY <1>9 DEF SyncDirectory, Finish
  <1>10. CASE Stop
    BY <1>10 DEF Stop
  <1>11. ASSUME NEW i \in Inodes, WriteBack(i)
         PROVE  (CleanInv /\ FileInv /\ ReadableInv /\ OkIsDurable)'
    BY <1>11 DEF WriteBack
  <1>12. CASE Commit
    BY <1>12 DEF Commit
  <1>13. CASE PowerLoss
    BY <1>13 DEF PowerLoss
  <1>14. ASSUME NEW n \in Pids, Tidy(n)
         PROVE  (CleanInv /\ FileInv /\ ReadableInv /\ OkIsDurable)'
    BY <1>14 DEF Tidy
  <1> QED
    BY <1>1, <1>2, <1>3, <1>4, <1>5, <1>6, <1>7, <1>8, <1>9, <1>10, <1>11, <1>12,
       <1>13, <1>14 DEF Next, Save

-----------------------------------------------------------------------------

\* The inductive invariant holds in every reachable state.
THEOREM Invariance == Spec => []IInv
  BY InvInit, InvStep, PTL DEF Spec

\* A readable record stays readable across a power loss at any moment.
THEOREM Survival == Spec => []RecordSurvives
  <1>1. IInv => RecordSurvives
    BY DEF IInv, ReadableInv
  <1> QED
    BY <1>1, Invariance, PTL

\* Ok means that the record is on the medium.
THEOREM Durability == Spec => []OkIsDurable
  <1>1. IInv => OkIsDurable
    BY DEF IInv
  <1> QED
    BY <1>1, Invariance, PTL

\* Initial states of the store are initial states of the atomic record.
LEMMA RefinesInit == Init => Abstract!Init
  BY DEF Init, InitFs, Abstract!Init, Abstract!Values, Load, Phase, Contents, Names

\* Every step of the store is a step of the atomic record or leaves it alone.
LEMMA RefinesStep == IInv /\ [Next]_vars => [Abstract!Next]_Abstract!vars
  <1> SUFFICES ASSUME IInv, [Next]_vars PROVE [Abstract!Next]_Abstract!vars
    OBVIOUS
  <1> USE DEF IInv, TypeOK, FsTypeOK, CreateFile, SyncFile, SyncDir, LosePower,
              Unlink, CleanInv, FileInv, ReadableInv, Load, Phase,
              Directories, Names, Contents, Preparing, Checked, fs, locals,
              Abstract!vars
  <1>1. CASE UNCHANGED vars
    BY <1>1 DEF vars
  <1>2. ASSUME NEW p \in Pids, NEW t \in Targets, Begin(p, t) PROVE Abstract!Begin
    BY <1>2 DEF Begin, Abstract!Begin
  <1>3. CASE LoadFirst
    BY <1>3 DEF LoadFirst, Finish, Abstract!Next, Abstract!Refuse
  <1>4. CASE Create
    BY <1>4 DEF Create, Free, Finish, Abstract!Next, Abstract!Refuse
  <1>5. CASE Write \/ Sync
    BY <1>5 DEF Write, Sync
  <1>6. CASE Rename
    BY <1>6 DEF Rename, Abstract!Next, Abstract!Replace
  <1>7. CASE Cleanup
    BY <1>7 DEF Cleanup, Finish, Abstract!Next, Abstract!Refuse
  <1>8. CASE SyncDirectory
    BY <1>8 DEF SyncDirectory, Finish, Abstract!Next, Abstract!Succeed,
       Abstract!Doubt
  <1>9. CASE Stop
    BY <1>9 DEF Stop, Abstract!Next, Abstract!Stop
  <1>10. ASSUME NEW i \in Inodes, WriteBack(i) PROVE UNCHANGED Abstract!vars
    BY <1>10 DEF WriteBack
  <1>11. CASE Commit
    BY <1>11 DEF Commit, Abstract!Next, Abstract!Flush
  <1>12. CASE PowerLoss
    BY <1>12 DEF PowerLoss, Abstract!Next, Abstract!PowerLoss
  <1>13. ASSUME NEW n \in Pids, Tidy(n) PROVE UNCHANGED Abstract!vars
    BY <1>13 DEF Tidy
  <1> QED
    BY <1>1, <1>2, <1>3, <1>4, <1>5, <1>6, <1>7, <1>8, <1>9, <1>10, <1>11, <1>12,
       <1>13 DEF Next, Save, Abstract!Next

\* The Linux store implements the atomic record: no interleaving of crashes,
\* power losses, write-back and leftovers shows anything AtomicRecord forbids.
THEOREM Refinement == Spec => ImplementsAtomicRecord
  BY RefinesInit, RefinesStep, Invariance, PTL
     DEF Spec, ImplementsAtomicRecord, Abstract!Spec

=============================================================================
