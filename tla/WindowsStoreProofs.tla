-------------------------- MODULE WindowsStoreProofs --------------------------
(***************************************************************************)
(* What WindowsProtectedStore promises, for any records, process ids and   *)
(* files: the properties of WindowsStore, and at the end the one of        *)
(* StoreAccess, for any objects, descriptors and acts of the other         *)
(* administrator.                                                          *)
(***************************************************************************)
EXTENDS WindowsStore, StoreAccess, SequenceTheorems, TLAPS

\* Control points at which the file of the saver is there under its name.
Filed == {"write", "flush", "discard", "replace"}

\* Control points before anything has happened to a record that was there.
Early == {"load", "create"} \cup Filed

\* Where the file of the saver is, and what has been written to it.
FileInv ==
  /\ pc \in Filed => /\ file \in Inodes /\ dir[name] = file
                     /\ name # Record => dir[Record] # file
  /\ pc \in {"discard", "replace"} => name # Record
  /\ pc \in {"flush", "replace"} => data[file] = target
  /\ pc = "replace" => media[file] = target
  /\ pc \in {"revalidate", "syncdir"} =>
       /\ file \in Inodes /\ dir[Record] = file
       /\ data[file] = target /\ media[file] = target

\* An answer is the end of a save; Ok has been said of a record whose name and
\* content are on the medium.
AnswerInv ==
  /\ answer # "none" => pc = "done"
  /\ answer = "ok" =>
       /\ dir[Record] \in Inodes /\ disk[Record] = dir[Record]
       /\ data[dir[Record]] = target /\ media[dir[Record]] = target

\* A content that was whole on the medium is not torn in memory.
DataInv == \A i \in Inodes : data[i] = Torn => media[i] = Torn

\* The record of directory d is whole, and remains so when it is written back.
Whole(d) == d[Record] # Missing => data[d[Record]] # Torn /\ media[d[Record]] # Torn

\* A record that was safe is there, and stays whole.
WholeInv == before.safe => before.record \in Targets /\ Whole(dir) /\ Whole(disk)

\* What was there is there until it is replaced, which takes a temporary file;
\* a record that cannot be read is not.
KeepInv ==
  /\ pc \in Early /\ before.record # Missing => Load(dir, data) = before.record
  /\ pc \in Early \ {"load"} /\ name = Record => before.record = Missing
  /\ pc # "idle" /\ before.record = Torn =>
       pc \in {"load", "done"} /\ Load(dir, data) = Torn

\* The inductive invariant.
IInv ==
  /\ TypeOK /\ FileInv /\ AnswerInv /\ DataInv /\ WholeInv /\ KeepInv
  /\ RecordIsKept /\ SomeCopyRemains

USE NamesAssumption, ContentsAssumption

-----------------------------------------------------------------------------

\* Every initial state satisfies the invariant.
LEMMA InvInit == Init => IInv
  <1> SUFFICES ASSUME Init PROVE IInv
    OBVIOUS
  <1>1. before.record = Load(dir, data) /\ (before.safe <=> Safe) /\ before.safe \in BOOLEAN
    BY DEF Init, Now, Safe
  <1>2. /\ pc = "idle" /\ answer = "none" /\ disk = dir /\ media = data
        /\ pid \in Pids /\ target \in Targets /\ name = Record /\ file = Missing
    BY DEF Init, InitFs
  <1>3. FsTypeOK
    BY DEF Init, InitFs, FsTypeOK, Directories, Names, Contents
  <1>4. TypeOK
    BY <1>1, <1>2, <1>3 DEF TypeOK, FsTypeOK, Load, Directories, Names, Contents, PCs, Answers
  <1>5. FileInv /\ AnswerInv /\ DataInv /\ KeepInv /\ RecordIsKept /\ SomeCopyRemains
    BY <1>2 DEF FileInv, AnswerInv, DataInv, KeepInv, RecordIsKept, SomeCopyRemains,
       Filed, Early
  <1>6. WholeInv
    BY <1>1, <1>2 DEF WholeInv, Whole, Safe, Load
  <1> QED
    BY <1>3, <1>4, <1>5, <1>6 DEF IInv

-----------------------------------------------------------------------------

\* What save remembers of the record it finds.
LEMMA Remembered ==
  ASSUME NEW p \in Pids, NEW t \in Targets, Begin(p, t)
  PROVE  /\ before'.record = Load(dir, data) /\ before'.safe \in BOOLEAN
         /\ before'.safe => Safe
  BY DEF Begin, Now, Safe

\* Every step keeps the state well typed.
LEMMA TypingStep == TypeOK /\ [Next]_vars => TypeOK'
  <1> SUFFICES ASSUME TypeOK, [Next]_vars PROVE TypeOK'
    OBVIOUS
  <1> USE DEF fs, locals, TypeOK, FsTypeOK, Directories, Names, Contents, PCs,
              Answers
  <1>0. CASE UNCHANGED vars
    BY <1>0 DEF vars
  <1>1. ASSUME NEW p \in Pids, NEW t \in Targets, Begin(p, t) PROVE TypeOK'
    BY <1>1, Remembered DEF Begin, Load
  <1>2. CASE LoadFirst
    BY <1>2 DEF LoadFirst, Finish
  <1>3. CASE Create
    BY <1>3 DEF Create, CreateFile, Free, Finish
  <1>4. CASE Write
    BY <1>4 DEF Write, Abandon, Finish
  <1>5. CASE Flush
    BY <1>5 DEF Flush, Abandon, Finish, SyncFile
  <1>6. CASE Discard
    BY <1>6 DEF Discard, Unlink, Finish
  <1>7. CASE Replace
    BY <1>7 DEF Replace, Replaced, Removed, Replaceable, Finish
  <1>8. CASE Revalidate
    BY <1>8 DEF Revalidate, Finish
  <1>9. CASE SyncDirectory
    BY <1>9 DEF SyncDirectory, SyncDir, Finish
  <1>10. CASE Stop
    BY <1>10 DEF Stop
  <1>11. ASSUME NEW i \in Inodes, WriteBack(i) PROVE TypeOK'
    BY <1>11 DEF WriteBack, SyncFile
  <1>12. CASE Commit
    BY <1>12 DEF Commit, SyncDir
  <1>13. CASE PowerLoss
    BY <1>13 DEF PowerLoss, LosePower
  <1>14. ASSUME NEW n \in Names, Repair(n) PROVE TypeOK'
    BY <1>14 DEF Repair, Unlink
  <1> QED
    BY <1>0, <1>1, <1>2, <1>3, <1>4, <1>5, <1>6, <1>7, <1>8, <1>9, <1>10, <1>11,
       <1>12, <1>13, <1>14
       DEF Next, Save

\* Every step keeps the saver's file and its answer.
LEMMA FileStep ==
  TypeOK /\ FileInv /\ AnswerInv /\ [Next]_vars
  => FileInv' /\ AnswerInv'
  <1> SUFFICES ASSUME TypeOK /\ FileInv /\ AnswerInv, [Next]_vars
               PROVE  FileInv' /\ AnswerInv'
    OBVIOUS
  <1> USE DEF fs, locals, TypeOK, FsTypeOK, Directories, Names, Contents,
              FileInv, AnswerInv, Filed
  <1>0. CASE UNCHANGED vars
    BY <1>0 DEF vars
  <1>1. ASSUME NEW p \in Pids, NEW t \in Targets, Begin(p, t)
        PROVE  FileInv' /\ AnswerInv'
    BY <1>1 DEF Begin
  <1>2. CASE LoadFirst
    BY <1>2 DEF LoadFirst, Finish
  <1>3. CASE Create
    BY <1>3 DEF Create, CreateFile, Free, Finish
  <1>4. CASE Write
    BY <1>4 DEF Write, Abandon, Finish
  <1>5. CASE Flush
    BY <1>5 DEF Flush, Abandon, Finish, SyncFile
  <1>6. CASE Discard
    BY <1>6 DEF Discard, Unlink, Finish
  <1>7. CASE Replace
    BY <1>7 DEF Replace, Replaced, Removed, Replaceable, Finish
  <1>8. CASE Revalidate
    BY <1>8 DEF Revalidate, Finish
  <1>9. CASE SyncDirectory
    BY <1>9 DEF SyncDirectory, SyncDir, Finish
  <1>10. CASE Stop
    BY <1>10 DEF Stop
  <1>11. ASSUME NEW i \in Inodes, WriteBack(i) PROVE FileInv' /\ AnswerInv'
    BY <1>11 DEF WriteBack, SyncFile
  <1>12. CASE Commit
    BY <1>12 DEF Commit, SyncDir
  <1>13. CASE PowerLoss
    BY <1>13 DEF PowerLoss, LosePower
  <1>14. ASSUME NEW n \in Names, Repair(n) PROVE FileInv' /\ AnswerInv'
    BY <1>14 DEF Repair, Unlink
  <1> QED
    BY <1>0, <1>1, <1>2, <1>3, <1>4, <1>5, <1>6, <1>7, <1>8, <1>9, <1>10, <1>11,
       <1>12, <1>13, <1>14
       DEF Next, Save

\* Every step keeps a safe record whole.
LEMMA WholeStep ==
  TypeOK /\ FileInv /\ DataInv /\ WholeInv /\ KeepInv /\ [Next]_vars
  => DataInv' /\ WholeInv'
  <1> SUFFICES ASSUME TypeOK /\ FileInv /\ DataInv /\ WholeInv /\ KeepInv, [Next]_vars
               PROVE  DataInv' /\ WholeInv'
    OBVIOUS
  <1> USE DEF fs, locals, TypeOK, FsTypeOK, Directories, Names, Contents,
              FileInv, DataInv, WholeInv, Whole, KeepInv, Filed, Early
  <1>0. CASE UNCHANGED vars
    BY <1>0 DEF vars
  <1>1. ASSUME NEW p \in Pids, NEW t \in Targets, Begin(p, t)
        PROVE  DataInv' /\ WholeInv'
    BY <1>1, Remembered DEF Begin, Safe, Load
  <1>2. CASE LoadFirst
    BY <1>2 DEF LoadFirst, Finish
  <1>3. CASE Create
    BY <1>3 DEF Create, CreateFile, Free, Finish
  <1>4. CASE Write
    BY <1>4 DEF Write, Abandon, Finish
  <1>5. CASE Flush
    BY <1>5 DEF Flush, Abandon, Finish, SyncFile
  <1>6. CASE Discard
    BY <1>6 DEF Discard, Unlink, Finish
  <1>7. CASE Replace
    BY <1>7 DEF Replace, Replaced, Removed, Replaceable, Finish
  <1>8. CASE Revalidate
    BY <1>8 DEF Revalidate, Finish
  <1>9. CASE SyncDirectory
    BY <1>9 DEF SyncDirectory, SyncDir, Finish
  <1>10. CASE Stop
    BY <1>10 DEF Stop
  <1>11. ASSUME NEW i \in Inodes, WriteBack(i) PROVE DataInv' /\ WholeInv'
    BY <1>11 DEF WriteBack, SyncFile
  <1>12. CASE Commit
    BY <1>12 DEF Commit, SyncDir
  <1>13. CASE PowerLoss
    BY <1>13 DEF PowerLoss, LosePower
  <1>14. ASSUME NEW n \in Names, Repair(n) PROVE DataInv' /\ WholeInv'
    BY <1>14 DEF Repair, Unlink
  <1> QED
    BY <1>0, <1>1, <1>2, <1>3, <1>4, <1>5, <1>6, <1>7, <1>8, <1>9, <1>10, <1>11,
       <1>12, <1>13, <1>14
       DEF Next, Save

\* Every step keeps the record it should.
LEMMA KeepStep ==
  TypeOK /\ FileInv /\ AnswerInv /\ KeepInv /\ RecordIsKept /\ [Next]_vars
  => KeepInv' /\ RecordIsKept'
  <1> SUFFICES ASSUME TypeOK /\ FileInv /\ AnswerInv /\ KeepInv /\ RecordIsKept, [Next]_vars
               PROVE  KeepInv' /\ RecordIsKept'
    OBVIOUS
  <1> USE DEF fs, locals, TypeOK, FsTypeOK, Directories, Names, Contents,
              FileInv, AnswerInv, KeepInv, RecordIsKept, Filed, Early,
              Load
  <1>0. CASE UNCHANGED vars
    BY <1>0 DEF vars
  <1>1. ASSUME NEW p \in Pids, NEW t \in Targets, Begin(p, t)
        PROVE  KeepInv' /\ RecordIsKept'
    BY <1>1, Remembered DEF Begin
  <1>2. CASE LoadFirst
    BY <1>2 DEF LoadFirst, Finish
  <1>3. CASE Create
    BY <1>3 DEF Create, CreateFile, Free, Finish
  <1>4. CASE Write
    BY <1>4 DEF Write, Abandon, Finish
  <1>5. CASE Flush
    BY <1>5 DEF Flush, Abandon, Finish, SyncFile
  <1>6. CASE Discard
    BY <1>6 DEF Discard, Unlink, Finish
  <1>7. CASE Replace
    BY <1>7 DEF Replace, Replaced, Removed, Replaceable, Finish
  <1>8. CASE Revalidate
    BY <1>8 DEF Revalidate, Finish
  <1>9. CASE SyncDirectory
    BY <1>9 DEF SyncDirectory, SyncDir, Finish
  <1>10. CASE Stop
    BY <1>10 DEF Stop
  <1>11. ASSUME NEW i \in Inodes, WriteBack(i) PROVE KeepInv' /\ RecordIsKept'
    BY <1>11 DEF WriteBack, SyncFile
  <1>12. CASE Commit
    BY <1>12 DEF Commit, SyncDir
  <1>13. CASE PowerLoss
    BY <1>13 DEF PowerLoss, LosePower
  <1>14. ASSUME NEW n \in Names, Repair(n) PROVE KeepInv' /\ RecordIsKept'
    BY <1>14 DEF Repair, Unlink
  <1> QED
    BY <1>0, <1>1, <1>2, <1>3, <1>4, <1>5, <1>6, <1>7, <1>8, <1>9, <1>10, <1>11,
       <1>12, <1>13, <1>14
       DEF Next, Save

\* Every step leaves a whole copy.
LEMMA CopyStep ==
  TypeOK /\ FileInv /\ KeepInv /\ SomeCopyRemains /\ [Next]_vars
  => SomeCopyRemains'
  <1> SUFFICES ASSUME TypeOK /\ FileInv /\ KeepInv /\ SomeCopyRemains, [Next]_vars
               PROVE  SomeCopyRemains'
    OBVIOUS
  <1> USE DEF fs, locals, TypeOK, FsTypeOK, Directories, Names, Contents,
              FileInv, KeepInv, SomeCopyRemains, Filed, Early, Load
  <1>0. CASE UNCHANGED vars
    BY <1>0 DEF vars
  <1>1. ASSUME NEW p \in Pids, NEW t \in Targets, Begin(p, t) PROVE SomeCopyRemains'
    BY <1>1, Remembered DEF Begin
  <1>2. CASE LoadFirst
    BY <1>2 DEF LoadFirst, Finish
  <1>3. CASE Create
    BY <1>3 DEF Create, CreateFile, Free, Finish
  <1>4. CASE Write
    BY <1>4 DEF Write, Abandon, Finish
  <1>5. CASE Flush
    BY <1>5 DEF Flush, Abandon, Finish, SyncFile
  <1>6. CASE Discard
    BY <1>6 DEF Discard, Unlink, Finish
  <1>7. CASE Replace
    BY <1>7 DEF Replace, Replaced, Removed, Replaceable, Finish
  <1>8. CASE Revalidate
    BY <1>8 DEF Revalidate, Finish
  <1>9. CASE SyncDirectory
    BY <1>9 DEF SyncDirectory, SyncDir, Finish
  <1>10. CASE Stop
    BY <1>10 DEF Stop
  <1>11. ASSUME NEW i \in Inodes, WriteBack(i) PROVE SomeCopyRemains'
    BY <1>11 DEF WriteBack, SyncFile
  <1>12. CASE Commit
    BY <1>12 DEF Commit, SyncDir
  <1>13. CASE PowerLoss
    BY <1>13 DEF PowerLoss, LosePower
  <1>14. ASSUME NEW n \in Names, Repair(n) PROVE SomeCopyRemains'
    BY <1>14 DEF Repair, Unlink
  <1> QED
    BY <1>0, <1>1, <1>2, <1>3, <1>4, <1>5, <1>6, <1>7, <1>8, <1>9, <1>10, <1>11,
       <1>12, <1>13, <1>14
       DEF Next, Save

-----------------------------------------------------------------------------

\* The inductive invariant holds in every reachable state.
THEOREM Invariance == Spec => []IInv
  <1>1. IInv /\ [Next]_vars => IInv'
    BY TypingStep, FileStep, WholeStep, KeepStep, CopyStep DEF IInv
  <1> QED
    BY InvInit, <1>1, PTL DEF Spec

\* The state stays well typed.
THEOREM TypeCorrect == Spec => []TypeOK
  <1>1. IInv => TypeOK
    BY DEF IInv
  <1> QED
    BY <1>1, Invariance, PTL

\* A save that has answered Ok cannot be taken back by a power loss.
THEOREM Durability == Spec => []OkIsDurable
  <1>1. IInv => OkIsDurable
    BY DEF IInv, AnswerInv, OkIsDurable, Load
  <1> QED
    BY <1>1, Invariance, PTL

\* No save over a safe record ever leads to one that cannot be read.
THEOREM Preservation == Spec => []ReplacementPreserves
  <1>1. IInv => ReplacementPreserves
    BY DEF IInv, TypeOK, FsTypeOK, Directories, WholeInv, Whole, ReplacementPreserves, Load, Names
  <1> QED
    BY <1>1, Invariance, PTL

\* An ordinary error leaves the record that was there, and no save touches one
\* that it cannot read.
THEOREM RecordKept == Spec => []RecordIsKept
  <1>1. IInv => RecordIsKept
    BY DEF IInv
  <1> QED
    BY <1>1, Invariance, PTL

\* Whatever ReplaceFileW does, a whole record is left under some name.
THEOREM CopyRemains == Spec => []SomeCopyRemains
  <1>1. IInv => SomeCopyRemains
    BY DEF IInv
  <1> QED
    BY <1>1, Invariance, PTL

-----------------------------------------------------------------------------
(* StoreAccess.  A check that has passed established a fact of the object    *)
(* that the handle held; it stays among what held during the operation, and  *)
(* is a fact of what the handle holds until the name is opened again.        *)

\* What scripts consist of, apart from the removal of a file.
Steps ==
  {s \in [does : {"root", "open", "contain", "type", "secure", "read", "create", "differ",
                  "replace", "same", "parent"}, name : PlaceNames] :
     s.does = "create" => s.name \in ChildNames}

Kind(n) == IF n = StoreName THEN "Directory" ELSE "File"

Opening == {"open", "create"}
Changing == {"create", "replace", "remove"}

\* What a step has established when it has passed.
Established(s) ==
  LET o == handles[s.name] IN
  /\ s.does \in Opening => o \in Objects /\ <<o, s.name>> \in met
  /\ s.does = "type" /\ o \in Objects => <<o, Kind(s.name)>> \in met
  /\ s.does = "secure" /\ o \in Objects => <<o, "guarded">> \in met

\* Its name has not been opened again since.
Lasts(script, k, n) ==
  \A j \in k + 1 .. n - 1 : script[j].does \in Opening => script[j].name # script[k].name

AccessTypeInv ==
  /\ task \in DOMAIN Scripts \cup {"none"}
  /\ task = "none" => said = "none"
  /\ objects \in [Objects -> Attribute]
  /\ places \in [PlaceNames -> Objects \cup {NoObject}]
  /\ handles \in [PlaceNames -> Objects \cup {NoObject}]
  /\ changed \in BOOLEAN

\* Where the operation is.
AtInv ==
  /\ task # "none" => /\ at \in 1 .. Len(Scripts[task]) + 1
                      /\ said = "ok" <=> at = Len(Scripts[task]) + 1
  /\ said = "missing" => task = "load"

\* The history covers this moment and every step passed.
MetInv ==
  task # "none" =>
    /\ Holding \subseteq met
    /\ \A k \in 1 .. at - 1 :
         Lasts(Scripts[task], k, at) => Established(Scripts[task][k])

\* The directory is held from its opening on, and keeps its place.
HeldInv ==
  /\ handles[StoreName] # NoObject => places[StoreName] = handles[StoreName]
  /\ task \notin {"none", "open"} => handles[StoreName] \in Objects

\* A change is the work of a step that has passed, or the outcome is open.
ChangeInv ==
  /\ changed /\ task # "none" /\ said # "ambiguous" =>
       \E k \in 1 .. at - 1 : Scripts[task][k].does \in Changing
  /\ said = "error" => ~changed

AccessInv == AccessTypeInv /\ AtInv /\ MetInv /\ HeldInv /\ ChangeInv

-----------------------------------------------------------------------------

\* The pieces of the scripts.
LEMMA Pieces ==
  ASSUME NEW n \in PlaceNames
  PROVE  /\ Checked(n) \in Seq(Steps) /\ OpenChild(n) \in Seq(Steps)
         /\ \A does \in {"root", "open", "contain", "type", "secure", "read", "differ",
                         "replace", "same", "parent"} : <<Step(does, n)>> \in Seq(Steps)
         /\ n \in ChildNames => <<Step("create", n), Step("contain", n)>> \in Seq(Steps)
  BY DEF Checked, OpenChild, Step, Steps

LEMMA ScriptSteps ==
  \A t \in DOMAIN Scripts \ {"remove"} : Scripts[t] \in Seq(Steps)
  <1>1. /\ StoreName \in PlaceNames /\ RecordName \in PlaceNames /\ TemporaryName \in PlaceNames
        /\ RecordName \in ChildNames /\ TemporaryName \in ChildNames
    BY DEF PlaceNames, ChildNames
  <1>2. OpenScript \in Seq(Steps) /\ LoadScript \in Seq(Steps)
    BY <1>1, Pieces DEF OpenScript, LoadScript, Hierarchy
  <1>3. CreateScript(RecordName) \in Seq(Steps) /\ CreateScript(TemporaryName) \in Seq(Steps)
    BY <1>1, Pieces DEF CreateScript
  <1>4. ReplaceScript \in Seq(Steps)
    BY <1>1, Pieces DEF ReplaceScript
  <1>5. Checked(TemporaryName) \in Seq(Steps) /\ RevalidateScript \in Seq(Steps)
    BY <1>1, Pieces DEF RevalidateScript
  <1> QED
    BY <1>2, <1>3, <1>4, <1>5 DEF Scripts

LEMMA RemoveSteps ==
  /\ RemoveScript \in Seq(Steps \cup {Step("remove", TemporaryName)})
  /\ Len(RemoveScript) = 6
  /\ \A k \in 1..4 : RemoveScript[k] \in Steps /\ RemoveScript[k].does \notin Changing
  /\ RemoveScript[5] = Step("remove", TemporaryName)
  /\ RemoveScript[6] = Step("parent", StoreName)
  <1>1. /\ TemporaryName \in PlaceNames /\ StoreName \in PlaceNames
    BY DEF PlaceNames, ChildNames
  <1>2. /\ Len(RemoveScript) = 6
        /\ RemoveScript[1] = Step("open", TemporaryName)
        /\ RemoveScript[2] = Step("contain", TemporaryName)
        /\ RemoveScript[3] = Step("type", TemporaryName)
        /\ RemoveScript[4] = Step("secure", TemporaryName)
        /\ RemoveScript[5] = Step("remove", TemporaryName)
        /\ RemoveScript[6] = Step("parent", StoreName)
    BY DEF RemoveScript, OpenChild, Checked
  <1>3. \A does \in {"open", "contain", "type", "secure", "parent"} :
          /\ Step(does, TemporaryName) \in Steps /\ Step(does, StoreName) \in Steps
          /\ Step(does, TemporaryName).does = does
    BY <1>1 DEF Step, Steps
  <1>4. RemoveScript \in Seq(Steps \cup {Step("remove", TemporaryName)})
    <2> DEFINE S == Steps \cup {Step("remove", TemporaryName)}
    <2>1. /\ Step("open", TemporaryName) \in S /\ Step("contain", TemporaryName) \in S
          /\ Step("type", TemporaryName) \in S /\ Step("secure", TemporaryName) \in S
          /\ Step("remove", TemporaryName) \in S /\ Step("parent", StoreName) \in S
      BY <1>3
    <2> HIDE DEF S
    <2>2. /\ OpenChild(TemporaryName) \in Seq(S) /\ Checked(TemporaryName) \in Seq(S)
          /\ <<Step("remove", TemporaryName), Step("parent", StoreName)>> \in Seq(S)
      BY <2>1 DEF OpenChild, Checked
    <2>3. RemoveScript \in Seq(S)
      BY <2>2 DEF RemoveScript
    <2> QED
      BY <2>3 DEF S
  <1>5. \A k \in 1..4 : RemoveScript[k] \in Steps /\ RemoveScript[k].does \notin Changing
    BY <1>2, <1>3 DEF Changing
  <1> QED
    BY <1>2, <1>4, <1>5


\* The step under way is one of its script, and of what kind it can be.
LEMMA CurrentStep ==
  ASSUME AccessInv, task # "none", said = "none"
  PROVE  /\ task \in DOMAIN Scripts /\ at \in 1 .. Len(Scripts[task]) /\ Len(Scripts[task]) \in Nat
         /\ Name \in PlaceNames
         /\ Doing("create") => Name \in ChildNames
         /\ Doing("remove") => task = "remove" /\ at = 5 /\ ~changed
  <1>1. task \in DOMAIN Scripts
    BY DEF AccessInv, AccessTypeInv
  <1>2. CASE task # "remove"
    <2>1. Scripts[task] \in Seq(Steps)
      BY <1>1, <1>2, ScriptSteps
    <2>2. at \in 1 .. Len(Scripts[task]) /\ Len(Scripts[task]) \in Nat
      BY <2>1 DEF AccessInv, AtInv
    <2>3. Scripts[task][at] \in Steps
      BY <2>1, <2>2
    <2> QED
      BY <1>1, <2>2, <2>3 DEF Steps, Name, Doing
  <1>3. CASE task = "remove"
    <2>1. Scripts[task] = RemoveScript
      BY <1>3 DEF Scripts
    <2>2. at \in 1..6
      BY <2>1, RemoveSteps DEF AccessInv, AtInv
    <2>3. RemoveScript[at] \in Steps \cup {Step("remove", TemporaryName), Step("parent", StoreName)}
      BY <2>2, RemoveSteps
    <2>4. /\ RemoveScript[at].name \in PlaceNames
          /\ RemoveScript[at].does = "create" => RemoveScript[at].name \in ChildNames
      BY <2>3 DEF Steps, Step, PlaceNames, ChildNames
    <2>5. RemoveScript[at].does = "remove" => at = 5
      <3>1. \A k \in 1..4 : RemoveScript[k].does # "remove"
        BY RemoveSteps DEF Changing
      <3>2. RemoveScript[6].does # "remove"
        BY RemoveSteps DEF Step
      <3> QED
        BY <2>2, <3>1, <3>2
    <2>6. at = 5 => ~changed
      BY <1>3, <2>1, RemoveSteps DEF AccessInv, ChangeInv
    <2> QED
      BY <1>1, <1>3, <2>1, <2>2, <2>4, <2>5, <2>6, RemoveSteps DEF Name, Doing
  <1> QED
    BY <1>2, <1>3

\* A descriptor that the store accepts denies every user and grants the system
\* and the administrators what they need, whatever the folder above hands down.
LEMMA AcceptedIsGuarded ==
  ASSUME NEW sec \in Descriptor, ValidateSecurity(sec)
  PROVE  Guarded(sec)
  <1>1. /\ sec.owner \in Trusted /\ sec.dacl = "sound" /\ sec.protected
        /\ {SidKind(sec.aces[i].sid) : i \in DOMAIN sec.aces} = Trusted
        /\ \A i \in DOMAIN sec.aces :
             sec.aces[i].flags = {} /\ sec.aces[i].kind = "Allow" /\ sec.aces[i].mask = FullControl
    BY DEF ValidateSecurity, ParseNativeDescriptor, ReduceProtected, Then, When, OwnerReads,
       DaclReads, AceReads, SidKind, AceKind, Trusted
  <1>2. \A i \in DOMAIN sec.aces : sec.aces[i].sid \in Trusted
    BY <1>1 DEF SidKind, Trusted
  <1>3. \A x \in Trusted : \E i \in DOMAIN sec.aces : sec.aces[i].sid = x
    BY <1>1, <1>2 DEF SidKind
  <1>4. HandedDown(sec) = sec
    BY <1>1 DEF HandedDown
  <1>5. Access(sec, "user") = {}
    BY <1>1, <1>2 DEF Access, Groups, Trusted
  <1>6. ASSUME NEW who \in {"system", "administrator"} PROVE FullControl \subseteq Access(sec, who)
    <2>1. PICK i \in DOMAIN sec.aces : sec.aces[i].sid \in Groups[who]
      <3>1. "System" \in Groups["system"] /\ "Administrators" \in Groups["administrator"]
        BY DEF Groups
      <3>2. "System" \in Trusted /\ "Administrators" \in Trusted
        BY DEF Trusted
      <3> QED
        BY <1>3, <1>6, <3>1, <3>2
    <2>2. \A j \in DOMAIN sec.aces : sec.aces[j].kind \notin {"Deny"} /\ sec.aces[j].flags = {}
      BY <1>1
    <2>3. sec.aces \in Seq(Ace)
      BY DEF Descriptor
    <2>4. i \in 1 .. Len(sec.aces) /\ \A j \in 1 .. i - 1 : j \in DOMAIN sec.aces
      BY <2>3
    <2> QED
      BY <1>1, <2>1, <2>2, <2>4 DEF Access, FullControl, Rights
  <1> QED
    BY <1>4, <1>5, <1>6 DEF Guarded


-----------------------------------------------------------------------------

\* A step that passes adds what it establishes to what still lasts.
LEMMA PassKeeps ==
  ASSUME AccessInv, task # "none", said = "none", Pass,
         met \subseteq met', Holding' \subseteq met',
         NEW s, s = Scripts[task][at], Established(s)',
         \A n \in PlaceNames : s.does \notin Opening \/ s.name # n => handles'[n] = handles[n]
  PROVE  AtInv' /\ MetInv'
  <1> DEFINE script == Scripts[task]
  <1>1. at \in 1 .. Len(script) /\ Len(script) \in Nat /\ task \in DOMAIN Scripts
    BY CurrentStep
  <1>2. at' = at + 1 /\ task' = task /\ said' = IF at = Len(script) THEN "ok" ELSE "none"
    BY DEF Pass
  <1> HIDE DEF script
  <1>3. AtInv'
    BY <1>1, <1>2 DEF AtInv, script
  <1>4. ASSUME NEW k \in 1 .. at, Lasts(script, k, at + 1) PROVE Established(script[k])'
    <2>1. CASE k = at
      BY <1>2, <2>1 DEF script
    <2>2. CASE k # at
      <3>1. k \in 1 .. at - 1 /\ Lasts(script, k, at)
        BY <1>1, <1>4, <2>2 DEF Lasts
      <3>2. Established(script[k])
        BY <3>1 DEF AccessInv, MetInv, script
      <3>3. s.does \notin Opening \/ s.name # script[k].name
        BY <1>1, <1>4, <2>2 DEF Lasts, script
      <3>4. script[k].name \in PlaceNames
        <4>1. script \in Seq(Steps \cup {Step("remove", TemporaryName)})
          BY <1>1, ScriptSteps, RemoveSteps DEF script, Scripts
        <4>2. script[k] \in Steps \cup {Step("remove", TemporaryName)}
          BY <1>1, <4>1
        <4> QED
          BY <4>2 DEF Steps, Step, PlaceNames, ChildNames
      <3> QED
        BY <1>2, <3>2, <3>3, <3>4 DEF Established, script
    <2> QED
      BY <2>1, <2>2
  <1>5. MetInv'
    BY <1>1, <1>2, <1>4 DEF MetInv, script
  <1> QED
    BY <1>3, <1>5

\* A moment at which the operation makes no progress takes nothing away.
LEMMA StayKeeps ==
  ASSUME AccessInv, UNCHANGED <<task, at, handles>>,
         said' = said \/ (said = "none" /\ said' # "ok" /\ (said' = "missing" => task = "load")),
         task # "none" => met \subseteq met' /\ Holding' \subseteq met'
  PROVE  AtInv' /\ MetInv'
  <1>1. AtInv'
    BY DEF AccessInv, AtInv
  <1>2. MetInv'
    BY DEF AccessInv, AtInv, MetInv, Established, Scripts
  <1> QED
    BY <1>1, <1>2


LEMMA ScriptLengths ==
  ASSUME NEW t \in DOMAIN Scripts
  PROVE  Len(Scripts[t]) \in Nat /\ Len(Scripts[t]) >= 1
  <1>1. /\ Len(OpenScript) = 5 /\ Len(LoadScript) = 10
        /\ Len(CreateScript(RecordName)) = 4 /\ Len(CreateScript(TemporaryName)) = 2
        /\ Len(Checked(TemporaryName)) = 2 /\ Len(ReplaceScript) = 15
        /\ Len(RemoveScript) = 6 /\ Len(RevalidateScript) = 6
    BY DEF OpenScript, LoadScript, Hierarchy, CreateScript, ReplaceScript, RemoveScript,
       RevalidateScript, OpenChild, Checked, RecordName, TemporaryName
  <1>2. Scripts[t] \in {OpenScript, LoadScript, CreateScript(RecordName),
                       CreateScript(TemporaryName), Checked(TemporaryName), ReplaceScript,
                       RemoveScript, RevalidateScript}
    BY DEF Scripts
  <1>3. Len(Scripts[t]) \in {2, 4, 5, 6, 10, 15}
    BY <1>1, <1>2
  <1> QED
    BY <1>3

\* Once the store is open it holds its directory.
LEMMA OpenHolds ==
  ASSUME AccessInv, task = "open", said = "ok"
  PROVE  handles[StoreName] \in Objects
  <1>1. /\ Len(OpenScript) = 5 /\ OpenScript[2] = Step("open", StoreName)
        /\ OpenScript[3] = Step("contain", StoreName) /\ OpenScript[4] = Step("type", StoreName)
        /\ OpenScript[5] = Step("secure", StoreName)
    BY DEF OpenScript, OpenChild, Checked
  <1>2. Scripts[task] = OpenScript
    BY DEF Scripts
  <1>3. at = 6
    <2>1. Len(Scripts[task]) = 5
      BY <1>1, <1>2
    <2>2. at = Len(Scripts[task]) + 1
      BY DEF AccessInv, AtInv
    <2> QED
      BY <2>1, <2>2
  <1>4. Lasts(OpenScript, 2, 6)
    BY <1>1 DEF Lasts, Opening, Step
  <1>5. Established(Step("open", StoreName))
    BY <1>1, <1>2, <1>3, <1>4 DEF AccessInv, MetInv
  <1> QED
    BY <1>5 DEF Established, Opening, Step

\* A call or a check that changes nothing.
LEMMA LookKeeps ==
  ASSUME AccessInv, task # "none", said = "none",
         UNCHANGED <<world, handles, changed, met>>,
         Refuse \/ (Pass /\ Established(Scripts[task][at]))
  PROVE  AccessInv'
  <1>1. Holding' = Holding /\ Holding \subseteq met
    BY DEF Holding, world, AccessInv, MetInv
  <1>2. AccessTypeInv' /\ HeldInv'
    BY DEF AccessInv, AccessTypeInv, HeldInv, Refuse, Pass, world
  <1>3. CASE Refuse
    <2>1. AtInv' /\ MetInv'
      BY <1>1, <1>3, StayKeeps DEF Refuse
    <2>2. ChangeInv'
      BY <1>3 DEF Refuse, AccessInv, AccessTypeInv, ChangeInv
    <2> QED
      BY <1>2, <2>1, <2>2 DEF AccessInv
  <1>4. CASE Pass /\ Established(Scripts[task][at])
    <2>1. PICK s : s = Scripts[task][at]
      OBVIOUS
    <2>2. Established(s)'
      BY <1>4, <2>1 DEF Established
    <2>3. AtInv' /\ MetInv'
      BY <1>1, <1>4, <2>1, <2>2, PassKeeps
    <2>4. ChangeInv'
      BY <1>4, CurrentStep DEF Pass, AccessInv, AtInv, ChangeInv
    <2> QED
      BY <1>2, <2>3, <2>4 DEF AccessInv
  <1> QED
    BY <1>3, <1>4


LEMMA SecuredType ==
  \A owner \in {"Administrators", "Somebody"} :
    [kind |-> "File", reparse |-> FALSE, sec |-> Secured(owner)] \in Attribute
  <1>1. Allow("System", FullControl, {}) \in Ace /\ Allow("Administrators", FullControl, {}) \in Ace
    BY DEF Allow, Ace, Sids, Trusted, FullControl, Rights
  <1>2. <<Allow("System", FullControl, {}), Allow("Administrators", FullControl, {})>> \in Seq(Ace)
    BY <1>1
  <1>3. ASSUME NEW owner \in {"Administrators", "Somebody"} PROVE Secured(owner) \in Descriptor
    BY <1>2 DEF Secured, Descriptor, Sids, Trusted
  <1> QED
    BY <1>3 DEF Attribute

LEMMA AccessInvInit == StoreAccessInit => AccessInv
  <1> SUFFICES ASSUME StoreAccessInit PROVE AccessInv
    OBVIOUS
  <1>1. objects \in [Objects -> Attribute]
    BY AttributesAssumption DEF StoreAccessInit
  <1>2. AccessTypeInv
    <2>1. /\ task = "none" /\ said = "none" /\ changed = FALSE
          /\ places \in [PlaceNames -> Objects \cup {NoObject}]
          /\ handles = [n \in PlaceNames |-> NoObject]
      BY DEF StoreAccessInit
    <2>2. handles \in [PlaceNames -> Objects \cup {NoObject}]
      BY <2>1
    <2> QED
      BY <1>1, <2>1, <2>2 DEF AccessTypeInv
  <1>3. handles[StoreName] = NoObject
    BY DEF StoreAccessInit, PlaceNames
  <1> QED
    BY <1>2, <1>3 DEF StoreAccessInit, AccessInv, AtInv, MetInv, HeldInv, ChangeInv

LEMMA EnterKeeps ==
  ASSUME AccessInv, NEW t \in DOMAIN Scripts, Enter(t)
  PROVE  AccessInv'
  <1>1. /\ task' = t /\ at' = 1 /\ said' = "none" /\ changed' = FALSE
        /\ UNCHANGED <<places, objects>>
        /\ handles' = [n \in PlaceNames |->
                         IF n = StoreName \/ t = "check" THEN handles[n] ELSE NoObject]
    BY DEF Enter, world
  <1>2. met' = Holding /\ Holding' = Holding
    BY <1>1 DEF Enter, Holding
  <1>3. t # "none"
    BY DEF Scripts
  <1>4. StoreName \in PlaceNames
    BY DEF PlaceNames
  <1>5. AccessTypeInv'
    BY <1>1, <1>3 DEF AccessInv, AccessTypeInv
  <1>6. AtInv'
    BY <1>1, ScriptLengths DEF AtInv
  <1>7. MetInv'
    BY <1>1, <1>2 DEF MetInv
  <1>8. HeldInv'
    <2>1. handles'[StoreName] = handles[StoreName]
      BY <1>1, <1>4
    <2>2. ASSUME t # "open" PROVE handles[StoreName] \in Objects
      <3>1. /\ task # "none"
            /\ task = "open" => said = "ok"
        BY <2>2 DEF Enter, AccessInv, AccessTypeInv, AtInv
      <3> QED
        BY <3>1, OpenHolds DEF AccessInv, HeldInv
    <2> QED
      BY <1>1, <2>1, <2>2 DEF AccessInv, HeldInv
  <1>9. ChangeInv'
    BY <1>1 DEF ChangeInv
  <1> QED
    BY <1>5, <1>6, <1>7, <1>8, <1>9 DEF AccessInv

LEMMA LeaveKeeps ==
  ASSUME AccessInv, Leave
  PROVE  AccessInv'
  BY DEF Leave, world, AccessInv, AccessTypeInv, AtInv, MetInv, HeldInv, ChangeInv, PlaceNames

\* The checks, each with what its success establishes.
LEMMA ChecksKeep ==
  ASSUME AccessInv,
         \/ CallFails \/ CheckRoot \/ Contain \/ CheckType \/ CheckSecurity \/ Read
         \/ Differ \/ Same \/ CheckParent
  PROVE  AccessInv'
  <1>1. task # "none" /\ said = "none" /\ UNCHANGED <<world, handles, changed, met>>
    BY DEF CallFails, CheckRoot, Contain, CheckType, CheckSecurity, Read, Differ, Same,
       CheckParent, Doing
  <1> DEFINE s == Scripts[task][at]
  <1>2. Holding \subseteq met
    BY <1>1 DEF AccessInv, MetInv
  <1>3. CASE CallFails \/ CheckRoot \/ Contain \/ Read \/ Differ \/ Same \/ CheckParent
    <2>1. Refuse \/ (Pass /\ s.does \in {"root", "contain", "read", "differ", "same", "parent"})
      BY <1>3 DEF CallFails, CheckRoot, Contain, Read, Differ, Same, CheckParent, Doing
    <2>2. s.does \in {"root", "contain", "read", "differ", "same", "parent"} => Established(s)
      BY DEF Established, Opening
    <2> QED
      BY <1>1, <2>1, <2>2, LookKeeps
  <1>4. CASE CheckType
    <2>1. Refuse \/ (Pass /\ s.does = "type" /\ Plain(handles[s.name], Kind(s.name)))
      BY <1>4 DEF CheckType, Doing, Name, Kind
    <2>2. s.does = "type" /\ Plain(handles[s.name], Kind(s.name)) => Established(s)
      BY <1>2 DEF Established, Opening, Plain, Holding
    <2> QED
      BY <1>1, <2>1, <2>2, LookKeeps
  <1>5. CASE CheckSecurity
    <2>1. Refuse \/ (Pass /\ s.does = "secure" /\ ValidateSecurity(objects[handles[s.name]].sec))
      BY <1>5 DEF CheckSecurity, Doing, Name
    <2>2. ASSUME s.does = "secure", ValidateSecurity(objects[handles[s.name]].sec)
          PROVE  Established(s)
      <3>1. ASSUME handles[s.name] \in Objects PROVE <<handles[s.name], "guarded">> \in met
        <4>1. objects[handles[s.name]].sec \in Descriptor
          BY <3>1 DEF AccessInv, AccessTypeInv, Attribute
        <4>2. Guarded(objects[handles[s.name]].sec)
          BY <2>2, <4>1, AcceptedIsGuarded
        <4> QED
          BY <1>2, <3>1, <4>2 DEF Holding
      <3> QED
        BY <2>2, <3>1 DEF Established, Opening
    <2> QED
      BY <1>1, <2>1, <2>2, LookKeeps
  <1> QED
    BY <1>3, <1>4, <1>5


LEMMA OpenKeeps ==
  ASSUME AccessInv, Open
  PROVE  AccessInv'
  <1> DEFINE s == Scripts[task][at]
  <1>1. /\ task # "none" /\ said = "none" /\ s.does = "open" /\ s.name = Name
        /\ UNCHANGED <<root, places, objects, acts, changed, met>>
    BY DEF Open, Doing, Name, world
  <1>2. Name \in PlaceNames
    BY <1>1, CurrentStep
  <1>3. Holding' = Holding /\ Holding \subseteq met
    BY <1>1 DEF Holding, AccessInv, MetInv
  <1>4. CASE places[Name] # NoObject
    <2>1. handles' = [handles EXCEPT ![Name] = places[Name]] /\ Pass
      BY <1>4 DEF Open
    <2>2. places[Name] \in Objects /\ <<places[Name], Name>> \in Holding
      BY <1>2, <1>4 DEF AccessInv, AccessTypeInv, Holding
    <2>3. handles'[Name] = places[Name] /\ \A n \in PlaceNames : n # Name => handles'[n] = handles[n]
      BY <1>2, <2>1 DEF AccessInv, AccessTypeInv
    <2>4. PICK x : x = s
      OBVIOUS
    <2>5. Established(x)'
      BY <1>1, <1>3, <2>2, <2>3, <2>4 DEF Established, Opening
    <2>6. AtInv' /\ MetInv'
      <3>1. \A n \in PlaceNames : x.does \notin Opening \/ x.name # n => handles'[n] = handles[n]
        BY <1>1, <2>3, <2>4 DEF Opening
      <3>2. met \subseteq met' /\ Holding' \subseteq met'
        BY <1>1, <1>3
      <3> QED
        BY <1>1, <2>1, <2>4, <2>5, <3>1, <3>2, PassKeeps
    <2>7. AccessTypeInv'
      BY <1>1, <1>2, <2>1, <2>2 DEF Pass, AccessInv, AccessTypeInv
    <2>8. HeldInv'
      <3>1. StoreName \in PlaceNames
        BY DEF PlaceNames
      <3> QED
        BY <1>1, <1>2, <2>1, <2>2, <2>3, <3>1 DEF Pass, AccessInv, HeldInv
    <2>9. ChangeInv'
      BY <1>1, <2>1, CurrentStep DEF Pass, AccessInv, AtInv, ChangeInv
    <2> QED
      BY <2>6, <2>7, <2>8, <2>9 DEF AccessInv
  <1>5. CASE places[Name] = NoObject
    <2>1. /\ UNCHANGED <<task, at, handles>>
          /\ Refuse \/ (said' = "missing" /\ task = "load")
      BY <1>5 DEF Open, Refuse
    <2>2. AtInv' /\ MetInv'
      BY <1>1, <1>3, <2>1, StayKeeps DEF Refuse
    <2>3. AccessTypeInv' /\ HeldInv' /\ ChangeInv'
      BY <1>1, <2>1 DEF Refuse, AccessInv, AccessTypeInv, HeldInv, ChangeInv
    <2> QED
      BY <2>2, <2>3 DEF AccessInv
  <1> QED
    BY <1>4, <1>5

LEMMA CreateKeeps ==
  ASSUME AccessInv, CreateNew
  PROVE  AccessInv'
  <1> DEFINE s == Scripts[task][at]
  <1>1. /\ task # "none" /\ said = "none" /\ s.does = "create" /\ s.name = Name
    BY DEF CreateNew, Doing, Name
  <1>2. Name \in ChildNames /\ Name \in PlaceNames /\ Name # StoreName /\ StoreName \in PlaceNames
    BY CurrentStep, <1>1
       DEF Doing, PlaceNames, ChildNames, StoreName, RecordName, TemporaryName
  <1>3. CASE places[Name] # NoObject
    <2>1. Refuse /\ UNCHANGED <<places, objects, handles, changed>> /\ Witness
      BY <1>3 DEF CreateNew
    <2>2. met' = met \cup Holding'
      BY <1>1, <2>1 DEF Witness
    <2>3. AtInv' /\ MetInv'
      BY <1>1, <2>1, <2>2, StayKeeps DEF Refuse
    <2>4. AccessTypeInv' /\ HeldInv' /\ ChangeInv'
      BY <1>1, <2>1 DEF Refuse, AccessInv, AccessTypeInv, HeldInv, ChangeInv
    <2> QED
      BY <2>3, <2>4 DEF AccessInv
  <1>4. CASE places[Name] = NoObject
    <2>1. PICK o \in Objects, owner \in {"Administrators", "Somebody"} :
            /\ places' = [places EXCEPT ![Name] = o]
            /\ objects' = [objects EXCEPT
                             ![o] = [kind |-> "File", reparse |-> FALSE, sec |-> Secured(owner)]]
            /\ handles' = [handles EXCEPT ![Name] = o]
      BY <1>4 DEF CreateNew
    <2>2. changed' = TRUE /\ Pass /\ met' = met \cup Holding'
      BY <1>1, <1>4 DEF CreateNew, Witness
    <2>3. places'[Name] = o /\ handles'[Name] = o
          /\ \A n \in PlaceNames : n # Name => handles'[n] = handles[n] /\ places'[n] = places[n]
      BY <1>2, <2>1 DEF AccessInv, AccessTypeInv
    <2>4. <<o, Name>> \in Holding'
      BY <1>2, <2>3, ActsAssumption DEF Holding
    <2>5. PICK x : x = s
      OBVIOUS
    <2>6. Established(x)'
      BY <1>1, <2>2, <2>3, <2>4, <2>5 DEF Established, Opening
    <2>7. AtInv' /\ MetInv'
      <3>1. \A n \in PlaceNames : x.does \notin Opening \/ x.name # n => handles'[n] = handles[n]
        BY <1>1, <2>3, <2>5 DEF Opening
      <3>2. met \subseteq met' /\ Holding' \subseteq met'
        BY <2>2
      <3> QED
        BY <1>1, <2>2, <2>5, <2>6, <3>1, <3>2, PassKeeps
    <2>8. AccessTypeInv'
      <3>1. objects' \in [Objects -> Attribute]
        BY <2>1, SecuredType DEF AccessInv, AccessTypeInv
      <3> QED
        BY <1>1, <1>2, <2>1, <2>2, <3>1 DEF Pass, AccessInv, AccessTypeInv
    <2>9. HeldInv'
      BY <1>2, <2>2, <2>3 DEF Pass, AccessInv, HeldInv
    <2>10. ChangeInv'
      <3>1. at \in 1 .. at' - 1 /\ task' = task /\ said' # "error"
        BY <1>1, <2>2, CurrentStep DEF Pass
      <3> QED
        BY <1>1, <3>1 DEF ChangeInv, Changing
    <2> QED
      BY <2>7, <2>8, <2>9, <2>10 DEF AccessInv
  <1> QED
    BY <1>3, <1>4

LEMMA ReplaceKeeps ==
  ASSUME AccessInv, ReplaceFile
  PROVE  AccessInv'
  <1> DEFINE s == Scripts[task][at]
             Renamed == [places EXCEPT ![RecordName] = places[TemporaryName],
                                       ![TemporaryName] = NoObject]
             Unnamed == [places EXCEPT ![RecordName] = NoObject]
  <1>1. /\ task # "none" /\ said = "none" /\ s.does = "replace" /\ changed' = TRUE
        /\ UNCHANGED <<root, objects, acts, handles>> /\ met' = met \cup Holding'
        /\ places' \in {places, Renamed, Unnamed}
    BY DEF ReplaceFile, Doing, Witness
  <1>2. /\ RecordName \in PlaceNames /\ TemporaryName \in PlaceNames /\ StoreName \in PlaceNames
        /\ StoreName \notin {RecordName, TemporaryName}
    BY DEF PlaceNames, ChildNames, StoreName, RecordName, TemporaryName
  <1>3. places' \in [PlaceNames -> Objects \cup {NoObject}] /\ places'[StoreName] = places[StoreName]
    BY <1>1, <1>2 DEF AccessInv, AccessTypeInv
  <1>4. met \subseteq met' /\ Holding' \subseteq met'
    BY <1>1
  <1>5. CASE Pass
    <2>1. PICK x : x = s
      OBVIOUS
    <2>2. Established(x)'
      BY <1>1, <2>1 DEF Established, Opening
    <2>3. AtInv' /\ MetInv'
      BY <1>1, <1>4, <1>5, <2>1, <2>2, PassKeeps
    <2>4. AccessTypeInv' /\ HeldInv'
      BY <1>1, <1>3, <1>5 DEF Pass, AccessInv, AccessTypeInv, HeldInv
    <2>5. ChangeInv'
      <3>1. at \in 1 .. at' - 1 /\ task' = task /\ said' # "error"
        BY <1>1, <1>5, CurrentStep DEF Pass
      <3> QED
        BY <1>1, <3>1 DEF ChangeInv, Changing
    <2> QED
      BY <2>3, <2>4, <2>5 DEF AccessInv
  <1>6. CASE said' = "ambiguous" /\ UNCHANGED <<task, at>>
    <2>1. AtInv' /\ MetInv'
      BY <1>1, <1>4, <1>6, StayKeeps
    <2>2. AccessTypeInv' /\ HeldInv' /\ ChangeInv'
      BY <1>1, <1>3, <1>6 DEF AccessInv, AccessTypeInv, HeldInv, ChangeInv
    <2> QED
      BY <2>1, <2>2 DEF AccessInv
  <1> QED
    BY <1>5, <1>6 DEF ReplaceFile


LEMMA RemoveKeeps ==
  ASSUME AccessInv, RemoveFile
  PROVE  AccessInv'
  <1> DEFINE s == Scripts[task][at]
  <1>1. /\ task # "none" /\ said = "none" /\ s.does = "remove" /\ ~changed
        /\ UNCHANGED <<root, objects, acts, handles>> /\ met' = met \cup Holding'
    BY CurrentStep DEF RemoveFile, Doing, Witness
  <1>2. TemporaryName \in PlaceNames /\ StoreName \in PlaceNames /\ StoreName # TemporaryName
    BY DEF PlaceNames, ChildNames, StoreName, TemporaryName
  <1>3. met \subseteq met' /\ Holding' \subseteq met'
    BY <1>1
  <1>4. CASE /\ places' = [places EXCEPT ![TemporaryName] = NoObject]
             /\ changed' = TRUE /\ Pass
    <2>1. PICK x : x = s
      OBVIOUS
    <2>2. Established(x)'
      BY <1>1, <2>1 DEF Established, Opening
    <2>3. AtInv' /\ MetInv'
      BY <1>1, <1>3, <1>4, <2>1, <2>2, PassKeeps
    <2>4. AccessTypeInv' /\ HeldInv'
      BY <1>1, <1>2, <1>4 DEF Pass, AccessInv, AccessTypeInv, HeldInv
    <2>5. ChangeInv'
      <3>1. at \in 1 .. at' - 1 /\ task' = task /\ said' # "error"
        BY <1>1, <1>4, CurrentStep DEF Pass
      <3> QED
        BY <1>1, <3>1 DEF ChangeInv, Changing
    <2> QED
      BY <2>3, <2>4, <2>5 DEF AccessInv
  <1>5. CASE said' \in {"error", "ambiguous"} /\ UNCHANGED <<places, changed, task, at>>
    <2>1. AtInv' /\ MetInv'
      BY <1>1, <1>3, <1>5, StayKeeps
    <2>2. AccessTypeInv' /\ HeldInv' /\ ChangeInv'
      BY <1>1, <1>5 DEF AccessInv, AccessTypeInv, HeldInv, ChangeInv
    <2> QED
      BY <2>1, <2>2 DEF AccessInv
  <1> QED
    BY <1>4, <1>5 DEF RemoveFile

\* The other administrator cannot make what was true before untrue, nor move
\* the directory that is held.
LEMMA InterferenceKeeps ==
  ASSUME AccessInv, Interferes
  PROVE  AccessInv'
  <1> USE DEF AccessInv
  <1>1. /\ UNCHANGED <<root, task, at, handles, said, changed>>
        /\ met' = IF task = "none" THEN {} ELSE met \cup Holding'
    BY DEF Interferes, TakeAway, PutThere, Link, Reprotect, Acting, Witness
  <1>2. AtInv' /\ MetInv'
    BY <1>1, StayKeeps
  <1>3. ChangeInv'
    BY <1>1 DEF ChangeInv
  <1> DEFINE Kept ==
        /\ objects' \in [Objects -> Attribute]
        /\ places' \in [PlaceNames -> Objects \cup {NoObject}]
        /\ handles[StoreName] # NoObject => places'[StoreName] = places[StoreName]
  <1>4. Kept
    <2>1. ChildNames \subseteq PlaceNames /\ StoreName \in PlaceNames \ ChildNames
      BY DEF PlaceNames, ChildNames, StoreName, RecordName, TemporaryName
    <2>2. ASSUME NEW n \in PlaceNames, TakeAway(n) PROVE Kept
      BY <2>1, <2>2 DEF TakeAway, Movable, AccessTypeInv
    <2>3. ASSUME NEW n \in PlaceNames, NEW o \in Objects, NEW a \in Attributes, PutThere(n, o, a)
          PROVE  Kept
      <3>1. a \in Attribute
        BY AttributesAssumption
      <3> QED
        BY <2>1, <2>3, <3>1 DEF PutThere, Movable, AccessTypeInv
    <2>4. ASSUME NEW m \in ChildNames, NEW n \in ChildNames, Link(m, n) PROVE Kept
      BY <2>1, <2>4 DEF Link, AccessTypeInv
    <2>5. ASSUME NEW o \in Objects, NEW a \in Attributes, Reprotect(o, a.sec) PROVE Kept
      <3>1. a.sec \in Descriptor /\ objects[o] \in Attribute
        BY AttributesAssumption DEF Attribute, AccessTypeInv
      <3>2. [objects[o] EXCEPT !.sec = a.sec] \in Attribute
        BY <3>1 DEF Attribute
      <3>3. objects' = [objects EXCEPT ![o] = [objects[o] EXCEPT !.sec = a.sec]] /\ places' = places
        BY <2>5 DEF Reprotect
      <3> QED
        BY <3>2, <3>3 DEF AccessTypeInv
    <2> QED
      BY <2>2, <2>3, <2>4, <2>5 DEF Interferes
  <1>5. AccessTypeInv' /\ HeldInv'
    BY <1>1, <1>4 DEF AccessTypeInv, HeldInv
  <1> QED
    BY <1>2, <1>3, <1>5

LEMMA AccessInvStep == AccessInv /\ [StoreAccessNext]_accessVars => AccessInv'
  <1> SUFFICES ASSUME AccessInv, [StoreAccessNext]_accessVars PROVE AccessInv'
    OBVIOUS
  <1>1. CASE UNCHANGED accessVars
    <2>1. Holding' = Holding
      BY <1>1 DEF accessVars, Holding
    <2>2. AtInv' /\ MetInv'
      BY <1>1, <2>1, StayKeeps DEF accessVars, AccessInv, MetInv
    <2> QED
      BY <1>1, <2>2 DEF accessVars, AccessInv, AccessTypeInv, HeldInv, ChangeInv
  <1>2. CASE StoreStep
    BY <1>2, ChecksKeep, OpenKeeps, CreateKeeps, ReplaceKeeps, RemoveKeeps DEF StoreStep
  <1> QED
    BY <1>1, <1>2, EnterKeeps, LeaveKeeps, InterferenceKeeps DEF StoreAccessNext

\* The inductive invariant holds in every reachable state.
THEOREM AccessInvariance == StoreAccessSpec => []AccessInv
  BY AccessInvInit, AccessInvStep, PTL DEF StoreAccessSpec

-----------------------------------------------------------------------------

\* What a step has established is left when the operation ends, unless its
\* name has been opened again.
LEMMA Ensured ==
  ASSUME AccessInv, task # "none", said = "ok"
  PROVE  \A k \in 1 .. Len(Scripts[task]) :
           Lasts(Scripts[task], k, Len(Scripts[task]) + 1) => Established(Scripts[task][k])
  BY DEF AccessInv, AtInv, MetInv

\* The scripts whose answer is about an object, step by step.
LEMMA OpenSteps ==
  /\ Len(OpenScript) = 5
  /\ OpenScript[1] = Step("root", StoreName) /\ OpenScript[2] = Step("open", StoreName)
  /\ OpenScript[3] = Step("contain", StoreName) /\ OpenScript[4] = Step("type", StoreName)
  /\ OpenScript[5] = Step("secure", StoreName)
  BY DEF OpenScript, OpenChild, Checked

LEMMA LoadSteps ==
  /\ Len(LoadScript) = 10
  /\ LoadScript[1] = Step("root", StoreName) /\ LoadScript[2] = Step("type", StoreName)
  /\ LoadScript[3] = Step("secure", StoreName) /\ LoadScript[4] = Step("open", RecordName)
  /\ LoadScript[5] = Step("contain", RecordName) /\ LoadScript[6] = Step("type", RecordName)
  /\ LoadScript[7] = Step("secure", RecordName) /\ LoadScript[8] = Step("read", RecordName)
  /\ LoadScript[9] = Step("type", RecordName) /\ LoadScript[10] = Step("secure", RecordName)
  BY DEF LoadScript, Hierarchy, OpenChild, Checked

LEMMA FirstSteps ==
  LET script == CreateScript(RecordName) IN
  /\ Len(script) = 4
  /\ script[1] = Step("create", RecordName) /\ script[2] = Step("contain", RecordName)
  /\ script[3] = Step("type", RecordName) /\ script[4] = Step("secure", RecordName)
  BY DEF CreateScript, Checked

LEMMA ReplaceSteps ==
  /\ Len(ReplaceScript) = 15
  /\ ReplaceScript[11] = Step("open", RecordName) /\ ReplaceScript[12] = Step("contain", RecordName)
  /\ ReplaceScript[13] = Step("type", RecordName) /\ ReplaceScript[14] = Step("secure", RecordName)
  /\ ReplaceScript[15] = Step("same", RecordName)
  BY DEF ReplaceScript, OpenChild, Checked

LEMMA RevalidateSteps ==
  /\ Len(RevalidateScript) = 6
  /\ RevalidateScript[1] = Step("type", StoreName) /\ RevalidateScript[2] = Step("secure", StoreName)
  /\ RevalidateScript[3] = Step("open", RecordName)
  /\ RevalidateScript[4] = Step("contain", RecordName)
  /\ RevalidateScript[5] = Step("type", RecordName)
  /\ RevalidateScript[6] = Step("secure", RecordName)
  BY DEF RevalidateScript, OpenChild, Checked

\* The directory is what it is taken for.
LEMMA DirectoryVouched ==
  ASSUME AccessInv, said = "ok", task \in {"open", "load", "revalidate"}
  PROVE  Vouched(handles[StoreName], StoreName)
  <1>1. handles[StoreName] \in Objects /\ StoreName \in PlaceNames
    BY OpenHolds DEF AccessInv, HeldInv, PlaceNames
  <1>2. <<handles[StoreName], StoreName>> \in met
    BY <1>1, ActsAssumption DEF AccessInv, HeldInv, MetInv, Holding
  <1>3. Established(Step("type", StoreName)) /\ Established(Step("secure", StoreName))
    <2>1. CASE task = "open"
      <3>1. Scripts[task] = OpenScript /\ Len(OpenScript) = 5
        BY <2>1, OpenSteps DEF Scripts
      <3>2. OpenScript[4] = Step("type", StoreName) /\ OpenScript[5] = Step("secure", StoreName)
        BY OpenSteps
      <3>3. \A j \in 4 + 1 .. 5 : OpenScript[j].does \in Opening => OpenScript[j].name # StoreName
        BY OpenSteps DEF Opening, Step, StoreName, RecordName
      <3>4. Lasts(OpenScript, 4, 5 + 1) /\ Lasts(OpenScript, 5, 5 + 1)
        BY <3>2, <3>3 DEF Lasts, Step
      <3>5. \A k \in 1 .. 5 : Lasts(OpenScript, k, 5 + 1) => Established(OpenScript[k])
        BY <2>1, <3>1, Ensured
      <3>6. Established(OpenScript[4]) /\ Established(OpenScript[5])
        BY <3>4, <3>5
      <3> QED
        BY <3>2, <3>6
    <2>2. CASE task = "load"
      <3>1. Scripts[task] = LoadScript /\ Len(LoadScript) = 10
        BY <2>2, LoadSteps DEF Scripts
      <3>2. LoadScript[2] = Step("type", StoreName) /\ LoadScript[3] = Step("secure", StoreName)
        BY LoadSteps
      <3>3. \A j \in 2 + 1 .. 10 : LoadScript[j].does \in Opening => LoadScript[j].name # StoreName
        BY LoadSteps DEF Opening, Step, StoreName, RecordName
      <3>4. Lasts(LoadScript, 2, 10 + 1) /\ Lasts(LoadScript, 3, 10 + 1)
        BY <3>2, <3>3 DEF Lasts, Step
      <3>5. \A k \in 1 .. 10 : Lasts(LoadScript, k, 10 + 1) => Established(LoadScript[k])
        BY <2>2, <3>1, Ensured
      <3>6. Established(LoadScript[2]) /\ Established(LoadScript[3])
        BY <3>4, <3>5
      <3> QED
        BY <3>2, <3>6
    <2>3. CASE task = "revalidate"
      <3>1. Scripts[task] = RevalidateScript /\ Len(RevalidateScript) = 6
        BY <2>3, RevalidateSteps DEF Scripts
      <3>2. RevalidateScript[1] = Step("type", StoreName) /\ RevalidateScript[2] = Step("secure", StoreName)
        BY RevalidateSteps
      <3>3. \A j \in 1 + 1 .. 6 : RevalidateScript[j].does \in Opening => RevalidateScript[j].name # StoreName
        BY RevalidateSteps DEF Opening, Step, StoreName, RecordName
      <3>4. Lasts(RevalidateScript, 1, 6 + 1) /\ Lasts(RevalidateScript, 2, 6 + 1)
        BY <3>2, <3>3 DEF Lasts, Step
      <3>5. \A k \in 1 .. 6 : Lasts(RevalidateScript, k, 6 + 1) => Established(RevalidateScript[k])
        BY <2>3, <3>1, Ensured
      <3>6. Established(RevalidateScript[1]) /\ Established(RevalidateScript[2])
        BY <3>4, <3>5
      <3> QED
        BY <3>2, <3>6
    <2> QED
      BY <2>1, <2>2, <2>3
  <1>4. <<handles[StoreName], Kind(StoreName)>> \in met /\ <<handles[StoreName], "guarded">> \in met
    BY <1>1, <1>3 DEF Established, Step
  <1> QED
    BY <1>2, <1>4 DEF Vouched, Kind

\* So is the record, whether it was there, is new or replaces another.
LEMMA RecordVouched ==
  ASSUME AccessInv, said = "ok", task \in {"load", "first", "revalidate", "replace"}
  PROVE  Vouched(handles[RecordName], RecordName)
  <1>1. RecordName \in ChildNames /\ RecordName # StoreName
    BY DEF ChildNames, StoreName, RecordName
  <1>2. /\ \E d \in Opening : Established(Step(d, RecordName))
        /\ Established(Step("type", RecordName)) /\ Established(Step("secure", RecordName))
    <2>1. CASE task = "load"
      <3>1. Scripts[task] = LoadScript /\ Len(LoadScript) = 10
        BY <2>1, LoadSteps DEF Scripts
      <3>2. /\ LoadScript[4] = Step("open", RecordName) /\ LoadScript[6] = Step("type", RecordName)
            /\ LoadScript[7] = Step("secure", RecordName)
        BY LoadSteps
      <3>3. \A j \in 4 + 1 .. 10 : LoadScript[j].does \notin Opening
        BY LoadSteps DEF Opening, Step
      <3>4. /\ Lasts(LoadScript, 4, 10 + 1) /\ Lasts(LoadScript, 6, 10 + 1)
            /\ Lasts(LoadScript, 7, 10 + 1)
        BY <3>3 DEF Lasts
      <3>5. \A k \in 1 .. 10 : Lasts(LoadScript, k, 10 + 1) => Established(LoadScript[k])
        BY <2>1, <3>1, Ensured
      <3>6. Established(LoadScript[4]) /\ Established(LoadScript[6]) /\ Established(LoadScript[7])
        BY <3>4, <3>5
      <3>7. "open" \in Opening
        BY DEF Opening
      <3> QED
        BY <3>2, <3>6, <3>7
    <2>2. CASE task = "first"
      <3> DEFINE script == CreateScript(RecordName)
      <3>1. Scripts[task] = script /\ Len(script) = 4
        BY <2>2, FirstSteps DEF Scripts
      <3>2. /\ script[1] = Step("create", RecordName) /\ script[3] = Step("type", RecordName)
            /\ script[4] = Step("secure", RecordName)
        BY FirstSteps
      <3>3. \A j \in 1 + 1 .. 4 : script[j].does \notin Opening
        BY FirstSteps DEF Opening, Step
      <3> HIDE DEF script
      <3>4. /\ Lasts(script, 1, 4 + 1) /\ Lasts(script, 3, 4 + 1)
            /\ Lasts(script, 4, 4 + 1)
        BY <3>3 DEF Lasts
      <3>5. \A k \in 1 .. 4 : Lasts(script, k, 4 + 1) => Established(script[k])
        BY <2>2, <3>1, Ensured
      <3>6. Established(script[1]) /\ Established(script[3]) /\ Established(script[4])
        BY <3>4, <3>5
      <3>7. "create" \in Opening
        BY DEF Opening
      <3> QED
        BY <3>2, <3>6, <3>7
    <2>3. CASE task = "replace"
      <3>1. Scripts[task] = ReplaceScript /\ Len(ReplaceScript) = 15
        BY <2>3, ReplaceSteps DEF Scripts
      <3>2. /\ ReplaceScript[11] = Step("open", RecordName) /\ ReplaceScript[13] = Step("type", RecordName)
            /\ ReplaceScript[14] = Step("secure", RecordName)
        BY ReplaceSteps
      <3>3. \A j \in 11 + 1 .. 15 : ReplaceScript[j].does \notin Opening
        BY ReplaceSteps DEF Opening, Step
      <3>4. /\ Lasts(ReplaceScript, 11, 15 + 1) /\ Lasts(ReplaceScript, 13, 15 + 1)
            /\ Lasts(ReplaceScript, 14, 15 + 1)
        BY <3>3 DEF Lasts
      <3>5. \A k \in 1 .. 15 : Lasts(ReplaceScript, k, 15 + 1) => Established(ReplaceScript[k])
        BY <2>3, <3>1, Ensured
      <3>6. Established(ReplaceScript[11]) /\ Established(ReplaceScript[13]) /\ Established(ReplaceScript[14])
        BY <3>4, <3>5
      <3>7. "open" \in Opening
        BY DEF Opening
      <3> QED
        BY <3>2, <3>6, <3>7
    <2>4. CASE task = "revalidate"
      <3>1. Scripts[task] = RevalidateScript /\ Len(RevalidateScript) = 6
        BY <2>4, RevalidateSteps DEF Scripts
      <3>2. /\ RevalidateScript[3] = Step("open", RecordName) /\ RevalidateScript[5] = Step("type", RecordName)
            /\ RevalidateScript[6] = Step("secure", RecordName)
        BY RevalidateSteps
      <3>3. \A j \in 3 + 1 .. 6 : RevalidateScript[j].does \notin Opening
        BY RevalidateSteps DEF Opening, Step
      <3>4. /\ Lasts(RevalidateScript, 3, 6 + 1) /\ Lasts(RevalidateScript, 5, 6 + 1)
            /\ Lasts(RevalidateScript, 6, 6 + 1)
        BY <3>3 DEF Lasts
      <3>5. \A k \in 1 .. 6 : Lasts(RevalidateScript, k, 6 + 1) => Established(RevalidateScript[k])
        BY <2>4, <3>1, Ensured
      <3>6. Established(RevalidateScript[3]) /\ Established(RevalidateScript[5]) /\ Established(RevalidateScript[6])
        BY <3>4, <3>5
      <3>7. "open" \in Opening
        BY DEF Opening
      <3> QED
        BY <3>2, <3>6, <3>7
    <2> QED
      BY <2>1, <2>2, <2>3, <2>4
  <1>3. handles[RecordName] \in Objects /\ <<handles[RecordName], RecordName>> \in met
    BY <1>2 DEF Established, Step
  <1>4. /\ <<handles[RecordName], Kind(RecordName)>> \in met
        /\ <<handles[RecordName], "guarded">> \in met
    BY <1>2, <1>3 DEF Established, Step
  <1> QED
    BY <1>1, <1>3, <1>4 DEF Vouched, Kind

\* For any objects, descriptors and acts of another administrator, what the
\* operations of the store report is true: the directory and the record they
\* hand on were guarded objects in their places during the operation, and an
\* ordinary error means that nothing was created or removed.
THEOREM TrueOutcomes == StoreAccessSpec => []OutcomesAreTrue
  <1>1. AccessInv => OutcomesAreTrue
    BY DirectoryVouched, RecordVouched DEF OutcomesAreTrue, AccessInv, ChangeInv
  <1> QED
    BY <1>1, AccessInvariance, PTL

=============================================================================
