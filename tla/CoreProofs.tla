----------------------------- MODULE CoreProofs -----------------------------
(***************************************************************************)
(* Proofs about crates/core.                                               *)
(*                                                                         *)
(* BootFlow, for every set of boot identifiers and identities, either      *)
(* host, any rollback behaviour the trait allows and any number of         *)
(* invocations and foreign writes.                                         *)
(*                                                                         *)
(* RecordedIdentity, on which BootFlow's comparison of identities rests:   *)
(* what the parsers of LoadOptions compute for byte strings of any length, *)
(* and that a switch accepts an entry exactly when nothing that identifies *)
(* it has changed, for any codec of the records with the laws that         *)
(* RecordAssumption states.                                                *)
(***************************************************************************)
EXTENDS BootFlow, RecordedIdentity, SequenceTheorems, WellFoundedInduction, TLAPS

-----------------------------------------------------------------------------
(* BootFlow. *)

\* The control points of a Switch whose target has been validated.
SwitchPCs == {"original", "recheck", "create", "write", "readback", "reboot",
              "observe", "rollback"}

\* Until the record is loaded nothing of the invocation is in the firmware;
\* after it is loaded the invocation's copy is the record, and a mutating
\* request names the system the host switches to.
LoadInv ==
  /\ pc \in {"env", "options", "save"} \cup SwitchPCs =>
       /\ record = rec
       /\ req.op # "Inspect" => req.os = ExpectedTarget
  /\ pc \in {"load", "env", "options", "save", "original", "recheck", "create"} =>
       ~mine /\ ~wrote

\* What the enumeration established, and that it still holds while no other
\* tool has written a load option since.
TargetInv ==
  /\ pc = "save" =>
       /\ req.op = "Configure"
       /\ inv[req.id] \in Idents
       /\ quiet => inv = options
  /\ pc \in SwitchPCs =>
       /\ req.op = "Switch" /\ rec \in Records
       /\ inv[rec.id] = rec.ident
       /\ quiet => inv = options

\* Where BootNext may stand at each control point.
NextInv ==
  /\ pc \in {"recheck", "create", "write"} => original = None /\ host = "Linux"
  /\ pc \in {"recheck", "create", "write"} => ~wrote
  /\ pc = "write" => mine \/ raced
  /\ pc \in SwitchPCs /\ wrote => original = None /\ host = "Linux"
  /\ pc \in {"readback", "reboot", "observe", "rollback"} /\ mine =>
       wrote /\ bootNext = rec.id
  /\ pc = "rollback" => wrote
  /\ pc = "reboot" /\ settled => bootNext = rec.id
  /\ pc \notin {"idle", "done"} =>
       stages \cap {"RebootAccepted", "RebootUnknown"} = {}

\* The inductive invariant.
IInv == TypeOK /\ LoadInv /\ TargetInv /\ NextInv /\ NextIsKnown /\ ResidualIsReported

USE RollbacksAssumption, BoundsAssumption, DistinctAssumption,
    RecordsAssumption

-----------------------------------------------------------------------------

\* read_next answers an error, the decoded variable, or a confirmed absence.
LEMMA ReadNextSound ==
  ASSUME TypeOK, NEW v \in ReadNextOutcomes
  PROVE  \/ v = Failed
         \/ v \in BootIds /\ v = bootNext
         \/ v = None /\ bootNext = None /\ host = "Linux"
  BY DEF ReadNextOutcomes, TypeOK, DataOK, NextValues

\* An answer built from known parts is well typed and ends the invocation.
LEMMA AnswerTyped ==
  ASSUME NEW k \in {"none", "ok", "plain", "flow"},
         NEW s \in SUBSET Stages, NEW r \in AllRollbacks,
         Answer(k, s, r)
  PROVE  result' \in Results /\ pc' = "done"
  BY DEF Answer, Results

\* So is a flow failure, whatever it says of the residual.
LEMMA FailureTyped ==
  ASSUME stages \in SUBSET Stages, NEW residual, Failure(residual)
  PROVE  result' \in Results /\ pc' = "done" /\ stages' = stages
  BY DEF Answer, Results, Failure, Stages, AllRollbacks

\* So is an error before any stage.
LEMMA PlainTyped ==
  ASSUME PlainError
  PROVE  result' \in Results /\ pc' = "done" /\ stages' = stages
  BY DEF Answer, Results, PlainError, Stages, AllRollbacks

\* Every initial state is well typed.
LEMMA TypingInit == Init => TypeOK
  <1>1. Init => FlagsOK
    BY Zenon DEF Init, FlagsOK
  <1>2. Init => DataOK
    BY DEF Init, DataOK, NextValues, PCs, Requests, Stages, Results, NoResult,
           AllRollbacks, OptionValues
  <1> QED
    BY <1>1, <1>2 DEF TypeOK

\* Every step keeps the flags Boolean.
LEMMA FlagsStep == FlagsOK /\ [Next]_vars => FlagsOK'
  <1> SUFFICES ASSUME FlagsOK, [Next]_vars PROVE FlagsOK'
    OBVIOUS
  <1> USE DEF FlagsOK, locals, history
  <1>1. ASSUME NEW r \in Requests, Start(r) PROVE FlagsOK'
    BY <1>1, Zenon DEF Start
  <1>2. CASE LoadRecord
    BY <1>2, Zenon DEF LoadRecord
  <1>3. CASE CheckEnvironment
    BY <1>3, Zenon DEF CheckEnvironment
  <1>4. CASE ReadOptions
    BY <1>4, Zenon DEF ReadOptions
  <1>5. CASE SaveRecord
    BY <1>5, Zenon DEF SaveRecord
  <1>6. CASE ReadOriginal
    BY <1>6, Zenon DEF ReadOriginal
  <1>7. CASE Recheck
    BY <1>7, Zenon DEF Recheck
  <1>8. CASE CreateNext
    BY <1>8, Zenon DEF CreateNext
  <1>9. CASE WriteNext
    BY <1>9, Zenon DEF WriteNext
  <1>10. CASE Readback
    BY <1>10, Zenon DEF Readback
  <1>11. CASE Reboot
    BY <1>11, Zenon DEF Reboot
  <1>12. CASE Observe
    BY <1>12, Zenon DEF Observe
  <1>13. CASE Rollback
    BY <1>13, Zenon DEF Rollback
  <1>14. CASE Crash
    BY <1>14, Zenon DEF Crash
  <1>15. CASE PowerCycle
    BY <1>15, Zenon DEF PowerCycle
  <1>16. ASSUME NEW v \in BootIds \cup {None}, ForeignNext(v) PROVE FlagsOK'
    BY <1>16, Zenon DEF ForeignNext
  <1>17. ASSUME NEW b \in BootIds, NEW x \in OptionValues, ForeignOption(b, x)
         PROVE FlagsOK'
    BY <1>17, Zenon DEF ForeignOption
  <1>18. CASE UNCHANGED vars
    BY <1>18, Zenon DEF vars
  <1> QED
    BY <1>1, <1>2, <1>3, <1>4, <1>5, <1>6, <1>7, <1>8, <1>9, <1>10, <1>11,
       <1>12, <1>13, <1>14, <1>15, <1>16, <1>17, <1>18 DEF Next, Execute

\* Every step keeps the data well typed, given what is true of the target
\* where the flow copies it.
LEMMA DataStep ==
  ASSUME TypeOK, [Next]_vars,
         pc \in SwitchPCs => rec \in Records,
         pc = "save" => req.op = "Configure" /\ inv[req.id] \in Idents
  PROVE  DataOK'
  <1> USE DEF TypeOK, DataOK, NextValues, PCs, firmware, locals, history, bounds,
              SwitchPCs
  <1>0. host' = host
    BY DEF Next, vars
  <1> USE <1>0
  <1>1. ASSUME NEW r \in Requests, Start(r) PROVE DataOK'
    BY <1>1 DEF Start, NoResult, Results, AllRollbacks, OptionValues, Stages
  <1>2. CASE LoadRecord
    BY <1>2, PlainTyped
       DEF LoadRecord, Goto
  <1>3. CASE CheckEnvironment
    BY <1>3, PlainTyped
       DEF CheckEnvironment, Goto
  <1>4. CASE ReadOptions
    BY <1>4, PlainTyped, AnswerTyped
       DEF ReadOptions, Goto, Stages, AllRollbacks
  <1>5. CASE SaveRecord
    <2>1. [id |-> req.id, os |-> req.os, ident |-> inv[req.id]] \in Records
      BY <1>5 DEF SaveRecord, Records, Requests
    <2> QED
      BY <1>5, <2>1, FailureTyped, AnswerTyped DEF SaveRecord, Wreckage, AllRollbacks
  <1>6. CASE ReadOriginal
    BY <1>6, FailureTyped, ReadNextSound
       DEF ReadOriginal, Goto
  <1>7. CASE Recheck
    BY <1>7, FailureTyped
       DEF Recheck, Goto
  <1>8. CASE CreateNext
    BY <1>8, FailureTyped
       DEF CreateNext, Goto
  <1>9. CASE WriteNext
    BY <1>9, FailureTyped
       DEF WriteNext, Goto, Records
  <1>10. CASE Readback
    BY <1>10, FailureTyped
       DEF Readback, Goto, Stages
  <1>11. CASE Reboot
    BY <1>11, AnswerTyped
       DEF Reboot, Goto, Stages, AllRollbacks
  <1>12. CASE Observe
    BY <1>12, AnswerTyped
       DEF Observe, Goto, Stages, AllRollbacks
  <1>13. CASE Rollback
    <2>1. PICK r \in AllRollbacks :
            /\ stages' = stages \cup RollbackStages(r)
            /\ Answer("flow", stages', r)
      BY <1>13 DEF Rollback, RollbackOutcomes
    <2>2. stages' \in SUBSET Stages
      BY <2>1 DEF RollbackStages, Stages
    <2> QED
      BY <1>13, <2>1, <2>2, AnswerTyped DEF Rollback
  <1>14. CASE Crash
    BY <1>14 DEF Crash
  <1>15. CASE PowerCycle
    BY <1>15 DEF PowerCycle
  <1>16. ASSUME NEW v \in BootIds \cup {None}, ForeignNext(v) PROVE DataOK'
    BY <1>16 DEF ForeignNext
  <1>17. ASSUME NEW b \in BootIds, NEW x \in OptionValues, ForeignOption(b, x)
         PROVE DataOK'
    BY <1>17 DEF ForeignOption
  <1>18. CASE UNCHANGED vars
    BY <1>18 DEF vars
  <1> QED
    BY <1>1, <1>2, <1>3, <1>4, <1>5, <1>6, <1>7, <1>8, <1>9, <1>10, <1>11,
       <1>12, <1>13, <1>14, <1>15, <1>16, <1>17, <1>18 DEF Next, Execute

-----------------------------------------------------------------------------

\* The inductive invariant holds initially.
LEMMA InvInit == Init => IInv
  <1> SUFFICES ASSUME Init PROVE IInv
    OBVIOUS
  <1>1. TypeOK
    BY TypingInit
  <1> QED
    BY <1>1 DEF Init, IInv, LoadInv, TargetInv, NextInv, NextIsKnown, ResidualIsReported,
                SwitchPCs

\* Every step preserves the inductive invariant.
LEMMA InvStep == IInv /\ [Next]_vars => IInv'
  <1> SUFFICES ASSUME IInv, [Next]_vars PROVE IInv'
    OBVIOUS
  <1>0. TypeOK /\ TypeOK'
    BY FlagsStep, DataStep DEF IInv, TypeOK, TargetInv
  <1> SUFFICES (LoadInv /\ TargetInv /\ NextInv /\ NextIsKnown /\ ResidualIsReported)'
    BY <1>0 DEF IInv
  <1>h. host' = host /\ ExpectedTarget' = ExpectedTarget
    BY DEF Next, vars, ExpectedTarget
  <1> USE <1>0, <1>h DEF IInv, LoadInv, TargetInv, NextInv, NextIsKnown,
                   ResidualIsReported, SwitchPCs, firmware, locals, history, bounds
  <1> DEFINE Inv == LoadInv /\ TargetInv /\ NextInv /\ NextIsKnown /\ ResidualIsReported
  <1>1. ASSUME NEW r \in Requests, Start(r) PROVE Inv'
    BY <1>1 DEF Start
  <1>2. CASE LoadRecord
    BY <1>2 DEF LoadRecord, PlainError, Answer, Goto, TypeOK, DataOK
  <1>3. CASE CheckEnvironment
    BY <1>3 DEF CheckEnvironment, PlainError, Answer, Goto
  <1>4. CASE ReadOptions
    BY <1>4 DEF ReadOptions, Admissible, Matches, PlainError, Answer, Goto, TypeOK, DataOK
  <1>5. CASE SaveRecord
    BY <1>5 DEF SaveRecord, Failure, Answer
  <1>6. CASE ReadOriginal
    BY <1>6, ReadNextSound DEF ReadOriginal, Failure, Answer, Goto, Records
  <1>7. CASE Recheck
    BY <1>7, ReadNextSound DEF Recheck, Failure, Answer, Goto, Records
  <1>8. CASE CreateNext
    BY <1>8 DEF CreateNext, Failure, Answer, Goto
  <1>9. CASE WriteNext
    BY <1>9 DEF WriteNext, Failure, Answer, Goto, Records
  <1>10. CASE Readback
    BY <1>10, ReadNextSound DEF Readback, Failure, Answer, Goto, Records
  <1>11. CASE Reboot
    BY <1>11 DEF Reboot, Answer, Goto
  <1>12. CASE Observe
    BY <1>12, ReadNextSound DEF Observe, Answer, Goto, Records
  <1>13. CASE Rollback
    BY <1>13 DEF Rollback, RollbackOutcomes, RollbackStages, Answer, Records
  <1>14. CASE Crash
    BY <1>14 DEF Crash
  <1>15. CASE PowerCycle
    BY <1>15 DEF PowerCycle
  <1>16. ASSUME NEW v \in BootIds \cup {None}, ForeignNext(v) PROVE Inv'
    BY <1>16 DEF ForeignNext
  <1>17. ASSUME NEW b \in BootIds, NEW x \in OptionValues, ForeignOption(b, x)
         PROVE Inv'
    BY <1>17 DEF ForeignOption
  <1>18. CASE UNCHANGED vars
    BY <1>18 DEF vars
  <1> QED
    BY <1>1, <1>2, <1>3, <1>4, <1>5, <1>6, <1>7, <1>8, <1>9, <1>10, <1>11,
       <1>12, <1>13, <1>14, <1>15, <1>16, <1>17, <1>18 DEF Next, Execute

-----------------------------------------------------------------------------

\* The inductive invariant holds in every reachable state.
THEOREM Invariance == Spec => []IInv
  BY InvInit, InvStep, PTL DEF Spec

\* The type invariant of the flow and of the state it works on.
THEOREM TypeCorrect == Spec => []TypeOK
  <1>1. IInv => TypeOK
    BY DEF IInv
  <1> QED
    BY <1>1, Invariance, PTL

\* Until another tool writes BootNext again it is what the step that follows a
\* read takes it for, and never an object that a crash left empty; and execute
\* asks for a reboot only with the record as it was loaded, and with BootNext and
\* the live option agreeing with it unless another tool wrote them after the
\* readback, or after the options were read (flow.rs: the calls of read_next).
THEOREM EvidenceKept == Spec => []EvidenceHolds
  <1>1. IInv => NextIsKnown
    BY DEF IInv
  <1>2. IInv => RebootIsVerified
    BY DEF IInv, RebootIsVerified, LoadInv, TargetInv, NextInv, SwitchPCs
  <1>3. IInv => EvidenceHolds
    BY <1>1, <1>2 DEF EvidenceHolds
  <1> QED
    BY <1>3, Invariance, PTL

\* Whatever execute leaves in BootNext, its answer says so.
THEOREM ReportedResidual == Spec => []ResidualIsReported
  <1>1. IInv => ResidualIsReported
    BY DEF IInv
  <1> QED
    BY <1>1, Invariance, PTL

\* execute never replaces a BootNext value of another tool, save one that
\* appeared inside the write itself.
THEOREM ForeignNextKept == Spec => ForeignNextSurvives
  <1>1. IInv /\ [Next]_vars =>
          [Execute /\ bootNext' # bootNext => bootNext = None \/ mine \/ raced]_vars
    <2> SUFFICES ASSUME IInv, Execute, bootNext' # bootNext
                 PROVE  bootNext = None \/ mine \/ raced
      OBVIOUS
    <2>1. CASE CreateNext
      BY <2>1 DEF CreateNext
    <2>2. CASE WriteNext
      BY <2>2 DEF WriteNext, IInv, NextInv
    <2>3. CASE Rollback
      BY <2>3 DEF Rollback
    <2> QED
      BY <2>1, <2>2, <2>3 DEF Execute, LoadRecord, CheckEnvironment, ReadOptions,
         SaveRecord, ReadOriginal, Recheck, Readback, Reboot, Observe, firmware
  <1> QED
    BY <1>1, Invariance, PTL DEF Spec, ForeignNextSurvives

\* A BootNext write and an accepted reboot both come after the recorded
\* identity was found in the live option.
THEOREM IdentityFirst == Spec => MutationNeedsIdentity
  <1> DEFINE A == Execute /\ (bootNext' # bootNext \/ "RebootAccepted" \in stages') =>
                    /\ req.op = "Switch" /\ req.os = ExpectedTarget
                    /\ inv[rec.id] = rec.ident
                    /\ bootNext' # bootNext => original = None
  <1>1. IInv /\ [Next]_vars => [A]_vars
    <2> SUFFICES ASSUME IInv, Execute,
                        bootNext' # bootNext \/ "RebootAccepted" \in stages'
                 PROVE  /\ req.op = "Switch" /\ req.os = ExpectedTarget
                        /\ inv[rec.id] = rec.ident
                        /\ bootNext' # bootNext => original = None
      OBVIOUS
    <2> USE DEF IInv, LoadInv, TargetInv, NextInv, SwitchPCs
    <2>1. CASE CreateNext
      BY <2>1 DEF CreateNext
    <2>2. CASE WriteNext
      BY <2>2 DEF WriteNext
    <2>3. CASE Rollback
      BY <2>3 DEF Rollback
    <2>4. CASE Reboot
      BY <2>4 DEF Reboot, firmware
    <2>5. CASE LoadRecord \/ CheckEnvironment \/ ReadOptions \/ SaveRecord
      BY <2>5 DEF LoadRecord, CheckEnvironment, ReadOptions, SaveRecord,
         PlainError, Failure, firmware
    <2>6. CASE ReadOriginal \/ Recheck \/ Readback \/ Observe
      BY <2>6 DEF ReadOriginal, Recheck, Readback, Observe, Failure, firmware
    <2> QED
      BY <2>1, <2>2, <2>3, <2>4, <2>5, <2>6 DEF Execute
  <1> QED
    BY <1>1, Invariance, PTL DEF Spec, MutationNeedsIdentity

\* The record is replaced only by Configure, never over an unreadable one, by
\* the identity the live option had when it was enumerated.
THEOREM ConfigureStoresLiveOption == Spec => RecordIsLiveOption
  <1> DEFINE Stored == /\ record'.id = req.id /\ record'.os = ExpectedTarget
                       /\ quiet => record'.ident = options[req.id]
             Wrecked == host = "Windows" /\ result'.kind # "ok"
             A == record' # record =>
                    /\ req.op = "Configure" /\ record # Corrupt
                    /\ IF record' \in {None, Corrupt} THEN Wrecked ELSE Stored
  <1>1. IInv /\ [Next]_vars => [A]_vars
    <2> SUFFICES ASSUME IInv, Next, record' # record
                 PROVE  /\ req.op = "Configure" /\ record # Corrupt
                        /\ IF record' \in {None, Corrupt} THEN Wrecked ELSE Stored
      BY DEF vars
    <2>1. SaveRecord
      BY DEF Next, Execute, Start, LoadRecord, CheckEnvironment, ReadOptions,
         ReadOriginal, Recheck, CreateNext, WriteNext, Readback, Reboot, Observe,
         Rollback, Crash, PowerCycle, ForeignNext, ForeignOption
    <2>2. \/ record' = [id |-> req.id, os |-> req.os, ident |-> inv[req.id]]
          \/ Wrecked /\ record' \in {None, Corrupt}
      <3>1. host \in OSes
        BY DEF IInv, TypeOK, DataOK
      <3> QED
        BY <2>1, <3>1 DEF SaveRecord, Wreckage, Failure, Answer, OSes
    <2>3. /\ req.op = "Configure" /\ req.os = ExpectedTarget /\ record = rec
          /\ quiet => inv = options
      BY <2>1 DEF SaveRecord, IInv, LoadInv, TargetInv
    <2>4. record # Corrupt
      BY <2>3 DEF IInv, TypeOK, DataOK
    <2>5. [id |-> req.id, os |-> req.os, ident |-> inv[req.id]] \in Records
      <3>1. req \in Requests /\ pc = "save"
        BY <2>1 DEF IInv, TypeOK, DataOK, SaveRecord
      <3>2. req.id \in BootIds /\ req.os \in OSes
        BY <2>3, <3>1 DEF Requests
      <3> QED
        BY <3>1, <3>2 DEF IInv, TargetInv, Records
    <2> QED
      BY <2>2, <2>3, <2>4, <2>5, RecordsAssumption
  <1> QED
    BY <1>1, Invariance, PTL DEF Spec, RecordIsLiveOption

\* After a reboot call that may have been obeyed, BootNext is left alone.
THEOREM RebootIsFinal == Spec => NoUndoAfterReboot
  <1> DEFINE A == Execute /\ bootNext' # bootNext =>
                    stages' \cap {"RebootAccepted", "RebootUnknown"} = {}
  <1>1. IInv /\ [Next]_vars => [A]_vars
    <2> SUFFICES ASSUME IInv, Execute, bootNext' # bootNext
                 PROVE  stages' \cap {"RebootAccepted", "RebootUnknown"} = {}
      OBVIOUS
    <2> USE DEF IInv, NextInv
    <2>1. CASE CreateNext
      BY <2>1 DEF CreateNext, Failure
    <2>2. CASE WriteNext
      BY <2>2 DEF WriteNext, Failure
    <2>3. CASE Rollback
      BY <2>3 DEF Rollback, RollbackStages
    <2> QED
      BY <2>1, <2>2, <2>3 DEF Execute, LoadRecord, CheckEnvironment, ReadOptions,
         SaveRecord, ReadOriginal, Recheck, Readback, Reboot, Observe, firmware
  <1> QED
    BY <1>1, Invariance, PTL DEF Spec, NoUndoAfterReboot

\* On a Windows host no execution ever writes BootNext.
THEOREM WindowsFailsClosed == Spec => WindowsNeverWrites
  <1>1. IInv /\ [Next]_vars =>
          [Execute /\ host = "Windows" => bootNext' = bootNext]_vars
    <2> SUFFICES ASSUME IInv, Execute, host = "Windows"
                 PROVE  bootNext' = bootNext
      OBVIOUS
    <2> USE DEF IInv, NextInv, SwitchPCs
    <2>1. ~CreateNext /\ ~WriteNext /\ ~Rollback
      BY DEF CreateNext, WriteNext, Rollback
    <2> QED
      BY <2>1 DEF Execute, LoadRecord, CheckEnvironment, ReadOptions,
         SaveRecord, ReadOriginal, Recheck, Readback, Reboot, Observe, firmware
  <1> QED
    BY <1>1, Invariance, PTL DEF Spec, WindowsNeverWrites

-----------------------------------------------------------------------------
(* RecordedIdentity. *)

(* The parsers are recursive functions on the offsets of a byte string, each *)
(* value of which depends on greater offsets. By Recursion such a function   *)
(* exists, so that each is what its body says; by BackwardInduction          *)
(* something holds of it at every offset if it holds at one whenever it      *)
(* holds at all greater ones.                                                *)

\* Induction: what is there at all is there for a least number.
LEMMA LeastElement ==
  ASSUME NEW T, T \subseteq Nat, T # {}
  PROVE  \E x \in T : \A y \in T : x <= y
  <1> DEFINE R == {ss \in Nat \X Nat : ss[1] < ss[2]}
  <1>1. OpToRel(<, Nat) = R
    BY Zenon DEF OpToRel
  <1>2. IsWellFoundedOn(R, Nat)
    BY <1>1, NatLessThanWellFounded, Zenon
  <1> HIDE DEF R
  <1>3. PICK x \in T : \A y \in T : ~(<<y, x>> \in R)
    BY <1>2, WFMin, Zenon
  <1>4. ASSUME NEW y \in T PROVE x <= y
    <2>1. ~(<<y, x>> \in R)
      BY <1>3
    <2> QED
      BY <2>1 DEF R
  <1> QED
    BY <1>4

\* Induction from the end of a byte string back to its beginning.
LEMMA LastElement ==
  ASSUME NEW n \in Nat, NEW T, T \subseteq 0 .. n, T # {}
  PROVE  \E x \in T : \A y \in T : y <= x
  <1> DEFINE U == {k \in Nat : n - k \in T}
  <1>1. PICK t \in T : TRUE
    OBVIOUS
  <1>2. n - t \in U
    OBVIOUS
  <1>3. PICK k \in U : \A j \in U : k <= j
    BY <1>2, LeastElement
  <1>4. ASSUME NEW y \in T PROVE y <= n - k
    <2>1. y \in 0 .. n /\ n - (n - y) = y
      OBVIOUS
    <2>2. n - y \in U
      BY <2>1
    <2>3. k <= n - y
      BY <2>2, <1>3
    <2> QED
      BY <2>1, <2>3
  <1> QED
    BY <1>3, <1>4

\* What holds at an offset if it holds at every greater one holds at all.
LEMMA BackwardInduction ==
  ASSUME NEW n \in Nat, NEW T,
         \A o \in 0 .. n : (\A k \in o + 1 .. n : k \in T) => o \in T
  PROVE  \A o \in 0 .. n : o \in T
  <1> SUFFICES ASSUME 0 .. n \ T # {} PROVE FALSE
    OBVIOUS
  <1>1. PICK o \in 0 .. n \ T : \A k \in 0 .. n \ T : k <= o
    BY LastElement
  <1>2. \A k \in o + 1 .. n : k \in T
    BY <1>1
  <1> QED
    BY <1>1, <1>2

\* A function on offsets may be defined by what it is at greater ones.
Recursive(n, V) ==
  \A F \in [0 .. n -> [[0 .. n -> V] -> V]] :
     (\A o \in 0 .. n : \A g, h \in [0 .. n -> V] :
         (\A k \in o + 1 .. n : g[k] = h[k]) => F[o][g] = F[o][h])
     => \E g \in [0 .. n -> V] : \A o \in 0 .. n : g[o] = F[o][g]

\* A function each of whose values depends on those at greater offsets only
\* exists. The proof extends one from the end, an offset at a time.
LEMMA Recursion ==
  ASSUME NEW n \in Nat, NEW V, NEW v \in V
  PROVE  Recursive(n, V)
  <1> SUFFICES ASSUME NEW F \in [0 .. n -> [[0 .. n -> V] -> V]],
                      \A o \in 0 .. n : \A g, h \in [0 .. n -> V] :
                         (\A k \in o + 1 .. n : g[k] = h[k]) => F[o][g] = F[o][h]
               PROVE  \E g \in [0 .. n -> V] : \A o \in 0 .. n : g[o] = F[o][g]
    BY DEF Recursive
  <1> DEFINE From(m) == \E g \in [0 .. n -> V] : \A o \in m .. n : g[o] = F[o][g]
             T == {m \in 0 .. n + 1 : From(m)}
  <1>1. n + 1 \in T
    <2>1. [o \in 0 .. n |-> v] \in [0 .. n -> V]
      OBVIOUS
    <2>2. n + 1 .. n = {}
      OBVIOUS
    <2>3. From(n + 1)
      BY <2>1, <2>2
    <2> HIDE DEF From
    <2> QED
      BY <2>3
  <1>2. PICK m \in T : \A k \in T : m <= k
    <2>1. T \subseteq Nat
      OBVIOUS
    <2> HIDE DEF T
    <2> QED
      BY <1>1, <2>1, LeastElement
  <1>3. PICK g \in [0 .. n -> V] : \A o \in m .. n : g[o] = F[o][g]
    BY <1>2
  <1>4. CASE m # 0
    <2>m. m - 1 \in 0 .. n /\ m \in 1 .. n + 1
      BY <1>4
    <2> DEFINE h == [g EXCEPT ![m - 1] = F[m - 1][g]]
    <2>1. F[m - 1][g] \in V
      BY <2>m
    <2>2. h \in [0 .. n -> V] /\ h[m - 1] = F[m - 1][g] /\ \A o \in 0 .. n \ {m - 1} : h[o] = g[o]
      BY <2>1, <2>m
    <2> HIDE DEF h
    <2>3. ASSUME NEW o \in m - 1 .. n PROVE h[o] = F[o][h]
      <3>1. o \in 0 .. n /\ \A k \in o + 1 .. n : h[k] = g[k]
        BY <2>2, <2>m
      <3>2. F[o][h] = F[o][g]
        BY <3>1, <2>2
      <3>3. CASE o = m - 1
        BY <3>3, <3>2, <2>2
      <3>4. CASE o # m - 1
        <4>1. o \in m .. n
          BY <3>4, <2>m
        <4> QED
          BY <4>1, <3>1, <3>2, <3>4, <2>2, <1>3
      <3> QED
        BY <3>3, <3>4
    <2>4. From(m - 1)
      BY <2>2, <2>3
    <2>5. m - 1 \in T
      BY <2>4, <2>m
    <2>6. m <= m - 1
      <3> HIDE DEF T
      <3> QED
        BY <2>5, <1>2
    <2> QED
      BY <2>6, <2>m
  <1> QED
    BY <1>3, <1>4

\* A slice of a byte string.
LEMMA Slice ==
  ASSUME NEW s \in Seq(Byte), NEW m \in Int, NEW n \in Int, 1 <= m, n <= Len(s)
  PROVE  /\ SubSeq(s, m, n) \in Seq(Byte)
         /\ Len(SubSeq(s, m, n)) = IF m <= n THEN n - m + 1 ELSE 0
         /\ \A i \in 1 .. n - m + 1 : SubSeq(s, m, n)[i] = s[m + i - 1]
  <1>1. \A i \in m .. n : s[i] \in Byte
    BY ElementOfSeq
  <1> QED
    BY <1>1, SubSeqProperties

\* A slice of a number of bytes.
LEMMA SliceOf ==
  ASSUME NEW s \in Seq(Byte), NEW m \in Nat, NEW c \in Nat, m + c <= Len(s)
  PROVE  /\ SubSeq(s, m + 1, m + c) \in Seq(Byte) /\ Len(SubSeq(s, m + 1, m + c)) = c
         /\ \A i \in 1 .. c : SubSeq(s, m + 1, m + c)[i] = s[m + i]
  <1> DEFINE u == SubSeq(s, m + 1, m + c)
             a == m + 1
             b == m + c
  <1>1. a \in Int /\ b \in Int /\ 1 <= a /\ b <= Len(s)
    OBVIOUS
  <1>2. /\ u \in Seq(Byte) /\ Len(u) = IF a <= b THEN b - a + 1 ELSE 0
        /\ \A i \in 1 .. b - a + 1 : u[i] = s[a + i - 1]
    BY <1>1, Slice
  <1> HIDE DEF u
  <1>3. Len(u) = c
    BY <1>2
  <1>4. ASSUME NEW i \in 1 .. c PROVE u[i] = s[m + i]
    <2>1. i \in 1 .. b - a + 1 /\ a + i - 1 = m + i
      OBVIOUS
    <2> HIDE DEF a, b
    <2> QED
      BY <1>2, <2>1, Zenon
  <1> QED
    BY <1>2, <1>3, <1>4 DEF u

\* A number of two bytes, and the bytes of such a number.
LEMMA WordRange ==
  ASSUME NEW pair \in Seq(Byte), Len(pair) = 2
  PROVE  Word(pair) \in Nat /\ Word(pair) <= 65535
  <1>1. pair \in [1 .. Len(pair) -> Byte]
    BY LenProperties, Zenon
  <1>2. pair[1] \in Byte /\ pair[2] \in Byte
    BY <1>1
  <1>3. pair[1] \in 0 .. 255 /\ pair[2] \in 0 .. 255
    BY <1>2 DEF Byte
  <1>4. PICK a \in 0 .. 255, b \in 0 .. 255 : a = pair[1] /\ b = pair[2]
    BY <1>3
  <1>5. Word(pair) = a + 256 * b
    BY <1>4 DEF Word
  <1> QED
    BY <1>5

\* A slice of a slice is a slice.
LEMMA SliceOfSlice ==
  ASSUME NEW s \in Seq(Byte), NEW m \in Int, NEW n \in Int, 1 <= m, n <= Len(s),
         NEW p \in Int, NEW q \in Int, 1 <= p, m + q - 1 <= n
  PROVE  SubSeq(SubSeq(s, m, n), p, q) = SubSeq(s, m + p - 1, m + q - 1)
  <1> DEFINE t == SubSeq(s, m, n)
             u == SubSeq(t, p, q)
             v == SubSeq(s, m + p - 1, m + q - 1)
  <1>0. Len(s) \in Nat
    BY LenProperties
  <1>1. CASE q < p
    BY <1>1, SubSeqEmpty
  <1>2. CASE p <= q
    <2>1. /\ t \in Seq(Byte) /\ Len(t) = n - m + 1
          /\ \A i \in 1 .. n - m + 1 : t[i] = s[m + i - 1]
      BY <1>0, <1>2, Slice
    <2>2. /\ v \in Seq(Byte) /\ Len(v) = q - p + 1
          /\ \A i \in 1 .. q - p + 1 : v[i] = s[m + p - 1 + i - 1]
      BY <1>0, <1>2, Slice
    <2> HIDE DEF t, v
    <2>3. q <= Len(t)
      BY <1>0, <2>1
    <2>4. /\ u \in Seq(Byte) /\ Len(u) = IF p <= q THEN q - p + 1 ELSE 0
          /\ \A i \in 1 .. q - p + 1 : u[i] = t[p + i - 1]
      BY <2>1, <2>3, Slice
    <2> HIDE DEF u
    <2>5. /\ u \in Seq(Byte) /\ Len(u) = q - p + 1
          /\ \A i \in 1 .. q - p + 1 : u[i] = t[p + i - 1]
      BY <1>2, <2>4
    <2>6. \A i \in 1 .. Len(u) : u[i] = v[i]
      BY <1>2, <2>1, <2>2, <2>5
    <2>7. u = v
      BY <2>2, <2>5, <2>6, SeqEqual
    <2> QED
      BY <2>7 DEF u, v, t
  <1> QED
    BY <1>1, <1>2

\* Two slices of one length.
LEMMA SameSlices ==
  ASSUME NEW s \in Seq(Byte), NEW t \in Seq(Byte), NEW m \in Nat, NEW k \in Nat, NEW c \in Nat,
         m + c <= Len(s), k + c <= Len(t)
  PROVE  SubSeq(s, m + 1, m + c) = SubSeq(t, k + 1, k + c)
            <=> \A i \in 1 .. c : s[m + i] = t[k + i]
  <1> DEFINE u == SubSeq(s, m + 1, m + c)
             v == SubSeq(t, k + 1, k + c)
  <1>1. u \in Seq(Byte) /\ Len(u) = c /\ \A i \in 1 .. c : u[i] = s[m + i]
    BY Slice
  <1>2. v \in Seq(Byte) /\ Len(v) = c /\ \A i \in 1 .. c : v[i] = t[k + i]
    BY Slice
  <1> HIDE DEF u, v
  <1>3. u = v <=> \A i \in 1 .. c : u[i] = v[i]
    BY <1>1, <1>2, SeqEqual
  <1>4. u = v <=> \A i \in 1 .. c : s[m + i] = t[k + i]
    BY <1>1, <1>2, <1>3
  <1> QED
    BY <1>4 DEF u, v

\* Four bytes, and six.
LEMMA FourBytes ==
  ASSUME NEW s \in Seq(Byte), NEW m \in Nat, m + 4 <= Len(s),
         NEW a \in Byte, NEW b \in Byte, NEW c \in Byte, NEW d \in Byte
  PROVE  SubSeq(s, m + 1, m + 4) = <<a, b, c, d>>
            <=> s[m + 1] = a /\ s[m + 2] = b /\ s[m + 3] = c /\ s[m + 4] = d
  <1> DEFINE u == SubSeq(s, m + 1, m + 4)
             v == <<a, b, c, d>>
  <1>1. u \in Seq(Byte) /\ Len(u) = 4 /\ \A i \in 1 .. 4 : u[i] = s[m + i]
    BY SliceOf
  <1>2. v \in Seq(Byte) /\ Len(v) = 4 /\ v[1] = a /\ v[2] = b /\ v[3] = c /\ v[4] = d
    OBVIOUS
  <1> HIDE DEF u, v
  <1>3. u[1] = s[m + 1] /\ u[2] = s[m + 2] /\ u[3] = s[m + 3] /\ u[4] = s[m + 4]
    BY <1>1
  <1>4. u = v <=> u[1] = v[1] /\ u[2] = v[2] /\ u[3] = v[3] /\ u[4] = v[4]
    <2>1. \A i \in 1 .. 4 : i = 1 \/ i = 2 \/ i = 3 \/ i = 4
      OBVIOUS
    <2> QED
      BY <1>1, <1>2, <2>1, SeqEqual
  <1>5. u = v <=> s[m + 1] = a /\ s[m + 2] = b /\ s[m + 3] = c /\ s[m + 4] = d
    BY <1>2, <1>3, <1>4
  <1> QED
    BY <1>5 DEF u, v

\* A slice of six bytes, one by one.
LEMMA SixBytes ==
  ASSUME NEW s \in Seq(Byte), NEW m \in Nat, m + 6 <= Len(s),
         NEW a \in Byte, NEW b \in Byte, NEW c \in Byte,
         NEW d \in Byte, NEW e \in Byte, NEW f \in Byte
  PROVE  SubSeq(s, m + 1, m + 6) = <<a, b, c, d, e, f>>
            <=> /\ s[m + 1] = a /\ s[m + 2] = b /\ s[m + 3] = c
                /\ s[m + 4] = d /\ s[m + 5] = e /\ s[m + 6] = f
  <1> DEFINE u == SubSeq(s, m + 1, m + 6)
             v == <<a, b, c, d, e, f>>
  <1>1. u \in Seq(Byte) /\ Len(u) = 6 /\ \A i \in 1 .. 6 : u[i] = s[m + i]
    <2> DEFINE k == 6
    <2>1. k \in Nat /\ m + k <= Len(s)
      OBVIOUS
    <2> HIDE DEF k
    <2>2. /\ SubSeq(s, m + 1, m + k) \in Seq(Byte) /\ Len(SubSeq(s, m + 1, m + k)) = k
          /\ \A i \in 1 .. k : SubSeq(s, m + 1, m + k)[i] = s[m + i]
      BY <2>1, SliceOf
    <2> QED
      BY <2>2 DEF k
  <1>2. /\ v \in Seq(Byte) /\ Len(v) = 6 /\ v[1] = a /\ v[2] = b /\ v[3] = c
        /\ v[4] = d /\ v[5] = e /\ v[6] = f
    OBVIOUS
  <1> HIDE DEF u, v
  <1>3. /\ u[1] = s[m + 1] /\ u[2] = s[m + 2] /\ u[3] = s[m + 3]
        /\ u[4] = s[m + 4] /\ u[5] = s[m + 5] /\ u[6] = s[m + 6]
    BY <1>1
  <1>4. u = v <=> /\ u[1] = v[1] /\ u[2] = v[2] /\ u[3] = v[3]
                  /\ u[4] = v[4] /\ u[5] = v[5] /\ u[6] = v[6]
    <2>1. \A i \in 1 .. 6 : i = 1 \/ i = 2 \/ i = 3 \/ i = 4 \/ i = 5 \/ i = 6
      OBVIOUS
    <2> QED
      BY <1>1, <1>2, <2>1, SeqEqual
  <1>5. u = v <=> /\ s[m + 1] = a /\ s[m + 2] = b /\ s[m + 3] = c
                  /\ s[m + 4] = d /\ s[m + 5] = e /\ s[m + 6] = f
    BY <1>2, <1>3, <1>4
  <1> QED
    BY <1>5 DEF u, v

\* The byte at a place, and the number at two.
LEMMA ByteAt ==
  ASSUME NEW s \in Seq(Byte), NEW i \in 1 .. Len(s)
  PROVE  s[i] \in 0 .. 255
  BY ElementOfSeq DEF Byte

\* A number of two bytes of a byte string.
LEMMA WordAt ==
  ASSUME NEW s \in Seq(Byte), NEW i \in 1 .. Len(s), NEW j \in 1 .. Len(s)
  PROVE  /\ Word(<<s[i], s[j]>>) = s[i] + 256 * s[j]
         /\ Word(<<s[i], s[j]>>) \in Nat
  <1>1. s[i] \in 0 .. 255 /\ s[j] \in 0 .. 255
    BY ByteAt
  <1>2. \A a, b \in 0 .. 255 : Word(<<a, b>>) = a + 256 * b /\ a + 256 * b \in Nat
    BY DEF Word
  <1>3. \A b \in 0 .. 255 : Word(<<s[i], b>>) = s[i] + 256 * b /\ s[i] + 256 * b \in Nat
    BY <1>1, <1>2, Zenon
  <1>4. Word(<<s[i], s[j]>>) = s[i] + 256 * s[j] /\ s[i] + 256 * s[j] \in Nat
    BY <1>1, <1>3, Zenon
  <1> QED
    BY <1>4, Zenon

\* The number two adjacent bytes hold.
LEMMA WordOfSlice ==
  ASSUME NEW s \in Seq(Byte), NEW m \in Nat, m + 2 <= Len(s)
  PROVE  Word(SubSeq(s, m + 1, m + 2)) = s[m + 1] + 256 * s[m + 2]
  <1> DEFINE p == SubSeq(s, m + 1, m + 2)
  <1>1. \A i \in 1 .. m + 2 - (m + 1) + 1 : p[i] = s[m + 1 + i - 1]
    BY Slice
  <1> HIDE DEF p
  <1>2. p[1] = s[m + 1] /\ p[2] = s[m + 2]
    BY <1>1
  <1>3. Word(p) = s[m + 1] + 256 * s[m + 2]
    BY <1>2, Zenon DEF Word
  <1> QED
    BY <1>3 DEF p

\* Two bytes hold each number in one way.
LEMMA SameWord ==
  ASSUME NEW a \in 0 .. 255, NEW b \in 0 .. 255, NEW c \in 0 .. 255, NEW d \in 0 .. 255,
         a + 256 * b = c + 256 * d
  PROVE  a = c /\ b = d
  OBVIOUS

\* UTF-16 units, two bytes each.
LEMMA UnitsAre ==
  ASSUME NEW s \in Seq(Byte)
  PROVE  /\ Units(s) \in Seq(Nat) /\ Len(Units(s)) = Len(s) \div 2
         /\ \A i \in 1 .. Len(s) \div 2 : Units(s)[i] = s[2 * i - 1] + 256 * s[2 * i]
  <1>0. Len(s) \in Nat /\ Len(s) \div 2 \in Nat
    BY LenProperties
  <1>1. ASSUME NEW i \in 1 .. Len(s) \div 2
        PROVE  /\ Word(<<s[2 * i - 1], s[2 * i]>>) = s[2 * i - 1] + 256 * s[2 * i]
               /\ Word(<<s[2 * i - 1], s[2 * i]>>) \in Nat
    <2>1. 2 * i - 1 \in 1 .. Len(s) /\ 2 * i \in 1 .. Len(s)
      BY <1>0
    <2> QED
      BY <2>1, WordAt
  <1>2. Units(s) = [i \in 1 .. Len(s) \div 2 |-> Word(<<s[2 * i - 1], s[2 * i]>>)]
    BY DEF Units
  <1> DEFINE k == Len(s) \div 2
             W == [i \in 1 .. Len(s) \div 2 |-> Word(<<s[2 * i - 1], s[2 * i]>>)]
  <1>3. W \in [1 .. k -> Nat]
    BY <1>1
  <1>4. \A i \in 1 .. k : W[i] = s[2 * i - 1] + 256 * s[2 * i]
    BY <1>1
  <1>5. k \in Nat
    BY <1>0
  <1>6. Units(s) = W
    BY <1>2
  <1> HIDE DEF W, k
  <1>7. W \in Seq(Nat) /\ Len(W) = k
    BY <1>3, <1>5
  <1>8. /\ Units(s) \in Seq(Nat) /\ Len(Units(s)) = k
        /\ \A i \in 1 .. k : Units(s)[i] = s[2 * i - 1] + 256 * s[2 * i]
    BY <1>4, <1>6, <1>7
  <1> QED
    BY <1>8 DEF k

-----------------------------------------------------------------------------
(* load_option.rs: the description. *)

DescriptionStep(bytes, g, offset) ==
  Then(Get(bytes, offset, 2),
       LAMBDA pair : IF Word(pair) = 0 THEN << [units |-> <<>>, end |-> offset + 2] >>
                     ELSE Then(g[offset + 2],
                               LAMBDA rest : << [units |-> <<Word(pair)>> \o rest.units,
                                                 end |-> rest.end] >>))
Descriptions(bytes) ==
  CHOOSE g : g = [offset \in 0 .. Len(bytes) |-> DescriptionStep(bytes, g, offset)]

\* ReadDescription is the function on offsets, at the first of them.
LEMMA DescriptionRead ==
  ASSUME NEW bytes
  PROVE  ReadDescription(bytes) = Descriptions(bytes)[6]
  BY Zenon DEF ReadDescription, Descriptions, DescriptionStep

\* A step looks at greater offsets only.
LEMMA DescriptionLocal ==
  ASSUME NEW bytes \in Seq(Byte), NEW g, NEW h, NEW offset \in 0 .. Len(bytes),
         \A k \in offset + 1 .. Len(bytes) : g[k] = h[k]
  PROVE  DescriptionStep(bytes, g, offset) = DescriptionStep(bytes, h, offset)
  <1>1. CASE offset + 2 <= Len(bytes)
    <2>1. g[offset + 2] = h[offset + 2]
      BY <1>1
    <2> QED
      BY <2>1 DEF DescriptionStep, Then
  <1>2. CASE ~(offset + 2 <= Len(bytes))
    BY <1>2 DEF DescriptionStep, Then, Get, When
  <1> QED
    BY <1>1, <1>2

DescriptionResults == {<<>>} \union {<<d>> : d \in [units : Seq(Nat), end : Nat]}

\* What a step gives, from results at greater offsets.
LEMMA DescriptionTyped ==
  ASSUME NEW bytes \in Seq(Byte), NEW g, NEW offset \in 0 .. Len(bytes),
         \A k \in offset + 1 .. Len(bytes) : g[k] \in DescriptionResults
  PROVE  DescriptionStep(bytes, g, offset) \in DescriptionResults
  <1> DEFINE pair == SubSeq(bytes, offset + 1, offset + 2)
             rest == g[offset + 2][1]
  <1>1. CASE offset + 2 <= Len(bytes)
    <2>1. pair \in Seq(Byte) /\ Len(pair) = 2
      BY <1>1, Slice
    <2>2. Word(pair) \in Nat
      <3> HIDE DEF pair
      <3> QED
        BY <2>1, WordRange
    <2>3. g[offset + 2] \in DescriptionResults
      BY <1>1
    <2>4. ASSUME g[offset + 2] # <<>>
          PROVE  << [units |-> <<Word(pair)>> \o rest.units, end |-> rest.end] >> \in DescriptionResults
      <3>1. rest \in [units : Seq(Nat), end : Nat]
        BY <2>3, <2>4 DEF DescriptionResults
      <3> HIDE DEF rest, pair
      <3> DEFINE d == [units |-> <<Word(pair)>> \o rest.units, end |-> rest.end]
      <3>2. <<Word(pair)>> \o rest.units \in Seq(Nat)
        BY <3>1, <2>2
      <3>3. d \in [units : Seq(Nat), end : Nat]
        BY <3>1, <3>2
      <3> HIDE DEF d
      <3>4. <<d>> \in DescriptionResults
        BY <3>3 DEF DescriptionResults
      <3> QED
        BY <3>4 DEF d
    <2>5. << [units |-> <<>>, end |-> offset + 2] >> \in DescriptionResults
      <3> DEFINE d == [units |-> <<>>, end |-> offset + 2]
      <3>3. d \in [units : Seq(Nat), end : Nat]
        OBVIOUS
      <3> HIDE DEF d
      <3>4. <<d>> \in DescriptionResults
        BY <3>3 DEF DescriptionResults
      <3> QED
        BY <3>4 DEF d
    <2>6. DescriptionStep(bytes, g, offset) =
            IF Word(pair) = 0 THEN << [units |-> <<>>, end |-> offset + 2] >>
            ELSE IF g[offset + 2] = <<>> THEN <<>>
            ELSE << [units |-> <<Word(pair)>> \o rest.units, end |-> rest.end] >>
      BY <1>1 DEF DescriptionStep, Then, Get, When
    <2> HIDE DEF rest, pair
    <2> QED
      BY <2>4, <2>5, <2>6 DEF DescriptionResults
  <1>2. CASE ~(offset + 2 <= Len(bytes))
    BY <1>2 DEF DescriptionStep, Then, Get, When, DescriptionResults
  <1> QED
    BY <1>1, <1>2

\* The recursion has a solution: ReadDescription is what its body says.
LEMMA DescriptionUnrolls ==
  ASSUME NEW bytes \in Seq(Byte)
  PROVE  Descriptions(bytes) = [offset \in 0 .. Len(bytes) |->
                                  DescriptionStep(bytes, Descriptions(bytes), offset)]
  <1> DEFINE n == Len(bytes)
             V == DescriptionResults
             F == [o \in 0 .. n |-> [g \in [0 .. n -> V] |-> DescriptionStep(bytes, g, o)]]
  <1>1. n \in Nat /\ <<>> \in V
    BY DEF DescriptionResults
  <1>2. ASSUME NEW o \in 0 .. n, NEW g \in [0 .. n -> V] PROVE DescriptionStep(bytes, g, o) \in V
    BY DescriptionTyped
  <1>3. ASSUME NEW o \in 0 .. n, NEW g, NEW h, \A k \in o + 1 .. n : g[k] = h[k]
        PROVE  DescriptionStep(bytes, g, o) = DescriptionStep(bytes, h, o)
    BY <1>3, DescriptionLocal
  <1> HIDE DEF n, V
  <1>4. F \in [0 .. n -> [[0 .. n -> V] -> V]]
    BY <1>2
  <1>5. \A o \in 0 .. n : \A g, h \in [0 .. n -> V] :
            (\A k \in o + 1 .. n : g[k] = h[k]) => F[o][g] = F[o][h]
    BY <1>3
  <1> HIDE DEF F
  <1>6. \E g \in [0 .. n -> V] : \A o \in 0 .. n : g[o] = F[o][g]
    <2>2. Recursive(n, V)
      BY <1>1, Recursion
    <2> QED
      BY <1>4, <1>5, <2>2, Zenon DEF Recursive
  <1>7. PICK g \in [0 .. n -> V] : \A o \in 0 .. n : g[o] = F[o][g]
    BY <1>6
  <1>8. g = [o \in 0 .. n |-> DescriptionStep(bytes, g, o)]
    BY <1>7 DEF F
  <1> QED
    BY <1>8, Zenon DEF n, Descriptions

\* The zeros that may end the description that starts at an offset.
DescriptionZeros(bytes, o) ==
  {k \in o + 2 .. Len(bytes) : (k - o) % 2 = 0 /\ bytes[k - 1] = 0 /\ bytes[k] = 0}

EndsDescription(bytes, o, k) ==
  k \in DescriptionZeros(bytes, o) /\ \A j \in DescriptionZeros(bytes, o) : k <= j

DescriptionTo(bytes, o, k) == [units |-> Units(SubSeq(bytes, o + 1, k - 2)), end |-> k]

\* The units of a slice are its first and those of what follows it.
LEMMA UnitsFirst ==
  ASSUME NEW bytes \in Seq(Byte), NEW o \in Nat, NEW k \in Nat, o + 2 <= k, k <= Len(bytes)
  PROVE  Units(SubSeq(bytes, o + 1, k)) =
           <<Word(<<bytes[o + 1], bytes[o + 2]>>)>> \o Units(SubSeq(bytes, o + 3, k))
  <1> DEFINE s == SubSeq(bytes, o + 1, k)
             t == SubSeq(bytes, o + 3, k)
             w == Word(<<bytes[o + 1], bytes[o + 2]>>)
             u == Units(s)
             v == Units(t)
             c == k - o
  <1>0. Len(bytes) \in Nat /\ c \in Nat /\ c >= 2
    BY LenProperties
  <1>1. s \in Seq(Byte) /\ Len(s) = c /\ \A i \in 1 .. c : s[i] = bytes[o + i]
    BY <1>0, Slice
  <1>2. t \in Seq(Byte) /\ Len(t) = c - 2 /\ \A i \in 1 .. c - 2 : t[i] = bytes[o + 2 + i]
    BY <1>0, Slice
  <1>3. w = bytes[o + 1] + 256 * bytes[o + 2] /\ w \in Nat
    BY <1>0, WordAt
  <1> DEFINE d == c \div 2
  <1>d. d \in Nat /\ d >= 1 /\ 2 * d <= c /\ (c - 2) \div 2 = d - 1
    BY <1>0
  <1>c. c \in Nat
    BY <1>0
  <1> HIDE DEF s, t, w, c
  <1>u. /\ u \in Seq(Nat) /\ Len(u) = Len(s) \div 2
        /\ \A i \in 1 .. Len(s) \div 2 : u[i] = s[2 * i - 1] + 256 * s[2 * i]
    BY <1>1, UnitsAre, ZenonT(40)
  <1>4. /\ u \in Seq(Nat) /\ Len(u) = d
        /\ \A i \in 1 .. d : u[i] = s[2 * i - 1] + 256 * s[2 * i]
    BY <1>1, <1>u
  <1>v. /\ v \in Seq(Nat) /\ Len(v) = Len(t) \div 2
        /\ \A i \in 1 .. Len(t) \div 2 : v[i] = t[2 * i - 1] + 256 * t[2 * i]
    BY <1>2, UnitsAre
  <1> HIDE DEF u, v, d
  <1>5. /\ v \in Seq(Nat) /\ Len(v) = d - 1
        /\ \A i \in 1 .. d - 1 : v[i] = t[2 * i - 1] + 256 * t[2 * i]
    BY <1>2, <1>v, <1>d
  <1> DEFINE x == <<w>> \o v
  <1>8. x \in Seq(Nat) /\ Len(x) = d /\ \A i \in 1 .. d : x[i] = IF i = 1 THEN w ELSE v[i - 1]
    <2> DEFINE y == <<w>>
    <2>1. y \in Seq(Nat) /\ Len(y) = 1 /\ y[1] = w
      BY <1>3
    <2> HIDE DEF y
    <2>2. /\ y \o v \in Seq(Nat) /\ Len(y \o v) = Len(y) + Len(v)
          /\ \A i \in 1 .. Len(y) + Len(v) : (y \o v)[i] = IF i <= Len(y) THEN y[i] ELSE v[i - Len(y)]
      <3>1. y \in Seq(Nat) /\ v \in Seq(Nat)
        BY <2>1, <1>5
      <3> QED
        BY <3>1, ConcatProperties
    <2> DEFINE z == y \o v
    <2> HIDE DEF z
    <2>5. /\ z \in Seq(Nat) /\ Len(z) = d
          /\ \A i \in 1 .. d : z[i] = IF i <= 1 THEN y[i] ELSE v[i - 1]
      <3> DEFINE l == Len(y)
                 m == Len(v)
      <3>1. /\ y \o v \in Seq(Nat) /\ Len(y \o v) = l + m
            /\ \A i \in 1 .. l + m : (y \o v)[i] = IF i <= l THEN y[i] ELSE v[i - l]
        BY <2>2
      <3>2. l = 1 /\ m = d - 1
        BY <2>1, <1>5
      <3> HIDE DEF l, m
      <3>3. l + m = d
        BY <3>2, <1>d
      <3> QED
        BY <3>1, <3>2, <3>3 DEF z
    <2>3. z \in Seq(Nat) /\ Len(z) = d /\ \A i \in 1 .. d : z[i] = IF i = 1 THEN w ELSE v[i - 1]
      BY <2>1, <2>5, <1>d
    <2> QED
      BY <2>3 DEF y, z
  <1> HIDE DEF x
  <1>9. ASSUME NEW i \in 1 .. d PROVE u[i] = x[i]
    <2>1. 2 * i - 1 \in 1 .. c /\ 2 * i \in 1 .. c
      BY <1>d, <1>c
    <2>a. s[2 * i - 1] = bytes[o + (2 * i - 1)] /\ s[2 * i] = bytes[o + 2 * i]
      BY <2>1, <1>1
    <2>2. u[i] = bytes[o + (2 * i - 1)] + 256 * bytes[o + 2 * i]
      BY <2>a, <1>4
    <2>3. CASE i = 1
      BY <2>2, <2>3, <1>3, <1>8
    <2>4. CASE i > 1
      <3> DEFINE j == i - 1
      <3>1. j \in 1 .. d - 1 /\ 2 * j - 1 \in 1 .. c - 2 /\ 2 * j \in 1 .. c - 2
        BY <2>4, <1>d, <1>c
      <3>5. o + 2 + (2 * j - 1) = o + (2 * i - 1) /\ o + 2 + 2 * j = o + 2 * i
        BY <2>1
      <3>6. x[i] = v[j]
        BY <2>4, <1>8
      <3> HIDE DEF j
      <3>3. v[j] = t[2 * j - 1] + 256 * t[2 * j]
        BY <3>1, <1>5
      <3>7. t[2 * j - 1] = bytes[o + (2 * i - 1)]
        BY <3>1, <3>5, <1>2
      <3>8. t[2 * j] = bytes[o + 2 * i]
        BY <3>1, <3>5, <1>2
      <3> QED
        BY <3>3, <3>7, <3>8, <3>6, <2>2
    <2> QED
      BY <2>3, <2>4
  <1>10. u = x
    BY <1>4, <1>8, <1>9, SeqEqual
  <1> QED
    BY <1>10 DEF u, x, v, w, s, t

\* A step, said of the two bytes it reads.
LEMMA DescriptionStepIs ==
  ASSUME NEW bytes \in Seq(Byte), NEW o \in Nat, NEW g
  PROVE  LET w == Word(<<bytes[o + 1], bytes[o + 2]>>)
             r == g[o + 2]
         IN  DescriptionStep(bytes, g, o) =
               IF o + 2 <= Len(bytes)
               THEN IF w = 0 THEN << [units |-> <<>>, end |-> o + 2] >>
                    ELSE IF r = <<>> THEN <<>>
                    ELSE << [units |-> <<w>> \o r[1].units, end |-> r[1].end] >>
               ELSE <<>>
  <1>1. CASE o + 2 <= Len(bytes)
    <2> DEFINE pair == SubSeq(bytes, o + 1, o + 2)
    <2>1. pair[1] = bytes[o + 1] /\ pair[2] = bytes[o + 2]
      <3>1. \A i \in 1 .. (o + 2) - (o + 1) + 1 : pair[i] = bytes[(o + 1) + i - 1]
        BY <1>1, Slice
      <3> HIDE DEF pair
      <3>2. pair[1] = bytes[(o + 1) + 1 - 1] /\ pair[2] = bytes[(o + 1) + 2 - 1]
        BY <3>1
      <3> QED
        BY <3>2
    <2>2. Word(pair) = Word(<<bytes[o + 1], bytes[o + 2]>>)
      <3> HIDE DEF pair
      <3> QED
        BY <2>1 DEF Word
    <2>3. DescriptionStep(bytes, g, o) =
            IF Word(pair) = 0 THEN << [units |-> <<>>, end |-> o + 2] >>
            ELSE IF g[o + 2] = <<>> THEN <<>>
            ELSE << [units |-> <<Word(pair)>> \o g[o + 2][1].units, end |-> g[o + 2][1].end] >>
      BY <1>1 DEF DescriptionStep, Then, Get, When
    <2> HIDE DEF pair
    <2> QED
      BY <1>1, <2>2, <2>3
  <1>2. CASE ~(o + 2 <= Len(bytes))
    BY <1>2 DEF DescriptionStep, Then, Get, When
  <1> QED
    BY <1>1, <1>2

\* Reading from an offset ends at the first zero that is a whole number of
\* units away, and there is nothing to read if there is none.
LEMMA DescriptionExact ==
  ASSUME NEW bytes \in Seq(Byte)
  PROVE  \A o \in 0 .. Len(bytes) :
           /\ DescriptionZeros(bytes, o) = {} => Descriptions(bytes)[o] = <<>>
           /\ \A k : EndsDescription(bytes, o, k)
                       => Descriptions(bytes)[o] = <<DescriptionTo(bytes, o, k)>>
  <1> DEFINE n == Len(bytes)
             D == Descriptions(bytes)
             Exact(o) == /\ DescriptionZeros(bytes, o) = {} => D[o] = <<>>
                         /\ \A k : EndsDescription(bytes, o, k)
                                     => D[o] = <<DescriptionTo(bytes, o, k)>>
             T == {o \in 0 .. n : Exact(o)}
  <1>0. n \in Nat
    BY LenProperties
  <1>1. ASSUME NEW o \in 0 .. n, \A k \in o + 1 .. n : k \in T PROVE Exact(o)
    <2> DEFINE w == Word(<<bytes[o + 1], bytes[o + 2]>>)
               r == D[o + 2]
               Z == DescriptionZeros(bytes, o)
    <2>1. D[o] = DescriptionStep(bytes, D, o)
      <3>1. D = [offset \in 0 .. n |-> DescriptionStep(bytes, D, offset)]
        BY DescriptionUnrolls, Zenon
      <3> HIDE DEF D, n
      <3> QED
        BY <3>1, <1>1
    <2>2. CASE ~(o + 2 <= n)
      <3>1. Z = {}
        BY <2>2, <1>0 DEF DescriptionZeros
      <3>2. DescriptionStep(bytes, D, o) = <<>>
        BY <2>2, <1>0 DEF DescriptionStep, Then, Get, When
      <3> HIDE DEF D
      <3> QED
        BY <3>1, <3>2, <2>1 DEF EndsDescription
    <2>3. CASE o + 2 <= n
      <3>0. /\ o + 1 \in 1 .. n /\ o + 2 \in 1 .. n
            /\ bytes[o + 1] \in 0 .. 255 /\ bytes[o + 2] \in 0 .. 255
        BY <2>3, <1>0, ByteAt
      <3>1. w = bytes[o + 1] + 256 * bytes[o + 2] /\ w \in Nat
        BY <3>0, WordAt
      <3>2. D[o] = IF w = 0 THEN << [units |-> <<>>, end |-> o + 2] >>
                   ELSE IF r = <<>> THEN <<>>
                   ELSE << [units |-> <<w>> \o r[1].units, end |-> r[1].end] >>
        BY <2>3, <2>1, DescriptionStepIs
      <3>3. CASE w = 0
        <4>1. o + 2 \in Z
          <5>1. bytes[o + 1] = 0 /\ bytes[o + 2] = 0
            <6>1. bytes[o + 1] + 256 * bytes[o + 2] = 0
              <7> HIDE DEF w
              <7> QED
                BY <3>1, <3>3
            <6>2. \A a, b \in 0 .. 255 : a + 256 * b = 0 => a = 0 /\ b = 0
              OBVIOUS
            <6>3. \A b \in 0 .. 255 : bytes[o + 1] + 256 * b = 0 => bytes[o + 1] = 0 /\ b = 0
              BY <6>2, <3>0, Zenon
            <6> QED
              BY <6>1, <6>3, <3>0, Zenon
          <5>2. (o + 2) - 1 = o + 1 /\ ((o + 2) - o) % 2 = 0 /\ o + 2 \in o + 2 .. n
            BY <2>3, <1>0
          <5> QED
            BY <5>1, <5>2 DEF DescriptionZeros
        <4>2. ASSUME NEW k, EndsDescription(bytes, o, k) PROVE D[o] = <<DescriptionTo(bytes, o, k)>>
          <5>1. k = o + 2
            BY <4>1, <4>2 DEF EndsDescription, DescriptionZeros
          <5>2. SubSeq(bytes, o + 1, (o + 2) - 2) = <<>>
            BY SubSeqEmpty
          <5>3. Units(<<>>) = <<>>
            BY DEF Units
          <5> HIDE DEF D, w
          <5> QED
            BY <5>1, <5>2, <5>3, <3>2, <3>3 DEF DescriptionTo
        <4> QED
          BY <4>1, <4>2
      <3>4. CASE w # 0
        <4> DEFINE Y == DescriptionZeros(bytes, o + 2)
        <4>1. Z = Y
          <5>1. ~(bytes[o + 1] = 0 /\ bytes[o + 2] = 0)
            BY <3>1, <3>4
          <5>2. ASSUME NEW k \in o + 2 .. n, (k - o) % 2 = 0, bytes[k - 1] = 0, bytes[k] = 0
                PROVE  k \in o + 4 .. n
            <6>1. k # o + 2
              BY <5>1, <5>2
            <6> QED
              BY <6>1, <5>2, <1>0
          <5>3. \A k \in o + 4 .. n : (k - (o + 2)) % 2 = (k - o) % 2
            BY <1>0
          <5>4. (o + 2) + 2 = o + 4
            OBVIOUS
          <5> QED
            BY <5>2, <5>3, <5>4, <1>0, SMTT(30) DEF DescriptionZeros
        <4>2. Exact(o + 2)
          <5>1. o + 2 \in T
            BY <1>1, <2>3
          <5> QED
            BY <5>1
        <4>3. CASE Z = {}
          <5>1. r = <<>>
            BY <4>1, <4>2, <4>3
          <5> HIDE DEF D, w, r, Z
          <5> QED
            BY <5>1, <4>3, <3>2, <3>4 DEF EndsDescription, Z
        <4>4. ASSUME NEW k, EndsDescription(bytes, o, k) PROVE D[o] = <<DescriptionTo(bytes, o, k)>>
          <5>1. EndsDescription(bytes, o + 2, k)
            BY <4>1, <4>4 DEF EndsDescription
          <5>2. r = <<DescriptionTo(bytes, o + 2, k)>>
            BY <5>1, <4>2
          <5>3. k \in o + 4 .. n /\ k - 2 \in Nat /\ o + 2 <= k - 2 /\ k - 2 <= n
            BY <5>1, <1>0 DEF EndsDescription, DescriptionZeros
          <5>4. Units(SubSeq(bytes, o + 1, k - 2)) = <<w>> \o Units(SubSeq(bytes, o + 3, k - 2))
            BY <5>3, UnitsFirst, SMTT(30)
          <5>5. o + 2 + 1 = o + 3
            OBVIOUS
          <5> DEFINE d == DescriptionTo(bytes, o + 2, k)
          <5>6. d.units = Units(SubSeq(bytes, o + 3, k - 2)) /\ d.end = k
            BY <5>5 DEF DescriptionTo
          <5> HIDE DEF D, w, d
          <5>7. r # <<>> /\ r[1] = d
            BY <5>2 DEF d
          <5> HIDE DEF r
          <5> QED
            BY <5>4, <5>6, <5>7, <3>2, <3>4 DEF DescriptionTo
        <4> QED
          BY <4>3, <4>4
      <3> QED
        BY <3>3, <3>4
    <2> QED
      BY <2>2, <2>3
  <1>2. \A o \in 0 .. n : (\A k \in o + 1 .. n : k \in T) => o \in T
    <2>1. ASSUME NEW o \in 0 .. n, \A k \in o + 1 .. n : k \in T PROVE o \in T
      <3>1. Exact(o)
        BY <1>1, <2>1, Zenon
      <3> HIDE DEF Exact
      <3> QED
        BY <3>1
    <2> HIDE DEF T
    <2> QED
      BY <2>1
  <1>3. \A o \in 0 .. n : o \in T
    <2> HIDE DEF T
    <2> QED
      BY <1>0, <1>2, BackwardInduction, Zenon
  <1> QED
    BY <1>3, Zenon

\* The description of an entry, if it has one, is all up to its first zero.
Described(bytes) == DescriptionZeros(bytes, 6) # {}

\* DescriptionEnd is the first such zero from the sixth byte.
LEMMA EndOfDescription ==
  ASSUME NEW bytes \in Seq(Byte)
  PROVE  IF Described(bytes) THEN EndsDescription(bytes, 6, DescriptionEnd(bytes))
         ELSE DescriptionEnd(bytes) = Len(bytes)
  <1> DEFINE ends == {k \in 8 .. Len(bytes) : k % 2 = 0 /\ bytes[k - 1] = 0 /\ bytes[k] = 0}
             Least(k) == k \in ends /\ \A j \in ends : k <= j
  <1>1. ends = DescriptionZeros(bytes, 6)
    <2>0. Len(bytes) \in Nat
      BY LenProperties
    <2>1. \A k \in 8 .. Len(bytes) : (k - 6) % 2 = k % 2
      BY <2>0
    <2>2. 6 + 2 = 8
      OBVIOUS
    <2> QED
      BY <2>1, <2>2 DEF DescriptionZeros
  <1>2. DescriptionEnd(bytes) =
          IF ends = {} THEN Len(bytes) ELSE CHOOSE k \in ends : \A j \in ends : k <= j
    BY DEF DescriptionEnd
  <1>3. CASE ends = {}
    <2> HIDE DEF ends
    <2> QED
      BY <1>1, <1>2, <1>3 DEF Described
  <1>4. CASE ends # {}
    <2>1. ends \subseteq Nat
      OBVIOUS
    <2> HIDE DEF ends
    <2>2. \E k \in ends : \A j \in ends : k <= j
      BY <2>1, <1>4, LeastElement
    <2>3. Least(CHOOSE k \in ends : \A j \in ends : k <= j)
      BY <2>2
    <2>4. Least(DescriptionEnd(bytes))
      BY <2>3, <1>2, <1>4
    <2> QED
      BY <2>4, <1>1, <1>4 DEF Described, EndsDescription
  <1> QED
    BY <1>3, <1>4

\* What parse_load_option reads as the description.
LEMMA DescriptionIsRead ==
  ASSUME NEW bytes \in Seq(Byte), 6 <= Len(bytes)
  PROVE  ReadDescription(bytes) =
           IF Described(bytes) THEN <<DescriptionTo(bytes, 6, DescriptionEnd(bytes))>> ELSE <<>>
  <1>1. 6 \in 0 .. Len(bytes)
    BY LenProperties
  <1>2. /\ DescriptionZeros(bytes, 6) = {} => Descriptions(bytes)[6] = <<>>
        /\ \A k : EndsDescription(bytes, 6, k)
                    => Descriptions(bytes)[6] = <<DescriptionTo(bytes, 6, k)>>
    BY <1>1, DescriptionExact, Zenon
  <1> QED
    BY <1>2, EndOfDescription, DescriptionRead, Zenon DEF Described

\* Where the description of an entry ends.
LEMMA DescriptionEndAt ==
  ASSUME NEW bytes \in Seq(Byte), Described(bytes)
  PROVE  /\ DescriptionEnd(bytes) \in 8 .. Len(bytes) /\ DescriptionEnd(bytes) % 2 = 0
         /\ bytes[DescriptionEnd(bytes) - 1] = 0 /\ bytes[DescriptionEnd(bytes)] = 0
  <1> DEFINE k == DescriptionEnd(bytes)
  <1>1. EndsDescription(bytes, 6, k)
    BY EndOfDescription
  <1> HIDE DEF k
  <1>2. k \in 6 + 2 .. Len(bytes) /\ (k - 6) % 2 = 0 /\ bytes[k - 1] = 0 /\ bytes[k] = 0
    BY <1>1 DEF EndsDescription, DescriptionZeros
  <1>3. k \in 8 .. Len(bytes) /\ k % 2 = 0 /\ bytes[k - 1] = 0 /\ bytes[k] = 0
    BY <1>2, LenProperties
  <1> QED
    BY <1>3 DEF k

\* No unit of it is a zero, and it has as many as its bytes hold.
LEMMA DescriptionUnits ==
  ASSUME NEW bytes \in Seq(Byte), Described(bytes)
  PROVE  LET units == Units(SubSeq(bytes, 7, DescriptionEnd(bytes) - 2))
         IN  0 \notin ToSet(units) /\ 6 + 2 * (Len(units) + 1) = DescriptionEnd(bytes)
  <1> DEFINE k == DescriptionEnd(bytes)
             s == SubSeq(bytes, 7, k - 2)
             units == Units(s)
             c == k - 8
             d == c \div 2
  <1>0. Len(bytes) \in Nat
    BY LenProperties
  <1>1. k \in 8 .. Len(bytes) /\ k % 2 = 0
    BY DescriptionEndAt
  <1>2. \A j \in DescriptionZeros(bytes, 6) : k <= j
    BY EndOfDescription DEF EndsDescription
  <1> HIDE DEF k
  <1>3. c \in Nat /\ d \in Nat /\ 2 * d = c /\ k = c + 8
    BY <1>0, <1>1
  <1>4. s \in Seq(Byte) /\ Len(s) = c /\ \A i \in 1 .. c : s[i] = bytes[6 + i]
    <2>1. /\ s \in Seq(Byte) /\ Len(s) = IF 7 <= k - 2 THEN k - 2 - 7 + 1 ELSE 0
          /\ \A i \in 1 .. k - 2 - 7 + 1 : s[i] = bytes[7 + i - 1]
      BY <1>0, <1>1, Slice
    <2> HIDE DEF s
    <2> QED
      BY <2>1, <1>1, <1>3
  <1> HIDE DEF s
  <1>5. /\ units \in Seq(Nat) /\ Len(units) = Len(s) \div 2
        /\ \A i \in 1 .. Len(s) \div 2 : units[i] = s[2 * i - 1] + 256 * s[2 * i]
    BY <1>4, UnitsAre
  <1> HIDE DEF units
  <1>6. /\ units \in Seq(Nat) /\ Len(units) = d
        /\ \A i \in 1 .. d : units[i] = s[2 * i - 1] + 256 * s[2 * i]
    BY <1>4, <1>5
  <1> HIDE DEF d, c
  <1>7. ASSUME NEW i \in 1 .. d PROVE units[i] # 0
    <2>1. 2 * i - 1 \in 1 .. c /\ 2 * i \in 1 .. c
      BY <1>3
    <2>2. s[2 * i - 1] \in 0 .. 255 /\ s[2 * i] \in 0 .. 255
      BY <2>1, <1>4, ByteAt
    <2>3. ASSUME s[2 * i - 1] = 0, s[2 * i] = 0 PROVE FALSE
      <3> DEFINE j == 6 + 2 * i
      <3>1. bytes[j - 1] = 0 /\ bytes[j] = 0
        <4>1. s[2 * i - 1] = bytes[6 + (2 * i - 1)] /\ s[2 * i] = bytes[6 + 2 * i]
          BY <2>1, <1>4
        <4>2. 6 + (2 * i - 1) = j - 1
          BY <1>3
        <4> QED
          BY <4>1, <4>2, <2>3
      <3>2. j \in 6 + 2 .. Len(bytes) /\ (j - 6) % 2 = 0 /\ j < k
        BY <2>1, <1>0, <1>1, <1>3
      <3> HIDE DEF j
      <3>3. j \in DescriptionZeros(bytes, 6)
        BY <3>1, <3>2 DEF DescriptionZeros
      <3>4. k <= j
        BY <3>3, <1>2
      <3> QED
        BY <3>2, <3>4, <1>1, <1>0
    <2>4. \A a, b \in 0 .. 255 : a + 256 * b = 0 => a = 0 /\ b = 0
      OBVIOUS
    <2>5. \A b \in 0 .. 255 : s[2 * i - 1] + 256 * b = 0 => s[2 * i - 1] = 0 /\ b = 0
      BY <2>4, <2>2, Zenon
    <2>6. units[i] = s[2 * i - 1] + 256 * s[2 * i]
      BY <1>6
    <2> QED
      BY <2>2, <2>3, <2>5, <2>6, Zenon
  <1>8. 0 \notin ToSet(units)
    <2>1. DOMAIN units = 1 .. d
      BY <1>6, LenProperties
    <2> QED
      BY <2>1, <1>7 DEF ToSet
  <1>9. 6 + 2 * (Len(units) + 1) = k
    BY <1>3, <1>6
  <1> QED
    BY <1>8, <1>9 DEF units, s, k
-----------------------------------------------------------------------------
(* device_path.rs: a node. *)

NodeLength(bytes, o) == bytes[o + 3] + 256 * bytes[o + 4]

NodeFits(bytes, o) ==
  /\ o + 4 <= Len(bytes)
  /\ NodeLength(bytes, o) >= 4 /\ o + NodeLength(bytes, o) <= Len(bytes)
  /\ bytes[o + 1] = 127 => NodeLength(bytes, o) = 4 /\ bytes[o + 2] \in {1, 255}

NodeAt(bytes, o) ==
  [ type |-> bytes[o + 1], subtype |-> bytes[o + 2], length |-> NodeLength(bytes, o),
    payload |-> SubSeq(bytes, o + 5, o + NodeLength(bytes, o)),
    ends |-> IF bytes[o + 1] # 127 THEN "no"
             ELSE IF bytes[o + 2] = 1 THEN "EndInstance" ELSE "EndEntire" ]

\* read_bounded_node reads the node at an offset exactly if it fits.
LEMMA NodeRead ==
  ASSUME NEW bytes \in Seq(Byte), NEW o \in Nat
  PROVE  ReadBoundedNode(bytes, o) = IF NodeFits(bytes, o) THEN <<NodeAt(bytes, o)>> ELSE <<>>
  <1>1. CASE o + 4 <= Len(bytes)
    <2> DEFINE h == SubSeq(bytes, o + 1, o + 4)
               w == Word(SubSeq(h, 3, 4))
    <2>1. /\ h \in Seq(Byte) /\ Len(h) = 4
          /\ h[1] = bytes[o + 1] /\ h[2] = bytes[o + 2] /\ h[3] = bytes[o + 3] /\ h[4] = bytes[o + 4]
      <3>1. h \in Seq(Byte) /\ Len(h) = 4 /\ \A i \in 1 .. 4 : h[i] = bytes[o + i]
        BY <1>1, SliceOf
      <3> HIDE DEF h
      <3> QED
        BY <3>1
    <2>2. w = bytes[o + 3] + 256 * bytes[o + 4]
      <3> HIDE DEF h
      <3>0. h \in Seq(Byte)
        BY <2>1
      <3>1. \A m \in Nat : m + 2 <= Len(h) => Word(SubSeq(h, m + 1, m + 2)) = h[m + 1] + 256 * h[m + 2]
        BY <3>0, WordOfSlice
      <3>2. Word(SubSeq(h, 2 + 1, 2 + 2)) = h[2 + 1] + 256 * h[2 + 2]
        <4>1. 2 \in Nat /\ 2 + 2 <= Len(h)
          BY <2>1
        <4> QED
          BY <3>1, <4>1, Zenon
      <3>3. 2 + 1 = 3 /\ 2 + 2 = 4
        OBVIOUS
      <3> QED
        BY <3>2, <3>3, <2>1
    <2>3. w = NodeLength(bytes, o)
      BY <2>2 DEF NodeLength
    <2>4. ReadBoundedNode(bytes, o) =
            IF /\ w >= 4 /\ o + w <= Len(bytes)
               /\ h[1] = 127 => w = 4 /\ h[2] \in {1, 255}
            THEN << [ type |-> h[1], subtype |-> h[2], length |-> w,
                      payload |-> SubSeq(bytes, o + 5, o + w),
                      ends |-> IF h[1] # 127 THEN "no"
                               ELSE IF h[2] = 1 THEN "EndInstance" ELSE "EndEntire" ] >>
            ELSE <<>>
      BY <1>1 DEF ReadBoundedNode, Get, Then, When
    <2> HIDE DEF h, w
    <2> QED
      BY <1>1, <2>1, <2>3, <2>4 DEF NodeFits, NodeAt
  <1>2. CASE ~(o + 4 <= Len(bytes))
    BY <1>2 DEF ReadBoundedNode, Get, Then, When, NodeFits
  <1> QED
    BY <1>1, <1>2

KindAt(bytes, o) == ParseNodeKind(NodeAt(bytes, o))
ParsedAt(bytes, o) == KindAt(bytes, o)[1]

\* What a node is taken for, and what its payload says.
LEMMA NodeKind ==
  ASSUME NEW bytes, NEW o
  PROVE  LET node == NodeAt(bytes, o)
             kind == IF node.ends # "no" THEN node.ends
                     ELSE IF node.type = 4 /\ node.subtype = 1 THEN "HardDrive"
                     ELSE IF node.type = 4 /\ node.subtype = 4 THEN "FilePath" ELSE "Unknown"
             said == IF kind = "HardDrive" THEN ParseHardDrive(node.length, node.payload)
                     ELSE IF kind = "FilePath" THEN ParseFilePath(node.payload) ELSE << <<>> >>
         IN  KindAt(bytes, o) = IF said = <<>> THEN <<>>
                                ELSE << [node |-> node, kind |-> kind, says |-> said[1]] >>
  <1> DEFINE node == NodeAt(bytes, o)
  <1>1. node.ends \in {"no", "EndInstance", "EndEntire"}
    BY DEF NodeAt
  <1> HIDE DEF node
  <1>2. KindAt(bytes, o) = ParseNodeKind(node)
    BY DEF KindAt, node
  <1>3. CASE node.ends # "no"
    BY <1>1, <1>2, <1>3 DEF ParseNodeKind, Then, node
  <1>4. CASE node.ends = "no" /\ node.type = 4 /\ node.subtype = 1
    BY <1>2, <1>4 DEF ParseNodeKind, Then, node
  <1>5. CASE node.ends = "no" /\ node.type = 4 /\ node.subtype = 4
    BY <1>2, <1>5 DEF ParseNodeKind, Then, node
  <1>6. CASE /\ node.ends = "no" /\ ~(node.type = 4 /\ node.subtype = 1)
             /\ ~(node.type = 4 /\ node.subtype = 4)
    BY <1>2, <1>6 DEF ParseNodeKind, Then, node
  <1> QED
    BY <1>3, <1>4, <1>5, <1>6
-----------------------------------------------------------------------------
(* device_path.rs: the length of the first path. *)

LengthStep(bytes, g, offset) ==
  Then(ReadBoundedNode(bytes, offset),
       LAMBDA node : IF node.ends = "EndEntire" THEN << offset + node.length >>
                     ELSE g[offset + node.length])
Lengths(bytes) == CHOOSE g : g = [offset \in 0 .. Len(bytes) |-> LengthStep(bytes, g, offset)]

\* FirstPathLength is the function on offsets, at the first of them.
LEMMA LengthRead ==
  ASSUME NEW bytes
  PROVE  FirstPathLength(bytes) = Lengths(bytes)[0]
  BY Zenon DEF FirstPathLength, Lengths, LengthStep

\* A step, said of the node it reads.
LEMMA LengthStepIs ==
  ASSUME NEW bytes \in Seq(Byte), NEW o \in Nat, NEW g
  PROVE  LengthStep(bytes, g, o) =
           IF ~NodeFits(bytes, o) THEN <<>>
           ELSE IF NodeAt(bytes, o).ends = "EndEntire" THEN <<o + NodeLength(bytes, o)>>
           ELSE g[o + NodeLength(bytes, o)]
  <1>1. NodeAt(bytes, o).length = NodeLength(bytes, o)
    BY DEF NodeAt
  <1>2. CASE NodeFits(bytes, o)
    <2>1. ReadBoundedNode(bytes, o) = <<NodeAt(bytes, o)>>
      BY <1>2, NodeRead
    <2> QED
      BY <1>1, <1>2, <2>1 DEF LengthStep, Then
  <1>3. CASE ~NodeFits(bytes, o)
    <2>1. ReadBoundedNode(bytes, o) = <<>>
      BY <1>3, NodeRead
    <2> QED
      BY <1>3, <2>1 DEF LengthStep, Then
  <1> QED
    BY <1>2, <1>3

\* A node that fits takes the reader on, and not beyond the end.
LEMMA NodeLengthRange ==
  ASSUME NEW bytes \in Seq(Byte), NEW o \in Nat, NodeFits(bytes, o)
  PROVE  /\ NodeLength(bytes, o) \in Nat /\ NodeLength(bytes, o) >= 4
         /\ o + NodeLength(bytes, o) \in o + 4 .. Len(bytes)
  <1>0. Len(bytes) \in Nat /\ o + 4 <= Len(bytes)
    BY LenProperties DEF NodeFits
  <1>1. o + 3 \in 1 .. Len(bytes) /\ o + 4 \in 1 .. Len(bytes)
    BY <1>0
  <1>2. NodeLength(bytes, o) \in Nat
    <2>1. /\ Word(<<bytes[o + 3], bytes[o + 4]>>) = bytes[o + 3] + 256 * bytes[o + 4]
          /\ Word(<<bytes[o + 3], bytes[o + 4]>>) \in Nat
      BY <1>1, WordAt
    <2> QED
      BY <2>1, Zenon DEF NodeLength
  <1>3. NodeLength(bytes, o) >= 4 /\ o + NodeLength(bytes, o) <= Len(bytes)
    BY DEF NodeFits
  <1> DEFINE l == NodeLength(bytes, o)
  <1>4. l \in Nat /\ l >= 4 /\ o + l <= Len(bytes)
    BY <1>2, <1>3
  <1> HIDE DEF l
  <1>5. l \in Nat /\ l >= 4 /\ o + l \in o + 4 .. Len(bytes)
    BY <1>0, <1>4
  <1> QED
    BY <1>5 DEF l

LengthResults(n) == {<<>>} \union {<<l>> : l \in 4 .. n}

\* What a step gives, from results at greater offsets.
LEMMA LengthTyped ==
  ASSUME NEW bytes \in Seq(Byte), NEW g, NEW o \in 0 .. Len(bytes),
         \A k \in o + 1 .. Len(bytes) : g[k] \in LengthResults(Len(bytes))
  PROVE  LengthStep(bytes, g, o) \in LengthResults(Len(bytes))
  <1> DEFINE n == Len(bytes)
             l == NodeLength(bytes, o)
  <1>0. n \in Nat /\ o \in Nat
    BY LenProperties
  <1>1. LengthStep(bytes, g, o) = IF ~NodeFits(bytes, o) THEN <<>>
                                  ELSE IF NodeAt(bytes, o).ends = "EndEntire" THEN <<o + l>>
                                  ELSE g[o + l]
    BY <1>0, LengthStepIs
  <1>2. CASE NodeFits(bytes, o)
    <2>1. o + l \in o + 4 .. n /\ l \in Nat
      BY <1>0, <1>2, NodeLengthRange
    <2> HIDE DEF n, l
    <2>2. o + l \in 4 .. n /\ o + l \in o + 1 .. n
      BY <2>1, <1>0
    <2>3. <<o + l>> \in LengthResults(n)
      BY <2>2 DEF LengthResults
    <2>4. g[o + l] \in LengthResults(n)
      BY <2>2 DEF n
    <2> QED
      BY <1>1, <1>2, <2>3, <2>4 DEF n
  <1>3. CASE ~NodeFits(bytes, o)
    BY <1>1, <1>3 DEF LengthResults
  <1> QED
    BY <1>2, <1>3

\* A step looks at greater offsets only.
LEMMA LengthLocal ==
  ASSUME NEW bytes \in Seq(Byte), NEW g, NEW h, NEW o \in 0 .. Len(bytes),
         \A k \in o + 1 .. Len(bytes) : g[k] = h[k]
  PROVE  LengthStep(bytes, g, o) = LengthStep(bytes, h, o)
  <1>0. o \in Nat
    BY LenProperties
  <1>1. CASE NodeFits(bytes, o)
    <2> DEFINE l == NodeLength(bytes, o)
    <2>1. l \in Nat /\ l >= 4 /\ o + l \in o + 4 .. Len(bytes)
      BY <1>0, <1>1, NodeLengthRange
    <2>2. o + l \in o + 1 .. Len(bytes)
      <3> HIDE DEF l
      <3> QED
        BY <2>1, <1>0, LenProperties
    <2>3. g[o + l] = h[o + l]
      BY <2>2
    <2> QED
      BY <1>0, <2>3, LengthStepIs
  <1>2. CASE ~NodeFits(bytes, o)
    BY <1>0, <1>2, LengthStepIs
  <1> QED
    BY <1>1, <1>2

\* The recursion has a solution.
LEMMA LengthUnrolls ==
  ASSUME NEW bytes \in Seq(Byte)
  PROVE  Lengths(bytes) = [offset \in 0 .. Len(bytes) |-> LengthStep(bytes, Lengths(bytes), offset)]
  <1> DEFINE n == Len(bytes)
             V == LengthResults(n)
             F == [o \in 0 .. n |-> [g \in [0 .. n -> V] |-> LengthStep(bytes, g, o)]]
  <1>1. n \in Nat /\ <<>> \in V
    BY LenProperties DEF LengthResults
  <1>2. ASSUME NEW o \in 0 .. n, NEW g \in [0 .. n -> V] PROVE LengthStep(bytes, g, o) \in V
    <2>1. \A k \in o + 1 .. n : g[k] \in V
      BY <1>1
    <2> QED
      BY <2>1, LengthTyped
  <1>3. ASSUME NEW o \in 0 .. n, NEW g, NEW h, \A k \in o + 1 .. n : g[k] = h[k]
        PROVE  LengthStep(bytes, g, o) = LengthStep(bytes, h, o)
    BY <1>3, LengthLocal
  <1> HIDE DEF n, V
  <1>4. F \in [0 .. n -> [[0 .. n -> V] -> V]]
    BY <1>2
  <1>5. \A o \in 0 .. n : \A g, h \in [0 .. n -> V] :
            (\A k \in o + 1 .. n : g[k] = h[k]) => F[o][g] = F[o][h]
    BY <1>3
  <1> HIDE DEF F
  <1>6. \E g \in [0 .. n -> V] : \A o \in 0 .. n : g[o] = F[o][g]
    <2>1. Recursive(n, V)
      BY <1>1, Recursion
    <2> QED
      BY <1>4, <1>5, <2>1, Zenon DEF Recursive
  <1>7. PICK g \in [0 .. n -> V] : \A o \in 0 .. n : g[o] = F[o][g]
    BY <1>6
  <1>8. g = [o \in 0 .. n |-> LengthStep(bytes, g, o)]
    BY <1>7 DEF F
  <1> QED
    BY <1>8, Zenon DEF n, Lengths

\* The length found from an offset on.
LEMMA LengthAt ==
  ASSUME NEW bytes \in Seq(Byte), NEW o \in 0 .. Len(bytes)
  PROVE  Lengths(bytes)[o] =
           IF ~NodeFits(bytes, o) THEN <<>>
           ELSE IF NodeAt(bytes, o).ends = "EndEntire" THEN <<o + NodeLength(bytes, o)>>
           ELSE Lengths(bytes)[o + NodeLength(bytes, o)]
  <1> DEFINE L == Lengths(bytes)
             n == Len(bytes)
  <1>1. L = [offset \in 0 .. n |-> LengthStep(bytes, L, offset)]
    BY LengthUnrolls, Zenon
  <1>2. o \in Nat /\ o \in 0 .. n
    BY LenProperties
  <1> HIDE DEF L, n
  <1>3. L[o] = LengthStep(bytes, L, o)
    BY <1>1, <1>2
  <1> QED
    BY <1>2, <1>3, LengthStepIs DEF L

\* The first path has a node at least and lies within the bytes.
LEMMA FirstPathLengthRange ==
  ASSUME NEW bytes \in Seq(Byte)
  PROVE  FirstPathLength(bytes) \in LengthResults(Len(bytes))
  <1> DEFINE n == Len(bytes)
             L == Lengths(bytes)
             V == LengthResults(n)
             T == {o \in 0 .. n : L[o] \in V}
  <1>0. n \in Nat
    BY LenProperties
  <1>1. L = [offset \in 0 .. n |-> LengthStep(bytes, L, offset)]
    BY LengthUnrolls, Zenon
  <1> HIDE DEF L
  <1>2. \A o \in 0 .. n : (\A k \in o + 1 .. n : k \in T) => o \in T
    <2>1. ASSUME NEW o \in 0 .. n, \A k \in o + 1 .. n : k \in T PROVE o \in T
      <3>1. \A k \in o + 1 .. n : L[k] \in V
        BY <2>1
      <3>2. LengthStep(bytes, L, o) \in V
        BY <3>1, LengthTyped
      <3> HIDE DEF V, n
      <3>3. L[o] = LengthStep(bytes, L, o)
        BY <1>1
      <3> QED
        BY <3>2, <3>3
    <2> HIDE DEF T
    <2> QED
      BY <2>1
  <1>3. \A o \in 0 .. n : o \in T
    <2> HIDE DEF T
    <2> QED
      BY <1>0, <1>2, BackwardInduction, Zenon
  <1>4. 0 \in 0 .. n
    BY <1>0
  <1> QED
    BY <1>3, <1>4, LengthRead DEF L

-----------------------------------------------------------------------------
(* device_path.rs: the instances of a path. *)

InstancesAfter(bytes, node, next, rest) ==
  CASE node.kind = "EndEntire" -> When(next = Len(bytes), << <<node>> >>)
    [] node.kind = "EndInstance" ->
         Then(rest, LAMBDA instances : << << <<node>> >> \o instances >>)
    [] OTHER ->
         Then(rest, LAMBDA instances : << << <<node>> \o instances[1] >> \o Tail(instances) >>)
InstancesStep(bytes, g, offset) ==
  Then(ReadBoundedNode(bytes, offset),
       LAMBDA read : Then(ParseNodeKind(read),
                          LAMBDA node : InstancesAfter(bytes, node, offset + read.length,
                                                       g[offset + read.length])))
Instances(bytes) ==
  CHOOSE g : g = [offset \in 0 .. Len(bytes) |-> InstancesStep(bytes, g, offset)]

\* ParseDevicePath is the function on offsets, at the first of them.
LEMMA InstancesRead ==
  ASSUME NEW bytes
  PROVE  ParseDevicePath(bytes) = Instances(bytes)[0]
  BY Zenon DEF ParseDevicePath, Instances, InstancesStep, InstancesAfter

\* The instances from a node on, from those after it.
InstancesWith(node, next, rest, n) ==
  IF node.kind = "EndEntire" THEN IF next = n THEN << << <<node>> >> >> ELSE <<>>
  ELSE IF rest = <<>> THEN <<>>
  ELSE IF node.kind = "EndInstance" THEN << << <<node>> >> \o rest[1] >>
  ELSE << << <<node>> \o rest[1][1] >> \o Tail(rest[1]) >>

\* A step, said of the node it reads.
LEMMA InstancesStepIs ==
  ASSUME NEW bytes \in Seq(Byte), NEW o \in Nat, NEW g
  PROVE  InstancesStep(bytes, g, o) =
           IF ~NodeFits(bytes, o) \/ KindAt(bytes, o) = <<>> THEN <<>>
           ELSE InstancesWith(ParsedAt(bytes, o), o + NodeLength(bytes, o),
                              g[o + NodeLength(bytes, o)], Len(bytes))
  <1>1. NodeAt(bytes, o).length = NodeLength(bytes, o)
    BY DEF NodeAt
  <1>2. CASE NodeFits(bytes, o)
    <2>1. ReadBoundedNode(bytes, o) = <<NodeAt(bytes, o)>>
      BY <1>2, NodeRead
    <2> DEFINE k == KindAt(bytes, o)
               p == ParsedAt(bytes, o)
               l == NodeLength(bytes, o)
               r == g[o + l]
               n == Len(bytes)
    <2>2. InstancesStep(bytes, g, o) =
            IF k = <<>> THEN <<>> ELSE InstancesAfter(bytes, p, o + l, r)
      BY <1>1, <2>1 DEF InstancesStep, Then, KindAt, ParsedAt
    <2> HIDE DEF k, p, l, r, n
    <2>3. InstancesStep(bytes, g, o) = IF k = <<>> THEN <<>> ELSE InstancesWith(p, o + l, r, n)
      <3>1. CASE p.kind = "EndEntire"
        BY <2>2, <3>1 DEF InstancesWith, InstancesAfter, When, n
      <3>2. CASE p.kind = "EndInstance"
        BY <2>2, <3>2 DEF InstancesWith, InstancesAfter, Then
      <3>3. CASE p.kind # "EndEntire" /\ p.kind # "EndInstance"
        BY <2>2, <3>3 DEF InstancesWith, InstancesAfter, Then
      <3> QED
        BY <3>1, <3>2, <3>3
    <2> QED
      BY <2>3, <1>2 DEF k, p, l, r, n
  <1>3. CASE ~NodeFits(bytes, o)
    <2>1. ReadBoundedNode(bytes, o) = <<>>
      BY <1>3, NodeRead
    <2> QED
      BY <1>3, <2>1 DEF InstancesStep, Then
  <1> QED
    BY <1>2, <1>3

ParsedNodes(bytes) == {ParsedAt(bytes, o) : o \in 0 .. Len(bytes)}
InstancesOver(X) == {<<>>} \union {<<is>> : is \in Seq(Seq(X)) \ {<<>>}}

\* A node before instances makes instances.
LEMMA InstancesWithTyped ==
  ASSUME NEW X, NEW node \in X, NEW next, NEW n, NEW rest \in InstancesOver(X)
  PROVE  InstancesWith(node, next, rest, n) \in InstancesOver(X)
  <1>1. ASSUME NEW is \in Seq(Seq(X)), Len(is) > 0 PROVE <<is>> \in InstancesOver(X)
    <2>1. is # <<>>
      BY <1>1
    <2> QED
      BY <2>1 DEF InstancesOver
  <1>2. <<>> \in InstancesOver(X)
    BY DEF InstancesOver
  <1>3. << << <<node>> >> >> \in InstancesOver(X)
    <2> DEFINE is == << <<node>> >>
    <2>1. is \in Seq(Seq(X)) /\ Len(is) > 0
      OBVIOUS
    <2> HIDE DEF is
    <2>2. <<is>> \in InstancesOver(X)
      BY <2>1, <1>1
    <2> QED
      BY <2>2 DEF is
  <1>4. ASSUME rest # <<>>
        PROVE  /\ << << <<node>> >> \o rest[1] >> \in InstancesOver(X)
               /\ << << <<node>> \o rest[1][1] >> \o Tail(rest[1]) >> \in InstancesOver(X)
    <2> DEFINE r == rest[1]
    <2>1. r \in Seq(Seq(X)) /\ r # <<>>
      BY <1>4 DEF InstancesOver
    <2> HIDE DEF r
    <2>2. Len(r) \in Nat /\ Len(r) > 0
      BY <2>1, EmptySeq
    <2>3. r[1] \in Seq(X)
      BY <2>1, <2>2, ElementOfSeq
    <2> DEFINE a == << <<node>> >> \o r
    <2>4. a \in Seq(Seq(X)) /\ Len(a) > 0
      <3> DEFINE y == << <<node>> >>
      <3>1. y \in Seq(Seq(X)) /\ Len(y) = 1
        OBVIOUS
      <3> HIDE DEF y
      <3>2. y \in Seq(Seq(X)) /\ r \in Seq(Seq(X))
        BY <2>1, <3>1
      <3>3. y \o r \in Seq(Seq(X)) /\ Len(y \o r) = Len(y) + Len(r)
        BY <3>2, ConcatProperties
      <3>4. y \o r \in Seq(Seq(X)) /\ Len(y \o r) > 0
        BY <3>1, <3>3, <2>2
      <3> QED
        BY <3>4 DEF y
    <2> DEFINE c == <<node>> \o r[1]
               b == << c >> \o Tail(r)
    <2>5. c \in Seq(X)
      <3> DEFINE y == <<node>>
      <3>1. y \in Seq(X)
        OBVIOUS
      <3> HIDE DEF y
      <3>2. y \o r[1] \in Seq(X)
        BY <3>1, <2>3, ConcatProperties
      <3> QED
        BY <3>2 DEF y
    <2> HIDE DEF c
    <2>6. b \in Seq(Seq(X)) /\ Len(b) > 0
      <3> DEFINE y == <<c>>
                 t == Tail(r)
      <3>1. y \in Seq(Seq(X)) /\ Len(y) = 1
        BY <2>5
      <3>2. t \in Seq(Seq(X)) /\ Len(t) = Len(r) - 1
        BY <2>1, HeadTailProperties
      <3> HIDE DEF y, t
      <3>3. y \in Seq(Seq(X)) /\ t \in Seq(Seq(X))
        BY <3>1, <3>2
      <3>4. y \o t \in Seq(Seq(X)) /\ Len(y \o t) = Len(y) + Len(t)
        BY <3>3, ConcatProperties
      <3>5. y \o t \in Seq(Seq(X)) /\ Len(y \o t) > 0
        BY <3>1, <3>2, <3>4, <2>2
      <3> QED
        BY <3>5 DEF y, t
    <2> HIDE DEF a, b
    <2>7. <<a>> \in InstancesOver(X) /\ <<b>> \in InstancesOver(X)
      BY <2>4, <2>6, <1>1
    <2> QED
      BY <2>7 DEF a, b, c, r
  <1> QED
    BY <1>2, <1>3, <1>4 DEF InstancesWith

\* What a step gives, from results at greater offsets.
LEMMA InstancesTyped ==
  ASSUME NEW bytes \in Seq(Byte), NEW g, NEW o \in 0 .. Len(bytes),
         \A k \in o + 1 .. Len(bytes) : g[k] \in InstancesOver(ParsedNodes(bytes))
  PROVE  InstancesStep(bytes, g, o) \in InstancesOver(ParsedNodes(bytes))
  <1> DEFINE V == InstancesOver(ParsedNodes(bytes))
             l == NodeLength(bytes, o)
  <1>0. o \in Nat /\ Len(bytes) \in Nat
    BY LenProperties
  <1>1. <<>> \in V
    BY DEF InstancesOver
  <1>2. CASE NodeFits(bytes, o)
    <2>1. l \in Nat /\ l >= 4 /\ o + l \in o + 4 .. Len(bytes)
      BY <1>0, <1>2, NodeLengthRange
    <2>2. o + l \in o + 1 .. Len(bytes)
      <3> HIDE DEF l
      <3> QED
        BY <2>1, <1>0
    <2>3. g[o + l] \in V
      BY <2>2
    <2>4. ParsedAt(bytes, o) \in ParsedNodes(bytes)
      BY DEF ParsedNodes
    <2>5. InstancesWith(ParsedAt(bytes, o), o + l, g[o + l], Len(bytes)) \in V
      BY <2>3, <2>4, InstancesWithTyped
    <2> HIDE DEF V
    <2> QED
      BY <1>0, <1>1, <2>5, InstancesStepIs DEF V
  <1>3. CASE ~NodeFits(bytes, o)
    BY <1>0, <1>1, <1>3, InstancesStepIs
  <1> QED
    BY <1>2, <1>3

\* A step looks at greater offsets only.
LEMMA InstancesLocal ==
  ASSUME NEW bytes \in Seq(Byte), NEW g, NEW h, NEW o \in 0 .. Len(bytes),
         \A k \in o + 1 .. Len(bytes) : g[k] = h[k]
  PROVE  InstancesStep(bytes, g, o) = InstancesStep(bytes, h, o)
  <1>0. o \in Nat /\ Len(bytes) \in Nat
    BY LenProperties
  <1>1. CASE NodeFits(bytes, o)
    <2> DEFINE l == NodeLength(bytes, o)
    <2>1. l \in Nat /\ l >= 4 /\ o + l \in o + 4 .. Len(bytes)
      BY <1>0, <1>1, NodeLengthRange
    <2>2. o + l \in o + 1 .. Len(bytes)
      <3> HIDE DEF l
      <3> QED
        BY <2>1, <1>0
    <2>3. g[o + l] = h[o + l]
      BY <2>2
    <2> QED
      BY <1>0, <2>3, InstancesStepIs
  <1>2. CASE ~NodeFits(bytes, o)
    BY <1>0, <1>2, InstancesStepIs
  <1> QED
    BY <1>1, <1>2

\* The recursion has a solution.
LEMMA InstancesUnroll ==
  ASSUME NEW bytes \in Seq(Byte)
  PROVE  Instances(bytes) =
           [offset \in 0 .. Len(bytes) |-> InstancesStep(bytes, Instances(bytes), offset)]
  <1> DEFINE n == Len(bytes)
             V == InstancesOver(ParsedNodes(bytes))
             F == [o \in 0 .. n |-> [g \in [0 .. n -> V] |-> InstancesStep(bytes, g, o)]]
  <1>1. n \in Nat /\ <<>> \in V
    BY LenProperties DEF InstancesOver
  <1>2. ASSUME NEW o \in 0 .. n, NEW g \in [0 .. n -> V] PROVE InstancesStep(bytes, g, o) \in V
    <2>1. \A k \in o + 1 .. n : g[k] \in V
      BY <1>1
    <2> QED
      BY <2>1, InstancesTyped
  <1>3. ASSUME NEW o \in 0 .. n, NEW g, NEW h, \A k \in o + 1 .. n : g[k] = h[k]
        PROVE  InstancesStep(bytes, g, o) = InstancesStep(bytes, h, o)
    BY <1>3, InstancesLocal
  <1> HIDE DEF n, V
  <1>4. F \in [0 .. n -> [[0 .. n -> V] -> V]]
    BY <1>2
  <1>5. \A o \in 0 .. n : \A g, h \in [0 .. n -> V] :
            (\A k \in o + 1 .. n : g[k] = h[k]) => F[o][g] = F[o][h]
    BY <1>3
  <1> HIDE DEF F
  <1>6. \E g \in [0 .. n -> V] : \A o \in 0 .. n : g[o] = F[o][g]
    <2>1. Recursive(n, V)
      BY <1>1, Recursion
    <2> QED
      BY <1>4, <1>5, <2>1, Zenon DEF Recursive
  <1>7. PICK g \in [0 .. n -> V] : \A o \in 0 .. n : g[o] = F[o][g]
    BY <1>6
  <1>8. g = [o \in 0 .. n |-> InstancesStep(bytes, g, o)]
    BY <1>7 DEF F
  <1> QED
    BY <1>8, Zenon DEF n, Instances

\* The instances from an offset on.
LEMMA InstancesAt ==
  ASSUME NEW bytes \in Seq(Byte), NEW o \in 0 .. Len(bytes)
  PROVE  /\ Instances(bytes)[o] =
              IF ~NodeFits(bytes, o) \/ KindAt(bytes, o) = <<>> THEN <<>>
              ELSE InstancesWith(ParsedAt(bytes, o), o + NodeLength(bytes, o),
                                 Instances(bytes)[o + NodeLength(bytes, o)], Len(bytes))
         /\ Instances(bytes)[o] \in InstancesOver(ParsedNodes(bytes))
  <1> DEFINE I == Instances(bytes)
             n == Len(bytes)
             V == InstancesOver(ParsedNodes(bytes))
             T == {k \in 0 .. n : I[k] \in V}
  <1>0. n \in Nat
    BY LenProperties
  <1>1. I = [offset \in 0 .. n |-> InstancesStep(bytes, I, offset)]
    BY InstancesUnroll, Zenon
  <1> HIDE DEF I
  <1>2. o \in Nat /\ I[o] = InstancesStep(bytes, I, o)
    <2>1. o \in 0 .. n /\ o \in Nat
      BY <1>0
    <2> HIDE DEF n
    <2> QED
      BY <1>1, <2>1
  <1>3. \A m \in 0 .. n : (\A k \in m + 1 .. n : k \in T) => m \in T
    <2>1. ASSUME NEW m \in 0 .. n, \A k \in m + 1 .. n : k \in T PROVE m \in T
      <3>1. \A k \in m + 1 .. n : I[k] \in V
        BY <2>1
      <3>2. InstancesStep(bytes, I, m) \in V
        BY <3>1, InstancesTyped
      <3> HIDE DEF V, n
      <3>3. I[m] = InstancesStep(bytes, I, m)
        BY <1>1
      <3> QED
        BY <3>2, <3>3
    <2> HIDE DEF T
    <2> QED
      BY <2>1
  <1>4. \A m \in 0 .. n : m \in T
    <2> HIDE DEF T
    <2> QED
      BY <1>0, <1>3, BackwardInduction, Zenon
  <1>5. I[o] \in V
    BY <1>4
  <1>6. I[o] = IF ~NodeFits(bytes, o) \/ KindAt(bytes, o) = <<>> THEN <<>>
               ELSE InstancesWith(ParsedAt(bytes, o), o + NodeLength(bytes, o),
                                  I[o + NodeLength(bytes, o)], Len(bytes))
    BY <1>2, InstancesStepIs
  <1> QED
    BY <1>5, <1>6 DEF I

\* Those of a whole path.
LEMMA PathTyped ==
  ASSUME NEW bytes \in Seq(Byte)
  PROVE  ParseDevicePath(bytes) \in InstancesOver(ParsedNodes(bytes))
  <1>1. 0 \in 0 .. Len(bytes)
    BY LenProperties
  <1>2. Instances(bytes)[0] \in InstancesOver(ParsedNodes(bytes))
    BY <1>1, InstancesAt
  <1> QED
    BY <1>2, InstancesRead
-----------------------------------------------------------------------------
(* load_option.rs: the paths of the list. *)

From(bytes, o) == SubSeq(bytes, o + 1, Len(bytes))
PathAt(bytes, o, l) == SubSeq(From(bytes, o), 1, l)

PathsStep(bytes, g, offset) ==
  IF offset = Len(bytes) THEN << <<>> >>
  ELSE Then(FirstPathLength(From(bytes, offset)),
            LAMBDA length : Then(ParseDevicePath(PathAt(bytes, offset, length)),
                 LAMBDA instances : Then(g[offset + length], LAMBDA rest : << instances \o rest >>)))
Paths(bytes) == CHOOSE g : g = [offset \in 0 .. Len(bytes) |-> PathsStep(bytes, g, offset)]

\* ParsePaths is the function on offsets, at the first of them.
LEMMA PathsRead ==
  ASSUME NEW bytes
  PROVE  ParsePaths(bytes) = Paths(bytes)[0]
  BY Zenon DEF ParsePaths, Paths, PathsStep, From, PathAt

PathsWith(first, instances, rest) ==
  IF first = <<>> \/ instances = <<>> \/ rest = <<>> THEN <<>> ELSE << instances[1] \o rest[1] >>

\* A step, said of the path it reads.
LEMMA PathsStepIs ==
  ASSUME NEW bytes, NEW o, NEW g
  PROVE  LET first == FirstPathLength(From(bytes, o))
         IN  PathsStep(bytes, g, o) =
               IF o = Len(bytes) THEN << <<>> >>
               ELSE PathsWith(first, ParseDevicePath(PathAt(bytes, o, first[1])), g[o + first[1]])
  BY DEF PathsStep, PathsWith, Then

PathNodes(bytes) ==
  UNION {ParsedNodes(PathAt(bytes, ol[1], ol[2])) : ol \in (0 .. Len(bytes)) \X (0 .. Len(bytes))}
PathsOver(X) == {<<>>} \union {<<is>> : is \in Seq(Seq(X))}

\* What the loop reads next.
LEMMA PathsNext ==
  ASSUME NEW bytes \in Seq(Byte), NEW o \in 0 .. Len(bytes), FirstPathLength(From(bytes, o)) # <<>>
  PROVE  LET l == FirstPathLength(From(bytes, o))[1]
         IN  /\ l \in 0 .. Len(bytes) /\ o + l \in o + 4 .. Len(bytes)
             /\ FirstPathLength(From(bytes, o)) = <<l>>
             /\ From(bytes, o) \in Seq(Byte) /\ Len(From(bytes, o)) = Len(bytes) - o
             /\ PathAt(bytes, o, l) \in Seq(Byte)
  <1> DEFINE n == Len(bytes)
             s == From(bytes, o)
             f == FirstPathLength(s)
             l == f[1]
  <1>0. n \in Nat /\ o \in Nat
    BY LenProperties
  <1>1. s \in Seq(Byte) /\ Len(s) = n - o
    <2>1. s \in Seq(Byte) /\ Len(s) = IF o + 1 <= n THEN n - (o + 1) + 1 ELSE 0
      BY <1>0, Slice DEF From
    <2> HIDE DEF s, n
    <2>2. o \in 0 .. n
      BY DEF n
    <2> QED
      BY <2>1, <2>2, <1>0
  <1> HIDE DEF s
  <1>2. f \in LengthResults(Len(s))
    BY <1>1, FirstPathLengthRange
  <1>3. f # <<>>
    BY DEF s
  <1> HIDE DEF f, n
  <1>4. l \in 4 .. Len(s) /\ f = <<l>>
    BY <1>2, <1>3 DEF LengthResults
  <1> HIDE DEF l
  <1>5. o \in 0 .. n
    BY DEF n
  <1>6. l \in 0 .. n /\ o + l \in o + 4 .. n
    BY <1>0, <1>1, <1>4, <1>5
  <1>7. SubSeq(s, 1, l) \in Seq(Byte)
    BY <1>1, <1>4, Slice
  <1>8. PathAt(bytes, o, l) \in Seq(Byte)
    BY <1>7 DEF PathAt, s
  <1> QED
    BY <1>1, <1>4, <1>6, <1>8 DEF l, f, s, n

\* What a step gives, from results at greater offsets. It is not the empty
\* list but at the end.
LEMMA PathsTyped ==
  ASSUME NEW bytes \in Seq(Byte), NEW g, NEW o \in 0 .. Len(bytes),
         \A k \in o + 1 .. Len(bytes) : g[k] \in PathsOver(PathNodes(bytes))
  PROVE  /\ PathsStep(bytes, g, o) \in PathsOver(PathNodes(bytes))
         /\ o # Len(bytes) => PathsStep(bytes, g, o) # << <<>> >>
  <1> DEFINE n == Len(bytes)
             X == PathNodes(bytes)
             f == FirstPathLength(From(bytes, o))
             l == f[1]
             i == ParseDevicePath(PathAt(bytes, o, l))
             r == g[o + l]
  <1>1. CASE o = n
    <2>1. <<>> \in Seq(Seq(X))
      BY EmptySeq
    <2> HIDE DEF X
    <2>2. << <<>> >> \in PathsOver(X)
      BY <2>1 DEF PathsOver
    <2> QED
      BY <1>1, <2>2 DEF PathsStep, X
  <1>2. CASE o # n
    <2>1. PathsStep(bytes, g, o) = PathsWith(f, i, r)
      BY <1>2, PathsStepIs
    <2>2. CASE f = <<>>
      BY <2>1, <2>2 DEF PathsWith, PathsOver
    <2>3. CASE f # <<>>
      <3>1. l \in 0 .. n /\ o + l \in o + 4 .. n /\ PathAt(bytes, o, l) \in Seq(Byte)
        BY <2>3, PathsNext
      <3>2. o + l \in o + 1 .. n
        <4>1. n \in Nat /\ o \in Nat
          BY LenProperties
        <4> HIDE DEF l, n
        <4> QED
          BY <3>1, <4>1
      <3>3. r \in PathsOver(X)
        BY <3>2
      <3> DEFINE Y == ParsedNodes(PathAt(bytes, o, l))
      <3>4. i \in InstancesOver(Y)
        BY <3>1, PathTyped
      <3>5. Y \subseteq X
        <4> DEFINE ol == <<o, l>>
        <4>1. ol \in (0 .. n) \X (0 .. n) /\ ol[1] = o /\ ol[2] = l
          <5> HIDE DEF l, n
          <5>1. o \in 0 .. n
            BY DEF n
          <5> QED
            BY <3>1, <5>1
        <4> HIDE DEF ol
        <4>2. Y = ParsedNodes(PathAt(bytes, ol[1], ol[2]))
          BY <4>1
        <4> QED
          BY <4>1, <4>2, Zenon DEF PathNodes
      <3> HIDE DEF X, Y, i, r, f, n
      <3>6. CASE i = <<>> \/ r = <<>>
        <4>1. PathsWith(f, i, r) = <<>>
          BY <3>6 DEF PathsWith
        <4>2. <<>> \in PathsOver(X)
          BY DEF PathsOver
        <4> QED
          BY <2>1, <4>1, <4>2 DEF X
      <3>7. CASE i # <<>> /\ r # <<>>
        <4> DEFINE is == i[1]
                   rs == r[1]
        <4>1. is \in Seq(Seq(Y)) /\ is # <<>>
          BY <3>4, <3>7 DEF InstancesOver
        <4>2. rs \in Seq(Seq(X))
          BY <3>3, <3>7 DEF PathsOver
        <4> HIDE DEF is, rs
        <4>3. is \in Seq(Seq(X))
          <5>1. \A s \in Seq(Y) : s \in Seq(X)
            BY <3>5, SeqMonotonic
          <5>2. Seq(Y) \subseteq Seq(X)
            BY <5>1
          <5> QED
            BY <4>1, <5>2, SeqMonotonic
        <4>4. Len(is) \in Nat \ {0}
          BY <4>1, EmptySeq
        <4>5. is \in Seq(Seq(X)) /\ rs \in Seq(Seq(X))
          BY <4>2, <4>3
        <4> DEFINE c == is \o rs
        <4>6. c \in Seq(Seq(X)) /\ Len(c) = Len(is) + Len(rs)
          BY <4>5, ConcatProperties
        <4> HIDE DEF c
        <4>7. c # <<>>
          BY <4>2, <4>4, <4>6, LenProperties, EmptySeq
        <4>8. <<c>> \in PathsOver(X) /\ <<c>> # << <<>> >>
          BY <4>6, <4>7 DEF PathsOver
        <4> QED
          BY <2>1, <2>3, <3>7, <4>8 DEF PathsWith, c, is, rs, X
      <3> QED
        BY <3>6, <3>7
    <2> QED
      BY <2>2, <2>3
  <1> QED
    BY <1>1, <1>2

\* A step looks at greater offsets only.
LEMMA PathsLocal ==
  ASSUME NEW bytes \in Seq(Byte), NEW g, NEW h, NEW o \in 0 .. Len(bytes),
         \A k \in o + 1 .. Len(bytes) : g[k] = h[k]
  PROVE  PathsStep(bytes, g, o) = PathsStep(bytes, h, o)
  <1> DEFINE n == Len(bytes)
             f == FirstPathLength(From(bytes, o))
             l == f[1]
  <1>1. CASE f = <<>>
    BY <1>1 DEF PathsStep, Then
  <1>2. CASE f # <<>>
    <2>1. o + l \in o + 4 .. n
      BY <1>2, PathsNext
    <2>2. o + l \in o + 1 .. n
      <3>1. n \in Nat /\ o \in Nat
        BY LenProperties
      <3> HIDE DEF l, n
      <3> QED
        BY <2>1, <3>1
    <2>3. g[o + l] = h[o + l]
      BY <2>2
    <2> HIDE DEF f
    <2> QED
      BY <2>3, PathsStepIs DEF f
  <1> QED
    BY <1>1, <1>2

\* The recursion has a solution.
LEMMA PathsUnroll ==
  ASSUME NEW bytes \in Seq(Byte)
  PROVE  Paths(bytes) = [offset \in 0 .. Len(bytes) |-> PathsStep(bytes, Paths(bytes), offset)]
  <1> DEFINE n == Len(bytes)
             V == PathsOver(PathNodes(bytes))
             F == [o \in 0 .. n |-> [g \in [0 .. n -> V] |-> PathsStep(bytes, g, o)]]
  <1>1. n \in Nat /\ <<>> \in V
    BY LenProperties DEF PathsOver
  <1>2. ASSUME NEW o \in 0 .. n, NEW g \in [0 .. n -> V] PROVE PathsStep(bytes, g, o) \in V
    <2>1. \A k \in o + 1 .. n : g[k] \in V
      BY <1>1
    <2> QED
      BY <2>1, PathsTyped
  <1>3. ASSUME NEW o \in 0 .. n, NEW g, NEW h, \A k \in o + 1 .. n : g[k] = h[k]
        PROVE  PathsStep(bytes, g, o) = PathsStep(bytes, h, o)
    BY <1>3, PathsLocal
  <1> HIDE DEF n, V
  <1>4. F \in [0 .. n -> [[0 .. n -> V] -> V]]
    BY <1>2
  <1>5. \A o \in 0 .. n : \A g, h \in [0 .. n -> V] :
            (\A k \in o + 1 .. n : g[k] = h[k]) => F[o][g] = F[o][h]
    BY <1>3
  <1> HIDE DEF F
  <1>6. \E g \in [0 .. n -> V] : \A o \in 0 .. n : g[o] = F[o][g]
    <2>1. Recursive(n, V)
      BY <1>1, Recursion
    <2> QED
      BY <1>4, <1>5, <2>1, Zenon DEF Recursive
  <1>7. PICK g \in [0 .. n -> V] : \A o \in 0 .. n : g[o] = F[o][g]
    BY <1>6
  <1>8. g = [o \in 0 .. n |-> PathsStep(bytes, g, o)]
    BY <1>7 DEF F
  <1> QED
    BY <1>8, Zenon DEF n, Paths

\* The paths from an offset on.
LEMMA PathsAt ==
  ASSUME NEW bytes \in Seq(Byte), NEW o \in 0 .. Len(bytes)
  PROVE  /\ Paths(bytes)[o] = PathsStep(bytes, Paths(bytes), o)
         /\ Paths(bytes)[o] \in PathsOver(PathNodes(bytes))
         /\ o # Len(bytes) => Paths(bytes)[o] # << <<>> >>
  <1> DEFINE I == Paths(bytes)
             n == Len(bytes)
             V == PathsOver(PathNodes(bytes))
             T == {k \in 0 .. n : I[k] \in V}
  <1>0. n \in Nat
    BY LenProperties
  <1>1. I = [offset \in 0 .. n |-> PathsStep(bytes, I, offset)]
    BY PathsUnroll, Zenon
  <1> HIDE DEF I
  <1>2. I[o] = PathsStep(bytes, I, o)
    <2>1. o \in 0 .. n /\ o \in Nat
      BY <1>0
    <2> HIDE DEF n
    <2> QED
      BY <1>1, <2>1
  <1>3. \A m \in 0 .. n : (\A k \in m + 1 .. n : k \in T) => m \in T
    <2>1. ASSUME NEW m \in 0 .. n, \A k \in m + 1 .. n : k \in T PROVE m \in T
      <3>1. \A k \in m + 1 .. n : I[k] \in V
        BY <2>1
      <3>2. PathsStep(bytes, I, m) \in V
        BY <3>1, PathsTyped
      <3> HIDE DEF V, n
      <3>3. I[m] = PathsStep(bytes, I, m)
        BY <1>1
      <3> QED
        BY <3>2, <3>3
    <2> HIDE DEF T
    <2> QED
      BY <2>1
  <1>4. \A m \in 0 .. n : m \in T
    <2> HIDE DEF T
    <2> QED
      BY <1>0, <1>3, BackwardInduction, Zenon
  <1>5. I[o] \in V
    BY <1>4
  <1>6. o # n => I[o] # << <<>> >>
    <2>1. \A k \in o + 1 .. n : I[k] \in V
      BY <1>0, <1>4
    <2>2. o # n => PathsStep(bytes, I, o) # << <<>> >>
      BY <2>1, PathsTyped
    <2> QED
      BY <2>2, <1>2
  <1> QED
    BY <1>2, <1>5, <1>6 DEF I

\* A list with one instance is one path and has nothing after it.
LEMMA OneInstance ==
  ASSUME NEW bytes \in Seq(Byte), NEW is, ParsePaths(bytes) = <<is>>, Len(is) = 1
  PROVE  ParseDevicePath(bytes) = <<is>>
  <1> DEFINE n == Len(bytes)
             P == Paths(bytes)
             f == FirstPathLength(From(bytes, 0))
             l == f[1]
             i == ParseDevicePath(PathAt(bytes, 0, l))
             r == P[0 + l]
             X == PathNodes(bytes)
  <1>0. n \in Nat /\ 0 \in 0 .. n
    BY LenProperties
  <1>1. P[0] = <<is>>
    BY PathsRead
  <1>2. 0 # n
    <2>1. ASSUME 0 = n PROVE FALSE
      <3>1. P[0] = << <<>> >>
        BY <1>0, <2>1, PathsAt DEF PathsStep
      <3> HIDE DEF P
      <3>2. is = <<>>
        BY <3>1, <1>1
      <3> QED
        BY <3>2, EmptySeq
    <2> QED
      BY <2>1
  <1>3. P[0] = PathsWith(f, i, r)
    BY <1>0, <1>2, PathsAt, PathsStepIs
  <1>4. f # <<>> /\ i # <<>> /\ r # <<>> /\ is = i[1] \o r[1]
    <2> HIDE DEF P, f, i, r
    <2>1. PathsWith(f, i, r) = <<is>>
      BY <1>1, <1>3
    <2>2. ~(f = <<>> \/ i = <<>> \/ r = <<>>)
      BY <2>1 DEF PathsWith
    <2> DEFINE c == i[1] \o r[1]
    <2>3. PathsWith(f, i, r) = <<c>>
      BY <2>2 DEF PathsWith
    <2> HIDE DEF c
    <2>4. is = c
      BY <2>1, <2>3
    <2> QED
      BY <2>2, <2>4 DEF c
  <1>5. /\ l \in 0 .. n /\ 0 + l \in 0 + 4 .. n /\ PathAt(bytes, 0, l) \in Seq(Byte)
    BY <1>0, <1>4, PathsNext
  <1>6. i \in InstancesOver(ParsedNodes(PathAt(bytes, 0, l)))
    BY <1>5, PathTyped
  <1>7. /\ r \in PathsOver(X)
        /\ 0 + l # n => r # << <<>> >>
    <2>1. 0 + l \in 0 .. n
      BY <1>5, <1>0
    <2> QED
      BY <2>1, PathsAt
  <1> DEFINE Y == ParsedNodes(PathAt(bytes, 0, l))
             Z == X \union Y
  <1>b. i \in InstancesOver(Y)
    BY <1>6
  <1> HIDE DEF P, X, Y, i, r, f, n
  <1>8. i = <<i[1]>> /\ i[1] \in Seq(Seq(Y)) /\ i[1] # <<>>
    <2>1. PICK ii \in Seq(Seq(Y)) \ {<<>>} : i = <<ii>>
      BY <1>4, <1>b DEF InstancesOver
    <2> QED
      BY <2>1
  <1>9. r = <<r[1]>> /\ r[1] \in Seq(Seq(X))
    <2>1. PICK rr \in Seq(Seq(X)) : r = <<rr>>
      BY <1>4, <1>7 DEF PathsOver
    <2> QED
      BY <2>1
  <1>10. i[1] \in Seq(Seq(Z)) /\ r[1] \in Seq(Seq(Z))
    <2>1. \A s \in Seq(Y) : s \in Seq(Z)
      BY SeqMonotonic
    <2>2. \A s \in Seq(X) : s \in Seq(Z)
      BY SeqMonotonic
    <2>3. Seq(Y) \subseteq Seq(Z) /\ Seq(X) \subseteq Seq(Z)
      BY <2>1, <2>2
    <2>4. i[1] \in Seq(Seq(Z))
      BY <1>8, <2>3, SeqMonotonic
    <2>5. r[1] \in Seq(Seq(Z))
      BY <1>9, <2>3, SeqMonotonic
    <2> QED
      BY <2>4, <2>5
  <1> HIDE DEF Z
  <1>11. Len(i[1]) \in Nat \ {0} /\ Len(r[1]) \in Nat
    BY <1>8, <1>9, <1>10, EmptySeq, LenProperties
  <1>12. Len(is) = Len(i[1]) + Len(r[1])
    <2>1. Len(i[1] \o r[1]) = Len(i[1]) + Len(r[1])
      <3> DEFINE a == i[1]
                 b == r[1]
      <3>1. a \in Seq(Seq(Z)) /\ b \in Seq(Seq(Z))
        BY <1>10
      <3> HIDE DEF a, b
      <3>2. Len(a \o b) = Len(a) + Len(b)
        BY <3>1, ConcatProperties
      <3> QED
        BY <3>2 DEF a, b
    <2> QED
      BY <2>1, <1>4
  <1>13. r[1] = <<>>
    <2>1. Len(r[1]) = 0
      <3> DEFINE a == Len(i[1])
                 b == Len(r[1])
      <3>1. a \in Nat \ {0} /\ b \in Nat /\ 1 = a + b
        BY <1>11, <1>12
      <3> HIDE DEF a, b
      <3>2. b = 0
        BY <3>1
      <3> QED
        BY <3>2 DEF b
    <2>2. \A s \in Seq(Seq(X)) : s # <<>> => Len(s) \in Nat \ {0}
      BY EmptySeq
    <2> QED
      BY <1>9, <2>1, <2>2
  <1>14. 0 + l = n
    BY <1>7, <1>9, <1>13
  <1>15. is = i[1]
    BY <1>4, <1>10, <1>13, ConcatEmptySeq
  <1>16. PathAt(bytes, 0, l) = bytes
    <2>1. l = n
      BY <1>14, <1>5
    <2>2. From(bytes, 0) = bytes
      BY SubSeqFull DEF From
    <2> QED
      BY <2>1, <2>2, SubSeqFull DEF PathAt, n
  <1> QED
    BY <1>8, <1>15, <1>16 DEF i

\* A list that is one path is read as its instances.
LEMMA WholePath ==
  ASSUME NEW bytes \in Seq(Byte), NEW is, Len(bytes) # 0,
         FirstPathLength(bytes) = <<Len(bytes)>>, ParseDevicePath(bytes) = <<is>>
  PROVE  ParsePaths(bytes) = <<is>>
  <1> DEFINE n == Len(bytes)
             P == Paths(bytes)
             f == FirstPathLength(From(bytes, 0))
             l == f[1]
             i == ParseDevicePath(PathAt(bytes, 0, l))
             r == P[0 + l]
  <1>0. n \in Nat /\ 0 \in 0 .. n /\ n \in 0 .. n
    BY LenProperties
  <1>1. From(bytes, 0) = bytes
    BY SubSeqFull DEF From
  <1>2. f = <<n>> /\ l = n
    BY <1>1
  <1>3. PathAt(bytes, 0, l) = bytes
    BY <1>1, <1>2, SubSeqFull DEF PathAt
  <1>4. i = <<is>>
    BY <1>3
  <1>5. P[n] = << <<>> >>
    BY <1>0, PathsAt DEF PathsStep
  <1>6. 0 + l = n
    BY <1>0, <1>2
  <1>7. r = << <<>> >>
    BY <1>5, <1>6
  <1>8. P[0] = PathsWith(f, i, r)
    BY <1>0, PathsAt, PathsStepIs
  <1>9. is \o <<>> = is
    <2> DEFINE X == ParsedNodes(bytes)
    <2>1. <<is>> \in InstancesOver(X)
      BY PathTyped
    <2> HIDE DEF X
    <2>2. is \in Seq(Seq(X))
      BY <2>1 DEF InstancesOver
    <2> QED
      BY <2>2, ConcatEmptySeq
  <1> HIDE DEF f, i, r, P
  <1>10. P[0] = << is \o <<>> >>
    BY <1>2, <1>4, <1>7, <1>8 DEF PathsWith
  <1> QED
    BY <1>9, <1>10, PathsRead DEF P

-----------------------------------------------------------------------------
(* A path of three nodes. *)

IsKind(bytes, o, kind) ==
  NodeFits(bytes, o) /\ KindAt(bytes, o) # <<>> /\ ParsedAt(bytes, o).kind = kind

\* What the first of the nodes read from an offset says of those after it.
GoesOn(bytes, next, nodes) ==
  \E rest : /\ Instances(bytes)[next] = <<rest>>
            /\ Len(nodes) = 1 + Len(rest[1]) /\ Len(rest[1]) \in Nat
            /\ \A j \in 1 .. Len(rest[1]) : nodes[1 + j] = rest[1][j]

\* The first node of what is read from an offset, and what follows it.
LEMMA FirstNode ==
  ASSUME NEW bytes \in Seq(Byte), NEW o \in 0 .. Len(bytes), NEW is,
         Instances(bytes)[o] = <<is>>
  PROVE  LET p == ParsedAt(bytes, o)
             next == o + NodeLength(bytes, o)
         IN  /\ NodeFits(bytes, o) /\ KindAt(bytes, o) # <<>> /\ next \in 0 .. Len(bytes)
             /\ p.node.length = NodeLength(bytes, o)
             /\ is[1][1] = p
             /\ p.kind = "EndEntire" => next = Len(bytes) /\ is = << <<p>> >>
             /\ p.kind = "EndInstance" => Len(is[1]) = 1
             /\ p.kind \notin {"EndEntire", "EndInstance"} => GoesOn(bytes, next, is[1])
  <1> DEFINE n == Len(bytes)
             p == ParsedAt(bytes, o)
             next == o + NodeLength(bytes, o)
             r == Instances(bytes)[next]
             X == ParsedNodes(bytes)
  <1>0. n \in Nat /\ o \in Nat
    BY LenProperties
  <1>1. NodeFits(bytes, o) /\ KindAt(bytes, o) # <<>> /\ <<is>> = InstancesWith(p, next, r, n)
    <2> DEFINE i == Instances(bytes)[o]
               w == InstancesWith(p, next, r, n)
    <2>1. i = IF ~NodeFits(bytes, o) \/ KindAt(bytes, o) = <<>> THEN <<>> ELSE w
      BY InstancesAt
    <2>2. i = <<is>>
      OBVIOUS
    <2> HIDE DEF i, w
    <2>3. NodeFits(bytes, o) /\ KindAt(bytes, o) # <<>> /\ <<is>> = w
      <3>1. i # <<>>
        BY <2>2
      <3>2. ~(~NodeFits(bytes, o) \/ KindAt(bytes, o) = <<>>)
        BY <2>1, <3>1
      <3> QED
        BY <2>1, <2>2, <3>2
    <2> QED
      BY <2>3, Zenon DEF w
  <1>2. next \in 0 .. n
    <2>1. next \in o + 4 .. n
      BY <1>0, <1>1, NodeLengthRange
    <2> HIDE DEF next, n
    <2> QED
      BY <1>0, <2>1
  <1>3. r \in InstancesOver(X)
    BY <1>2, InstancesAt
  <1>4. p \in X
    BY DEF ParsedNodes
  <1>5. p.node.length = NodeLength(bytes, o)
    <2> DEFINE node == NodeAt(bytes, o)
    <2>1. p.node = node
      BY <1>1, NodeKind DEF ParsedAt
    <2>2. node.length = NodeLength(bytes, o)
      BY DEF NodeAt
    <2> HIDE DEF node
    <2> QED
      BY <2>1, <2>2
  <1> HIDE DEF p, next, r, n, X
  <1>6. CASE p.kind = "EndEntire"
    <2>1. next = n /\ is = << <<p>> >>
      BY <1>1, <1>6 DEF InstancesWith
    <2>2. is[1][1] = p
      BY <2>1
    <2> QED
      BY <1>1, <1>2, <1>5, <1>6, <2>1, <2>2 DEF p, next, n
  <1>7. CASE p.kind # "EndEntire"
    <2>1. r # <<>>
      BY <1>1, <1>7 DEF InstancesWith
    <2>2. PICK rest \in Seq(Seq(X)) \ {<<>>} : r = <<rest>>
      BY <1>3, <2>1 DEF InstancesOver
    <2>3. CASE p.kind = "EndInstance"
      <3> DEFINE y == << <<p>> >>
                 c == y \o rest
      <3>1. is = c
        <4> HIDE DEF y
        <4>1. InstancesWith(p, next, r, n) = <<c>>
          BY <2>2, <2>3 DEF InstancesWith, y
        <4> HIDE DEF c
        <4> QED
          BY <4>1, <1>1
      <3>2. y \in Seq(Seq(X)) /\ Len(y) = 1 /\ y[1] = <<p>>
        BY <1>4
      <3> HIDE DEF y
      <3>3. y \in Seq(Seq(X)) /\ rest \in Seq(Seq(X))
        BY <3>2
      <3>4. \A i \in 1 .. Len(y) + Len(rest) : c[i] = IF i <= Len(y) THEN y[i] ELSE rest[i - Len(y)]
        BY <3>3, ConcatProperties
      <3>5. Len(rest) \in Nat
        BY LenProperties
      <3> HIDE DEF c
      <3>a. c[1] = y[1]
        <4>1. 1 \in 1 .. Len(y) + Len(rest) /\ 1 <= Len(y)
          BY <3>2, <3>5
        <4> QED
          BY <3>4, <4>1
      <3>6. is[1] = <<p>>
        BY <3>1, <3>2, <3>a
      <3>7. is[1][1] = p /\ Len(is[1]) = 1
        BY <3>6
      <3> QED
        BY <1>1, <1>2, <1>5, <1>7, <2>3, <3>7 DEF p, next, n
    <2>4. CASE p.kind # "EndInstance"
      <3>1. rest[1] \in Seq(X) /\ Len(rest) \in Nat \ {0}
        <4>1. Len(rest) \in Nat \ {0}
          BY EmptySeq
        <4>2. 1 \in 1 .. Len(rest)
          BY <4>1
        <4> QED
          BY <4>1, <4>2, ElementOfSeq
      <3> DEFINE y == <<p>>
                 c == y \o rest[1]
                 z == <<c>>
                 t == Tail(rest)
                 d == z \o t
      <3>2. is = d
        <4>1. InstancesWith(p, next, r, n) = <<d>>
          <5> HIDE DEF t
          <5> QED
            BY <1>7, <2>2, <2>4 DEF InstancesWith, t
        <4> HIDE DEF d
        <4> QED
          BY <4>1, <1>1
      <3>3. y \in Seq(X) /\ Len(y) = 1 /\ y[1] = p
        BY <1>4
      <3> HIDE DEF y
      <3>4. y \in Seq(X) /\ rest[1] \in Seq(X)
        BY <3>1, <3>3
      <3> DEFINE m == Len(rest[1])
      <3>5. /\ c \in Seq(X) /\ Len(c) = Len(y) + m
            /\ \A i \in 1 .. Len(y) + m : c[i] = IF i <= Len(y) THEN y[i] ELSE rest[1][i - Len(y)]
        BY <3>4, ConcatProperties
      <3>6. m \in Nat
        BY <3>1, LenProperties
      <3> HIDE DEF c, m
      <3>7. /\ c \in Seq(X) /\ Len(c) = 1 + m /\ c[1] = p
            /\ \A j \in 1 .. m : c[1 + j] = rest[1][j]
        BY <3>3, <3>5, <3>6
      <3>8. z \in Seq(Seq(X)) /\ Len(z) = 1 /\ z[1] = c
        BY <3>7
      <3>9. t \in Seq(Seq(X)) /\ Len(t) \in Nat
        <4>1. t \in Seq(Seq(X))
          BY HeadTailProperties
        <4> HIDE DEF t
        <4> QED
          BY <4>1, LenProperties
      <3> HIDE DEF z, t
      <3>10. z \in Seq(Seq(X)) /\ t \in Seq(Seq(X))
        BY <3>8, <3>9
      <3>11. \A i \in 1 .. Len(z) + Len(t) : d[i] = IF i <= Len(z) THEN z[i] ELSE t[i - Len(z)]
        BY <3>10, ConcatProperties
      <3> HIDE DEF d
      <3>12. is[1] = c
        <4>1. 1 \in 1 .. Len(z) + Len(t) /\ 1 <= Len(z)
          BY <3>8, <3>9
        <4>2. d[1] = z[1]
          BY <3>11, <4>1, Zenon
        <4> QED
          BY <3>2, <3>8, <4>2, Zenon
      <3>13. /\ is[1][1] = p /\ Len(is[1]) = 1 + m /\ m \in Nat
             /\ \A j \in 1 .. m : is[1][1 + j] = rest[1][j]
        BY <3>6, <3>7, <3>12
      <3> QED
        BY <1>1, <1>2, <1>5, <1>7, <2>2, <2>4, <3>13 DEF p, next, n, m, r, GoesOn
    <2> QED
      BY <2>3, <2>4
  <1> QED
    BY <1>6, <1>7

ThreeNodes(bytes) ==
  << << ParsedAt(bytes, 0), ParsedAt(bytes, 42), ParsedAt(bytes, 42 + NodeLength(bytes, 42)) >> >>

IsThreeNodes(bytes) ==
  LET l == NodeLength(bytes, 42)
  IN  /\ IsKind(bytes, 0, "HardDrive") /\ NodeLength(bytes, 0) = 42
      /\ IsKind(bytes, 42, "FilePath")
      /\ IsKind(bytes, 42 + l, "EndEntire") /\ 42 + l + NodeLength(bytes, 42 + l) = Len(bytes)

\* A list read as one path of three nodes, a drive, a file and an end, has
\* them one after the other and nothing else.
LEMMA ThreeNodesRead ==
  ASSUME NEW bytes \in Seq(Byte), NEW is, ParsePaths(bytes) = <<is>>, Len(is) = 1, Len(is[1]) = 3,
         is[1][1].kind = "HardDrive", is[1][1].node.length = 42,
         is[1][2].kind = "FilePath", is[1][3].kind = "EndEntire"
  PROVE  /\ IsThreeNodes(bytes)
         /\ is[1][1] = ParsedAt(bytes, 0) /\ is[1][2] = ParsedAt(bytes, 42)
         /\ is[1][3] = ParsedAt(bytes, 42 + NodeLength(bytes, 42))
  <1> DEFINE n == Len(bytes)
             I == Instances(bytes)
             l == NodeLength(bytes, 42)
             p == ParsedAt(bytes, 0)
             q == ParsedAt(bytes, 42)
             s == ParsedAt(bytes, 42 + l)
  <1>0. n \in Nat /\ 0 \in 0 .. n
    BY LenProperties
  <1>1. I[0] = <<is>>
    BY OneInstance, InstancesRead
  <1>2. /\ NodeFits(bytes, 0) /\ KindAt(bytes, 0) # <<>> /\ 0 + NodeLength(bytes, 0) \in 0 .. n
        /\ p.node.length = NodeLength(bytes, 0)
        /\ is[1][1] = p
        /\ p.kind \notin {"EndEntire", "EndInstance"} => GoesOn(bytes, 0 + NodeLength(bytes, 0), is[1])
    BY <1>0, <1>1, FirstNode
  <1>3. NodeLength(bytes, 0) = 42 /\ p.kind = "HardDrive" /\ 0 + NodeLength(bytes, 0) = 42
    BY <1>2
  <1>4. PICK rest : /\ I[42] = <<rest>>
                    /\ Len(is[1]) = 1 + Len(rest[1]) /\ Len(rest[1]) \in Nat
                    /\ \A j \in 1 .. Len(rest[1]) : is[1][1 + j] = rest[1][j]
    BY <1>2, <1>3 DEF GoesOn
  <1>5. Len(rest[1]) = 2 /\ rest[1][1] = is[1][2] /\ rest[1][2] = is[1][3]
    <2>1. Len(rest[1]) = 2
      <3> DEFINE m == Len(rest[1])
      <3>1. m \in Nat /\ 3 = 1 + m
        BY <1>4
      <3> HIDE DEF m
      <3>2. m = 2
        BY <3>1
      <3> QED
        BY <3>2 DEF m
    <2>2. is[1][1 + 1] = rest[1][1] /\ is[1][1 + 2] = rest[1][2]
      BY <1>4, <2>1
    <2> QED
      BY <2>1, <2>2
  <1>6. 42 \in 0 .. n
    BY <1>2, <1>3
  <1>7. /\ NodeFits(bytes, 42) /\ KindAt(bytes, 42) # <<>> /\ 42 + l \in 0 .. n
        /\ rest[1][1] = q
        /\ q.kind \notin {"EndEntire", "EndInstance"} => GoesOn(bytes, 42 + l, rest[1])
    BY <1>4, <1>6, FirstNode
  <1>8. q.kind = "FilePath"
    BY <1>5, <1>7
  <1>9. PICK more : /\ I[42 + l] = <<more>>
                    /\ Len(rest[1]) = 1 + Len(more[1]) /\ Len(more[1]) \in Nat
                    /\ \A j \in 1 .. Len(more[1]) : rest[1][1 + j] = more[1][j]
    BY <1>7, <1>8 DEF GoesOn
  <1>10. more[1][1] = is[1][3]
    <2>1. Len(more[1]) = 1
      <3> DEFINE m == Len(more[1])
      <3>1. m \in Nat /\ 2 = 1 + m
        BY <1>5, <1>9
      <3> HIDE DEF m
      <3>2. m = 1
        BY <3>1
      <3> QED
        BY <3>2 DEF m
    <2>2. rest[1][1 + 1] = more[1][1]
      BY <1>9, <2>1
    <2> QED
      BY <2>2, <1>5
  <1>11. /\ NodeFits(bytes, 42 + l) /\ KindAt(bytes, 42 + l) # <<>>
         /\ more[1][1] = s
         /\ s.kind = "EndEntire" => 42 + l + NodeLength(bytes, 42 + l) = n
    BY <1>7, <1>9, FirstNode
  <1> QED
    BY <1>2, <1>3, <1>5, <1>7, <1>8, <1>10, <1>11 DEF IsThreeNodes, IsKind

\* Sequences of one, two and three, put together.
LEMMA Joined ==
  ASSUME NEW a, NEW b, NEW c
  PROVE  /\ <<a>> \o <<b>> = <<a, b>> /\ <<a>> \o <<b, c>> = <<a, b, c>>
         /\ <<a>> \o Tail(<<b>>) = <<a>>
  <1> DEFINE S == {a, b, c}
             x == <<a>>
             y == <<b>>
             z == <<b, c>>
             xy == <<a, b>>
             xz == <<a, b, c>>
  <1>1. /\ x \in Seq(S) /\ Len(x) = 1 /\ x[1] = a
        /\ y \in Seq(S) /\ Len(y) = 1 /\ y[1] = b
        /\ z \in Seq(S) /\ Len(z) = 2 /\ z[1] = b /\ z[2] = c
        /\ xy \in Seq(S) /\ Len(xy) = 2 /\ xy[1] = a /\ xy[2] = b
        /\ xz \in Seq(S) /\ Len(xz) = 3 /\ xz[1] = a /\ xz[2] = b /\ xz[3] = c
    OBVIOUS
  <1>2. Tail(y) = <<>>
    OBVIOUS
  <1> HIDE DEF S, x, y, z, xy, xz
  <1>3. x \o y = xy
    <2>1. x \in Seq(S) /\ y \in Seq(S)
      BY <1>1
    <2>2. /\ x \o y \in Seq(S) /\ Len(x \o y) = Len(x) + Len(y)
          /\ \A i \in 1 .. Len(x) + Len(y) : (x \o y)[i] = IF i <= Len(x) THEN x[i] ELSE y[i - Len(x)]
      BY <2>1, ConcatProperties
    <2> DEFINE u == x \o y
    <2>3. u \in Seq(S) /\ Len(u) = 2 /\ u[1] = a /\ u[2] = b
      BY <1>1, <2>2
    <2> HIDE DEF u
    <2>4. \A i \in 1 .. Len(u) : u[i] = xy[i]
      <3>1. \A i \in 1 .. 2 : i = 1 \/ i = 2
        OBVIOUS
      <3> QED
        BY <1>1, <2>3, <3>1
    <2>5. u \in Seq(S) /\ xy \in Seq(S) /\ Len(u) = Len(xy)
      BY <1>1, <2>3
    <2>6. u = xy
      BY <2>4, <2>5, SeqEqual
    <2> QED
      BY <2>6 DEF u
  <1>4. x \o z = xz
    <2>1. x \in Seq(S) /\ z \in Seq(S)
      BY <1>1
    <2>2. /\ x \o z \in Seq(S) /\ Len(x \o z) = Len(x) + Len(z)
          /\ \A i \in 1 .. Len(x) + Len(z) : (x \o z)[i] = IF i <= Len(x) THEN x[i] ELSE z[i - Len(x)]
      BY <2>1, ConcatProperties
    <2> DEFINE u == x \o z
    <2>3. u \in Seq(S) /\ Len(u) = 3 /\ u[1] = a /\ u[2] = b /\ u[3] = c
      BY <1>1, <2>2
    <2> HIDE DEF u
    <2>4. \A i \in 1 .. Len(u) : u[i] = xz[i]
      <3>1. \A i \in 1 .. 3 : i = 1 \/ i = 2 \/ i = 3
        OBVIOUS
      <3> QED
        BY <1>1, <2>3, <3>1
    <2>5. u \in Seq(S) /\ xz \in Seq(S) /\ Len(u) = Len(xz)
      BY <1>1, <2>3
    <2>6. u = xz
      BY <2>4, <2>5, SeqEqual
    <2> QED
      BY <2>6 DEF u
  <1>5. x \o Tail(y) = x
    <2>1. x \in Seq(S)
      BY <1>1
    <2> QED
      BY <2>1, <1>2, ConcatEmptySeq
  <1> QED
    BY <1>3, <1>4, <1>5 DEF x, y, z, xy, xz

Before(node, instances) == << <<node>> \o instances[1] >> \o Tail(instances)

\* A node that ends nothing goes before the first instance.
LEMMA InstancesBefore ==
  ASSUME NEW node, NEW next, NEW n, NEW r,
         node.kind # "EndEntire", node.kind # "EndInstance"
  PROVE  InstancesWith(node, next, <<r>>, n) = <<Before(node, r)>>
  <1>1. <<r>> # <<>> /\ <<r>>[1] = r
    OBVIOUS
  <1> QED
    BY <1>1 DEF InstancesWith, Before

\* A node before one or two.
LEMMA BeforeOne ==
  ASSUME NEW a, NEW b, NEW c
  PROVE  Before(a, << <<b>> >>) = << <<a, b>> >> /\ Before(a, << <<b, c>> >>) = << <<a, b, c>> >>
  <1>1. <<a>> \o <<b>> = <<a, b>> /\ <<a>> \o <<b, c>> = <<a, b, c>>
    BY Joined
  <1>2. \A x, y : <<x>> \o Tail(<<y>>) = <<x>>
    BY Joined
  <1> QED
    BY <1>1, <1>2 DEF Before

\* What is known of a node of each kind.
LEMMA KindSays ==
  ASSUME NEW bytes, NEW o, NEW kind, IsKind(bytes, o, kind)
  PROVE  LET p == ParsedAt(bytes, o)
             node == NodeAt(bytes, o)
         IN  /\ p = [node |-> node, kind |-> kind, says |-> p.says] /\ KindAt(bytes, o) = <<p>>
             /\ kind = "HardDrive" =>
                  /\ bytes[o + 1] = 4 /\ bytes[o + 2] = 1
                  /\ ParseHardDrive(NodeLength(bytes, o), node.payload) = <<p.says>>
             /\ kind = "FilePath" =>
                  /\ bytes[o + 1] = 4 /\ bytes[o + 2] = 4
                  /\ ParseFilePath(node.payload) = <<p.says>>
             /\ kind = "EndEntire" => bytes[o + 1] = 127 /\ bytes[o + 2] # 1 /\ p.says = <<>>
  <1> DEFINE p == ParsedAt(bytes, o)
             node == NodeAt(bytes, o)
             k == IF node.ends # "no" THEN node.ends
                  ELSE IF node.type = 4 /\ node.subtype = 1 THEN "HardDrive"
                  ELSE IF node.type = 4 /\ node.subtype = 4 THEN "FilePath" ELSE "Unknown"
             said == IF k = "HardDrive" THEN ParseHardDrive(node.length, node.payload)
                     ELSE IF k = "FilePath" THEN ParseFilePath(node.payload) ELSE << <<>> >>
             r == [node |-> node, kind |-> k, says |-> said[1]]
  <1>1. KindAt(bytes, o) = IF said = <<>> THEN <<>> ELSE <<r>>
    BY NodeKind
  <1>2. KindAt(bytes, o) # <<>> /\ p.kind = kind
    BY DEF IsKind
  <1>3. p = KindAt(bytes, o)[1]
    BY DEF ParsedAt
  <1>4. /\ node.type = bytes[o + 1] /\ node.subtype = bytes[o + 2] /\ node.length = NodeLength(bytes, o)
        /\ node.ends = IF bytes[o + 1] # 127 THEN "no"
                       ELSE IF bytes[o + 2] = 1 THEN "EndInstance" ELSE "EndEntire"
    BY DEF NodeAt
  <1> HIDE DEF p, node
  <1>5. k = "HardDrive" => node.type = 4 /\ node.subtype = 1
    BY <1>4
  <1>6. k = "FilePath" => node.type = 4 /\ node.subtype = 4
    BY <1>4
  <1>7. k = "EndEntire" => bytes[o + 1] = 127 /\ bytes[o + 2] # 1
    BY <1>4
  <1> HIDE DEF k
  <1>8. /\ k = "HardDrive" => said = ParseHardDrive(node.length, node.payload)
        /\ k = "FilePath" => said = ParseFilePath(node.payload)
        /\ k = "EndEntire" => said = << <<>> >>
    OBVIOUS
  <1>9. said = <<>> \/ said = <<said[1]>>
    BY DEF ParseHardDrive, ParseFilePath, When
  <1> HIDE DEF said
  <1>10. said # <<>> /\ KindAt(bytes, o) = <<r>> /\ p = r
    BY <1>1, <1>2, <1>3
  <1>11. p.says = said[1] /\ k = kind /\ p.node = node
    BY <1>2, <1>10
  <1>12. p = [node |-> node, kind |-> kind, says |-> p.says]
    BY <1>10, <1>11
  <1> HIDE DEF r
  <1>13. said = <<p.says>>
    BY <1>9, <1>10, <1>11
  <1>14. kind = "EndEntire" => p.says = <<>>
    BY <1>8, <1>11
  <1> QED
    BY <1>4, <1>5, <1>6, <1>7, <1>8, <1>10, <1>11, <1>12, <1>13, <1>14 DEF p, node

\* A list of the three nodes is read as one path of them.
LEMMA ThreeNodesParsed ==
  ASSUME NEW bytes \in Seq(Byte), IsThreeNodes(bytes)
  PROVE  ParsePaths(bytes) = <<ThreeNodes(bytes)>>
  <1> DEFINE n == Len(bytes)
             L == Lengths(bytes)
             I == Instances(bytes)
             l == NodeLength(bytes, 42)
             e == 42 + l
             p == ParsedAt(bytes, 0)
             q == ParsedAt(bytes, 42)
             s == ParsedAt(bytes, 42 + l)
  <1>0. n \in Nat /\ 0 \in 0 .. n
    BY LenProperties
  <1>1. /\ NodeFits(bytes, 0) /\ KindAt(bytes, 0) # <<>> /\ p.kind = "HardDrive" /\ NodeLength(bytes, 0) = 42
        /\ NodeFits(bytes, 42) /\ KindAt(bytes, 42) # <<>> /\ q.kind = "FilePath"
        /\ NodeFits(bytes, e) /\ KindAt(bytes, e) # <<>> /\ s.kind = "EndEntire"
        /\ e + NodeLength(bytes, e) = n
    BY DEF IsThreeNodes, IsKind
  <1>2. IsKind(bytes, 0, "HardDrive") /\ IsKind(bytes, 42, "FilePath") /\ IsKind(bytes, e, "EndEntire")
    BY DEF IsThreeNodes
  <1>3. bytes[0 + 1] = 4 /\ bytes[42 + 1] = 4 /\ bytes[e + 1] = 127 /\ bytes[e + 2] # 1
    BY <1>2, KindSays
  <1>4. /\ NodeAt(bytes, 0).ends = "no" /\ NodeAt(bytes, 42).ends = "no"
        /\ NodeAt(bytes, e).ends = "EndEntire"
    BY <1>3 DEF NodeAt
  <1>5. 42 \in 0 .. n /\ e \in 0 .. n
    <2>1. 0 + NodeLength(bytes, 0) \in 0 + 4 .. n
      BY <1>1, NodeLengthRange
    <2>2. 42 \in 0 .. n
      BY <2>1, <1>0, <1>1
    <2>3. 42 + l \in 42 + 4 .. n
      BY <1>1, NodeLengthRange
    <2> HIDE DEF l
    <2>4. e \in 0 .. n
      BY <2>3, <1>0
    <2> QED
      BY <2>2, <2>4
  <1>6. FirstPathLength(bytes) = <<n>>
    <2>1. L[e] = <<n>>
      BY <1>1, <1>4, <1>5, LengthAt
    <2>2. L[42] = L[e]
      BY <1>1, <1>4, <1>5, LengthAt
    <2>3. L[0] = L[0 + NodeLength(bytes, 0)]
      BY <1>0, <1>1, <1>4, LengthAt
    <2>4. 0 + NodeLength(bytes, 0) = 42
      BY <1>1
    <2> QED
      BY <2>1, <2>2, <2>3, <2>4, LengthRead
  <1>7. ParseDevicePath(bytes) = <<ThreeNodes(bytes)>>
    <2>1. I[e] = InstancesWith(s, e + NodeLength(bytes, e), I[e + NodeLength(bytes, e)], n)
      BY <1>1, <1>5, InstancesAt
    <2>2. I[e] = << << <<s>> >> >>
      <3> HIDE DEF I, s, n, e
      <3> QED
        BY <1>1, <2>1 DEF InstancesWith
    <2>3. I[42] = InstancesWith(q, e, I[e], n)
      BY <1>1, <1>5, InstancesAt
    <2>4. I[42] = << << <<q, s>> >> >>
      <3> DEFINE r == << <<s>> >>
      <3>1. I[e] = <<r>>
        BY <2>2
      <3>2. Before(q, r) = << <<q, s>> >>
        BY BeforeOne
      <3> HIDE DEF I, q, s, e, n, r
      <3>3. q.kind # "EndEntire" /\ q.kind # "EndInstance"
        BY <1>1
      <3>4. InstancesWith(q, e, <<r>>, n) = <<Before(q, r)>>
        BY <3>3, InstancesBefore
      <3> QED
        BY <2>3, <3>1, <3>2, <3>4
    <2>5. I[0] = InstancesWith(p, 0 + NodeLength(bytes, 0), I[0 + NodeLength(bytes, 0)], n)
      BY <1>0, <1>1, InstancesAt
    <2>6. I[0] = << << <<p, q, s>> >> >>
      <3> DEFINE r == << <<q, s>> >>
      <3>1. I[42] = <<r>>
        BY <2>4
      <3>2. Before(p, r) = << <<p, q, s>> >>
        BY BeforeOne
      <3>3. I[0] = InstancesWith(p, 42, I[42], n)
        <4>1. 0 + NodeLength(bytes, 0) = 42
          BY <1>1
        <4> QED
          BY <2>5, <4>1, Zenon
      <3> HIDE DEF I, p, q, s, e, n, r
      <3>4. p.kind # "EndEntire" /\ p.kind # "EndInstance"
        BY <1>1
      <3>5. InstancesWith(p, 42, <<r>>, n) = <<Before(p, r)>>
        BY <3>4, InstancesBefore
      <3> QED
        BY <3>1, <3>2, <3>3, <3>5
    <2> QED
      BY <2>6, InstancesRead DEF ThreeNodes
  <1>8. n # 0
    BY <1>5, <1>0
  <1> QED
    BY <1>6, <1>7, <1>8, WholePath

-----------------------------------------------------------------------------
(* The bytes of the three nodes. *)

\* Adjacent slices make a slice.
LEMMA Adjacent ==
  ASSUME NEW s \in Seq(Byte), NEW a \in Nat, NEW b \in Nat, NEW c \in Nat, a <= b, b <= c, c <= Len(s)
  PROVE  SubSeq(s, a + 1, b) \o SubSeq(s, b + 1, c) = SubSeq(s, a + 1, c)
  <1>1. a + 1 \in 1 .. Len(s) + 1 /\ b \in a + 1 - 1 .. Len(s) /\ c \in b .. Len(s)
    BY LenProperties
  <1> QED
    BY <1>1, ConcatAdjacentSubSeq

\* A slice of two.
LEMMA TwoBytes ==
  ASSUME NEW s \in Seq(Byte), NEW m \in Nat, m + 2 <= Len(s)
  PROVE  SubSeq(s, m + 1, m + 2) = <<s[m + 1], s[m + 2]>>
  <1> DEFINE u == SubSeq(s, m + 1, m + 2)
             v == <<s[m + 1], s[m + 2]>>
  <1>1. u \in Seq(Byte) /\ Len(u) = 2 /\ \A i \in 1 .. 2 : u[i] = s[m + i]
    <2>1. /\ u \in Seq(Byte) /\ Len(u) = IF m + 1 <= m + 2 THEN m + 2 - (m + 1) + 1 ELSE 0
          /\ \A i \in 1 .. m + 2 - (m + 1) + 1 : u[i] = s[m + 1 + i - 1]
      BY Slice
    <2> HIDE DEF u
    <2> QED
      BY <2>1
  <1>2. s[m + 1] \in Byte /\ s[m + 2] \in Byte
    <2>1. m + 1 \in 1 .. Len(s) /\ m + 2 \in 1 .. Len(s)
      BY LenProperties
    <2> QED
      BY <2>1, ByteAt DEF Byte
  <1>3. v \in Seq(Byte) /\ Len(v) = 2 /\ v[1] = s[m + 1] /\ v[2] = s[m + 2]
    BY <1>2
  <1> HIDE DEF u, v
  <1>4. \A i \in 1 .. Len(u) : u[i] = v[i]
    <2>1. \A i \in 1 .. 2 : i = 1 \/ i = 2
      OBVIOUS
    <2>2. u[1] = s[m + 1] /\ u[2] = s[m + 2]
      BY <1>1
    <2> QED
      BY <1>1, <1>3, <2>1, <2>2
  <1>5. u = v
    BY <1>1, <1>3, <1>4, SeqEqual
  <1> QED
    BY <1>5 DEF u, v

\* The parts of a hard drive node's payload.
DriveIn(p) ==
  [ partition_number |-> SubSeq(p, 1, 4), partition_start_lba |-> SubSeq(p, 5, 12),
    partition_size_lba |-> SubSeq(p, 13, 20), partition_signature_uefi_bytes |-> SubSeq(p, 21, 36),
    mbr_type |-> p[37], signature_type |-> p[38] ]
DriveBytes(drive) ==
  drive.partition_number \o drive.partition_start_lba \o drive.partition_size_lba
    \o drive.partition_signature_uefi_bytes \o <<drive.mbr_type, drive.signature_type>>

\* A hard drive node's payload is its parts in order.
LEMMA DrivePayload ==
  ASSUME NEW p \in Seq(Byte), Len(p) = 38
  PROVE  DriveBytes(DriveIn(p)) = p
  <1>1. SubSeq(p, 1, 4) \o SubSeq(p, 5, 12) = SubSeq(p, 1, 12)
    <2>1. SubSeq(p, 0 + 1, 4) \o SubSeq(p, 4 + 1, 12) = SubSeq(p, 0 + 1, 12)
      BY Adjacent
    <2> QED
      BY <2>1
  <1>2. SubSeq(p, 1, 12) \o SubSeq(p, 13, 20) = SubSeq(p, 1, 20)
    <2>1. SubSeq(p, 0 + 1, 12) \o SubSeq(p, 12 + 1, 20) = SubSeq(p, 0 + 1, 20)
      BY Adjacent
    <2> QED
      BY <2>1
  <1>3. SubSeq(p, 1, 20) \o SubSeq(p, 21, 36) = SubSeq(p, 1, 36)
    <2>1. SubSeq(p, 0 + 1, 20) \o SubSeq(p, 20 + 1, 36) = SubSeq(p, 0 + 1, 36)
      BY Adjacent
    <2> QED
      BY <2>1
  <1>4. SubSeq(p, 1, 36) \o <<p[37], p[38]>> = p
    <2>1. SubSeq(p, 0 + 1, 36) \o SubSeq(p, 36 + 1, 38) = SubSeq(p, 0 + 1, 38)
      BY Adjacent
    <2>2. SubSeq(p, 36 + 1, 36 + 2) = <<p[36 + 1], p[36 + 2]>>
      <3>1. 36 \in Nat /\ 36 + 2 <= Len(p)
        OBVIOUS
      <3> QED
        BY <3>1, TwoBytes, Zenon
    <2>3. SubSeq(p, 1, 38) = p
      BY SubSeqFull
    <2>4. 0 + 1 = 1 /\ 36 + 1 = 37 /\ 36 + 2 = 38
      OBVIOUS
    <2> QED
      BY <2>1, <2>2, <2>3, <2>4, Zenon
  <1> QED
    BY <1>1, <1>2, <1>3, <1>4, Zenon DEF DriveBytes, DriveIn

\* A node of a hard drive at the beginning.
LEMMA DriveNode ==
  ASSUME NEW list \in Seq(Byte)
  PROVE  /\ IsKind(list, 0, "HardDrive") /\ NodeLength(list, 0) = 42
              <=> 42 <= Len(list) /\ SubSeq(list, 1, 4) = <<4, 1, 42, 0>>
         /\ IsKind(list, 0, "HardDrive") /\ NodeLength(list, 0) = 42
              => /\ ParsedAt(list, 0) = [ node |-> NodeAt(list, 0), kind |-> "HardDrive",
                                          says |-> DriveIn(SubSeq(list, 5, 42)) ]
                 /\ NodeAt(list, 0).payload = SubSeq(list, 5, 42) /\ NodeAt(list, 0).length = 42
                 /\ NodeAt(list, 0).type = 4 /\ NodeAt(list, 0).subtype = 1
  <1> DEFINE node == NodeAt(list, 0)
             payload == SubSeq(list, 5, 42)
             Header == list[0 + 1] = 4 /\ list[0 + 2] = 1 /\ list[0 + 3] = 42 /\ list[0 + 4] = 0
  <1>0. Len(list) \in Nat
    BY LenProperties
  <1>1. ASSUME 4 <= Len(list) PROVE SubSeq(list, 1, 4) = <<4, 1, 42, 0>> <=> Header
    <2>1. 4 \in Byte /\ 1 \in Byte /\ 42 \in Byte /\ 0 \in Byte
      BY DEF Byte
    <2>2. SubSeq(list, 0 + 1, 0 + 4) = <<4, 1, 42, 0>> <=> Header
      <3>1. 0 \in Nat /\ 0 + 4 <= Len(list)
        BY <1>1
      <3>2. \A m \in Nat : m + 4 <= Len(list) =>
              (SubSeq(list, m + 1, m + 4) = <<4, 1, 42, 0>>
                 <=> list[m + 1] = 4 /\ list[m + 2] = 1 /\ list[m + 3] = 42 /\ list[m + 4] = 0)
        BY <2>1, FourBytes
      <3> QED
        BY <3>1, <3>2, Zenon
    <2>3. 0 + 1 = 1 /\ 0 + 4 = 4
      OBVIOUS
    <2> HIDE DEF Header
    <2> QED
      BY <2>2, <2>3, Zenon
  <1>2. ASSUME NodeLength(list, 0) = 42
        PROVE  /\ node.type = list[0 + 1] /\ node.subtype = list[0 + 2]
               /\ node.length = 42 /\ node.payload = payload
               /\ list[0 + 1] = 4 => node.ends = "no"
    <2>1. 0 + 5 = 5 /\ 0 + NodeLength(list, 0) = 42
      BY <1>2
    <2>2. /\ node.type = list[0 + 1] /\ node.subtype = list[0 + 2] /\ node.length = NodeLength(list, 0)
          /\ node.payload = SubSeq(list, 0 + 5, 0 + NodeLength(list, 0))
          /\ node.ends = IF list[0 + 1] # 127 THEN "no"
                         ELSE IF list[0 + 2] = 1 THEN "EndInstance" ELSE "EndEntire"
      BY DEF NodeAt
    <2> HIDE DEF node
    <2>3. node.payload = payload
      BY <2>1, <2>2, Zenon
    <2>4. 4 # 127
      OBVIOUS
    <2>5. list[0 + 1] = 4 => node.ends = "no"
      BY <2>2, <2>4, Zenon
    <2> QED
      BY <1>2, <2>2, <2>3, <2>5, Zenon
  <1>3. \A p : ParseHardDrive(42, p) = <<DriveIn(p)>>
    BY DEF ParseHardDrive, When, DriveIn
  <1>4. ASSUME IsKind(list, 0, "HardDrive"), NodeLength(list, 0) = 42
        PROVE  /\ 42 <= Len(list) /\ SubSeq(list, 1, 4) = <<4, 1, 42, 0>>
               /\ ParsedAt(list, 0) = [node |-> node, kind |-> "HardDrive", says |-> DriveIn(payload)]
               /\ node.payload = payload /\ node.length = 42 /\ node.type = 4 /\ node.subtype = 1
    <2> DEFINE p == ParsedAt(list, 0)
    <2>1. /\ p = [node |-> node, kind |-> "HardDrive", says |-> p.says]
          /\ list[0 + 1] = 4 /\ list[0 + 2] = 1
          /\ ParseHardDrive(NodeLength(list, 0), node.payload) = <<p.says>>
      BY <1>4, KindSays
    <2>2. 0 + 4 <= Len(list) /\ 0 + 42 <= Len(list)
      BY <1>4 DEF IsKind, NodeFits
    <2>3. list[0 + 3] = 42 /\ list[0 + 4] = 0
      <3>1. list[0 + 3] \in 0 .. 255 /\ list[0 + 4] \in 0 .. 255
        <4>1. 0 + 3 \in 1 .. Len(list) /\ 0 + 4 \in 1 .. Len(list)
          BY <1>0, <2>2
        <4> QED
          BY <4>1, ByteAt, Zenon
      <3>2. list[0 + 3] + 256 * list[0 + 4] = 42
        BY <1>4 DEF NodeLength
      <3>3. \A a, b \in 0 .. 255 : a + 256 * b = 42 => a = 42 /\ b = 0
        OBVIOUS
      <3>4. \A b \in 0 .. 255 : list[0 + 3] + 256 * b = 42 => list[0 + 3] = 42 /\ b = 0
        BY <3>1, <3>3, Zenon
      <3> QED
        BY <3>1, <3>2, <3>4, Zenon
    <2>4. Header
      BY <2>1, <2>3
    <2> HIDE DEF Header, p
    <2>5. 42 <= Len(list) /\ SubSeq(list, 1, 4) = <<4, 1, 42, 0>>
      BY <1>0, <1>1, <2>2, <2>4
    <2>6. node.payload = payload /\ node.length = 42 /\ node.type = 4 /\ node.subtype = 1
      BY <1>2, <1>4, <2>1
    <2>7. p.says = DriveIn(payload)
      <3>1. <<DriveIn(payload)>> = <<p.says>>
        BY <1>3, <1>4, <2>1, <2>6
      <3> HIDE DEF payload
      <3> QED
        BY <3>1
    <2>8. p = [node |-> node, kind |-> "HardDrive", says |-> DriveIn(payload)]
      BY <2>1, <2>7, Zenon
    <2> QED
      BY <2>5, <2>6, <2>8 DEF p
  <1>5. ASSUME 42 <= Len(list), SubSeq(list, 1, 4) = <<4, 1, 42, 0>>
        PROVE  IsKind(list, 0, "HardDrive") /\ NodeLength(list, 0) = 42
    <2>1. Header
      BY <1>0, <1>1, <1>5
    <2>2. NodeLength(list, 0) = 42
      BY <2>1 DEF NodeLength
    <2>3. NodeFits(list, 0)
      BY <1>0, <1>5, <2>1, <2>2 DEF NodeFits
    <2>4. node.ends = "no" /\ node.type = 4 /\ node.subtype = 1 /\ node.length = 42
      BY <1>2, <2>1, <2>2
    <2> HIDE DEF node
    <2>5. KindAt(list, 0) = << [node |-> node, kind |-> "HardDrive", says |-> DriveIn(node.payload)] >>
      <3> DEFINE said == ParseHardDrive(node.length, node.payload)
                 d == DriveIn(node.payload)
      <3>1. said = <<d>>
        BY <1>3, <2>4
      <3> HIDE DEF said, d
      <3>2. said # <<>> /\ said[1] = d
        BY <3>1
      <3>3. KindAt(list, 0) = IF said = <<>> THEN <<>>
                              ELSE << [node |-> node, kind |-> "HardDrive", says |-> said[1]] >>
        <4>1. KindAt(list, 0) = ParseNodeKind(node)
          BY DEF KindAt, node
        <4> QED
          BY <2>4, <4>1 DEF ParseNodeKind, Then, said
      <3> QED
        BY <3>2, <3>3 DEF d
    <2> DEFINE r == [node |-> node, kind |-> "HardDrive", says |-> DriveIn(node.payload)]
    <2>6. KindAt(list, 0) = <<r>> /\ r.kind = "HardDrive"
      BY <2>5
    <2> HIDE DEF r
    <2>7. KindAt(list, 0) # <<>> /\ ParsedAt(list, 0).kind = "HardDrive"
      BY <2>6 DEF ParsedAt
    <2> QED
      BY <2>2, <2>3, <2>7 DEF IsKind
  <1> QED
    BY <1>4, <1>5 DEF node, payload

\* The bytes of a number made of two.
LEMMA BytesOfWord ==
  ASSUME NEW a \in 0 .. 255, NEW b \in 0 .. 255
  PROVE  (a + 256 * b) % 256 = a /\ (a + 256 * b) \div 256 = b
  OBVIOUS

\* Units hold the bytes they were made of.
LEMMA UnitBytesOf ==
  ASSUME NEW s \in Seq(Byte), NEW k \in Nat, Len(s) = 2 * k
  PROVE  UnitBytes(Units(s)) = s
  <1> DEFINE units == Units(s)
             n == Len(s)
             B(i) == IF i % 2 = 1 THEN units[(i + 1) \div 2] % 256 ELSE units[i \div 2] \div 256
             v == [i \in 1 .. 2 * k |-> B(i)]
  <1>1. /\ units \in Seq(Nat) /\ Len(units) = Len(s) \div 2
        /\ \A i \in 1 .. Len(s) \div 2 : units[i] = s[2 * i - 1] + 256 * s[2 * i]
    BY UnitsAre
  <1>2. Len(s) \div 2 = k
    <2> HIDE DEF units
    <2> QED
      OBVIOUS
  <1>3. Len(units) = k /\ \A i \in 1 .. k : units[i] = s[2 * i - 1] + 256 * s[2 * i]
    BY <1>1, <1>2
  <1>4. UnitBytes(units) = v
    <2> HIDE DEF units
    <2> QED
      BY <1>3 DEF UnitBytes
  <1> HIDE DEF units
  <1>5. ASSUME NEW j \in 1 .. k
        PROVE  units[j] % 256 = s[2 * j - 1] /\ units[j] \div 256 = s[2 * j]
    <2>1. 2 * j - 1 \in 1 .. Len(s) /\ 2 * j \in 1 .. Len(s)
      OBVIOUS
    <2>2. s[2 * j - 1] \in 0 .. 255 /\ s[2 * j] \in 0 .. 255
      BY <2>1, ByteAt
    <2>3. \A a, b \in 0 .. 255 : (a + 256 * b) % 256 = a /\ (a + 256 * b) \div 256 = b
      BY BytesOfWord
    <2>4. \A b \in 0 .. 255 : /\ (s[2 * j - 1] + 256 * b) % 256 = s[2 * j - 1]
                             /\ (s[2 * j - 1] + 256 * b) \div 256 = b
      BY <2>2, <2>3, ZenonT(40)
    <2>5. units[j] = s[2 * j - 1] + 256 * s[2 * j]
      BY <1>3
    <2>6. /\ (s[2 * j - 1] + 256 * s[2 * j]) % 256 = s[2 * j - 1]
          /\ (s[2 * j - 1] + 256 * s[2 * j]) \div 256 = s[2 * j]
      BY <2>2, <2>4, Zenon
    <2> DEFINE w == s[2 * j - 1] + 256 * s[2 * j]
    <2>7. w % 256 = s[2 * j - 1] /\ w \div 256 = s[2 * j] /\ units[j] = w
      BY <2>5, <2>6, Zenon
    <2> HIDE DEF w
    <2> QED
      BY <2>7
  <1>6. ASSUME NEW i \in 1 .. 2 * k PROVE B(i) = s[i]
    <2>1. CASE i % 2 = 1
      <3> DEFINE j == (i + 1) \div 2
      <3>1. j \in 1 .. k /\ 2 * j - 1 = i
        BY <2>1
      <3> HIDE DEF j
      <3>2. units[j] % 256 = s[i]
        BY <1>5, <3>1
      <3> QED
        BY <2>1, <3>2 DEF j
    <2>2. CASE i % 2 # 1
      <3> DEFINE j == i \div 2
      <3>1. j \in 1 .. k /\ 2 * j = i
        BY <2>2
      <3> HIDE DEF j
      <3>2. units[j] \div 256 = s[i]
        BY <1>5, <3>1
      <3> QED
        BY <2>2, <3>2 DEF j
    <2> QED
      BY <2>1, <2>2
  <1> HIDE DEF B
  <1>7. \A i \in 1 .. 2 * k : v[i] = s[i] /\ s[i] \in Byte
    <2>1. \A i \in 1 .. 2 * k : s[i] \in Byte
      BY ElementOfSeq
    <2> QED
      BY <1>6, <2>1
  <1>8. v \in Seq(Byte) /\ Len(v) = 2 * k
    <2>1. v \in [1 .. 2 * k -> Byte]
      BY <1>6, <1>7
    <2> HIDE DEF v
    <2> QED
      BY <2>1
  <1> HIDE DEF v
  <1>9. v = s
    BY <1>7, <1>8, SeqEqual
  <1> QED
    BY <1>4, <1>9 DEF units

\* The path in a file path node's payload.
PathIn(p) == Units(SubSeq(p, 1, Len(p) - 2))

PathEnds(p) == Len(p) >= 2 /\ Len(p) % 2 = 0 /\ p[Len(p) - 1] = 0 /\ p[Len(p)] = 0

\* The units of a payload: the path, and one more.
LEMMA PathUnits ==
  ASSUME NEW p \in Seq(Byte), Len(p) >= 2, Len(p) % 2 = 0
  PROVE  /\ SubSeq(Units(p), 1, Len(Units(p)) - 1) = PathIn(p)
         /\ Units(p)[Len(Units(p))] = 0 <=> p[Len(p) - 1] = 0 /\ p[Len(p)] = 0
         /\ Len(p) = 2 * (Len(PathIn(p)) + 1) /\ Len(PathIn(p)) \in Nat
         /\ p = UnitBytes(PathIn(p)) \o <<p[Len(p) - 1], p[Len(p)]>>
  <1> DEFINE n == Len(p)
             k == (n - 2) \div 2
             s == SubSeq(p, 1, n - 2)
             units == Units(p)
             path == Units(s)
             first == SubSeq(units, 1, Len(units) - 1)
  <1>0. n \in Nat
    BY LenProperties
  <1>1. k \in Nat /\ n = 2 * k + 2
    <2> HIDE DEF n
    <2>1. n >= 2 /\ n % 2 = 0
      BY DEF n
    <2> QED
      BY <1>0, <2>1
  <1> HIDE DEF k
  <1>2. s \in Seq(Byte) /\ Len(s) = 2 * k /\ \A i \in 1 .. 2 * k : s[i] = p[i]
    <2>1. /\ s \in Seq(Byte) /\ Len(s) = IF 1 <= n - 2 THEN n - 2 - 1 + 1 ELSE 0
          /\ \A i \in 1 .. n - 2 - 1 + 1 : s[i] = p[1 + i - 1]
      BY <1>0, Slice
    <2> HIDE DEF s, n
    <2> QED
      BY <2>1, <1>1
  <1> HIDE DEF s
  <1>3. units \in Seq(Nat) /\ Len(units) = k + 1 /\ \A i \in 1 .. k + 1 : units[i] = p[2 * i - 1] + 256 * p[2 * i]
    <2>1. /\ units \in Seq(Nat) /\ Len(units) = n \div 2
          /\ \A i \in 1 .. n \div 2 : units[i] = p[2 * i - 1] + 256 * p[2 * i]
      BY UnitsAre
    <2> HIDE DEF units, n
    <2>2. n \div 2 = k + 1
      BY <1>1
    <2> QED
      BY <2>1, <2>2
  <1>4. path \in Seq(Nat) /\ Len(path) = k /\ \A i \in 1 .. k : path[i] = s[2 * i - 1] + 256 * s[2 * i]
    <2>1. /\ path \in Seq(Nat) /\ Len(path) = Len(s) \div 2
          /\ \A i \in 1 .. Len(s) \div 2 : path[i] = s[2 * i - 1] + 256 * s[2 * i]
      BY <1>2, UnitsAre
    <2> HIDE DEF path
    <2>2. Len(s) \div 2 = k
      BY <1>1, <1>2
    <2> QED
      BY <2>1, <2>2
  <1>5. UnitBytes(path) = s
    BY <1>1, <1>2, UnitBytesOf
  <1> HIDE DEF units, path
  <1>6. first = path
    <2>1. /\ first \in Seq(Nat) /\ Len(first) = IF 1 <= k THEN k - 1 + 1 ELSE 0
          /\ \A i \in 1 .. k - 1 + 1 : first[i] = units[1 + i - 1]
      <3>1. \A i \in 1 .. k : units[i] \in Nat
        BY <1>1, <1>3, ElementOfSeq, SMTT(30)
      <3>2. Len(units) - 1 = k
        BY <1>1, <1>3
      <3>3. first = SubSeq(units, 1, k)
        BY <3>2
      <3> QED
        BY <1>1, <3>1, <3>3, SubSeqProperties
    <2> HIDE DEF first
    <2>2. Len(first) = k /\ \A i \in 1 .. k : first[i] = units[i]
      BY <1>1, <2>1
    <2>3. \A i \in 1 .. k : units[i] = path[i]
      <3>1. ASSUME NEW i \in 1 .. k PROVE s[2 * i - 1] = p[2 * i - 1] /\ s[2 * i] = p[2 * i]
        <4>1. 2 * i - 1 \in 1 .. 2 * k /\ 2 * i \in 1 .. 2 * k
          BY <1>1
        <4> QED
          BY <4>1, <1>2
      <3>2. \A i \in 1 .. k : i \in 1 .. k + 1
        BY <1>1
      <3>3. ASSUME NEW i \in 1 .. k PROVE units[i] = path[i]
        <4>1. units[i] = p[2 * i - 1] + 256 * p[2 * i]
          BY <3>2, <1>3, Zenon
        <4>2. path[i] = s[2 * i - 1] + 256 * s[2 * i]
          BY <1>4, Zenon
        <4> QED
          BY <4>1, <4>2, <3>1, Zenon
      <3> QED
        BY <3>3
    <2>4. first \in Seq(Nat) /\ path \in Seq(Nat) /\ Len(first) = Len(path)
      BY <1>4, <2>1, <2>2
    <2>5. \A i \in 1 .. Len(first) : first[i] = path[i]
      BY <2>2, <2>3
    <2> QED
      BY <2>4, <2>5, SeqEqual
  <1>7. units[k + 1] = 0 <=> p[n - 1] = 0 /\ p[n] = 0
    <2>1. units[k + 1] = p[2 * (k + 1) - 1] + 256 * p[2 * (k + 1)]
      BY <1>1, <1>3
    <2>2. 2 * (k + 1) - 1 = n - 1 /\ 2 * (k + 1) = n /\ n - 1 \in 1 .. n /\ n \in 1 .. n
      BY <1>1
    <2>3. units[k + 1] = p[n - 1] + 256 * p[n]
      BY <2>1, <2>2
    <2>4. p[n - 1] \in 0 .. 255 /\ p[n] \in 0 .. 255
      BY <2>2, ByteAt
    <2>5. \A a, b \in 0 .. 255 : a + 256 * b = 0 <=> a = 0 /\ b = 0
      OBVIOUS
    <2>6. \A b \in 0 .. 255 : p[n - 1] + 256 * b = 0 <=> p[n - 1] = 0 /\ b = 0
      BY <2>4, <2>5, Zenon
    <2> QED
      BY <2>3, <2>4, <2>6, Zenon
  <1>8. s \o <<p[n - 1], p[n]>> = p
    <2> DEFINE m == n - 2
    <2>0. m \in Nat /\ 0 <= m /\ m <= m + 2 /\ m + 2 = n /\ m + 1 = n - 1 /\ m + 2 <= Len(p)
      BY <1>1
    <2> HIDE DEF m
    <2>1. SubSeq(p, 0 + 1, m) \o SubSeq(p, m + 1, m + 2) = SubSeq(p, 0 + 1, m + 2)
      BY <2>0, Adjacent
    <2>2. SubSeq(p, m + 1, m + 2) = <<p[m + 1], p[m + 2]>>
      BY <2>0, TwoBytes
    <2>3. SubSeq(p, 1, n) = p
      BY SubSeqFull
    <2>4. 0 + 1 = 1
      OBVIOUS
    <2> QED
      BY <2>0, <2>1, <2>2, <2>3, <2>4, Zenon DEF s, m
  <1>9. PathIn(p) = path
    BY DEF PathIn, path, s
  <1>10. n = 2 * (Len(path) + 1) /\ Len(path) \in Nat /\ Len(units) = k + 1
    BY <1>1, <1>3, <1>4
  <1> QED
    BY <1>5, <1>6, <1>7, <1>8, <1>9, <1>10, Zenon DEF units

\* parse_file_path takes a payload exactly if it names a path.
LEMMA PathPayload ==
  ASSUME NEW p \in Seq(Byte)
  PROVE  ParseFilePath(p) =
           IF PathEnds(p) /\ 0 \notin ToSet(PathIn(p)) /\ ValidUtf16(PathIn(p))
           THEN <<PathIn(p)>> ELSE <<>>
  <1>1. CASE Len(p) >= 2 /\ Len(p) % 2 = 0
    <2>1. /\ SubSeq(Units(p), 1, Len(Units(p)) - 1) = PathIn(p)
          /\ Units(p)[Len(Units(p))] = 0 <=> p[Len(p) - 1] = 0 /\ p[Len(p)] = 0
      BY <1>1, PathUnits
    <2> QED
      BY <1>1, <2>1, Zenon DEF ParseFilePath, When, PathEnds
  <1>2. CASE ~(Len(p) >= 2 /\ Len(p) % 2 = 0)
    BY <1>2, Zenon DEF ParseFilePath, When, PathEnds
  <1> QED
    BY <1>1, <1>2

\* A node of a file path.
NodePayload(list, o) == SubSeq(list, o + 5, o + NodeLength(list, o))
NamesPath(p) == PathEnds(p) /\ 0 \notin ToSet(PathIn(p)) /\ ValidUtf16(PathIn(p))

\* The payload of a node that fits.
LEMMA PayloadIs ==
  ASSUME NEW list \in Seq(Byte), NEW o \in Nat, NodeFits(list, o)
  PROVE  /\ NodePayload(list, o) \in Seq(Byte) /\ Len(NodePayload(list, o)) = NodeLength(list, o) - 4
         /\ NodeLength(list, o) \in Nat
         /\ \A i \in 1 .. NodeLength(list, o) - 4 : NodePayload(list, o)[i] = list[o + 4 + i]
  <1> DEFINE l == NodeLength(list, o)
             p == NodePayload(list, o)
  <1>1. Len(list) \in Nat /\ o + 4 <= Len(list) /\ l >= 4 /\ o + l <= Len(list)
    BY LenProperties DEF NodeFits
  <1>2. l \in Nat
    <2>1. list[o + 3] \in 0 .. 255 /\ list[o + 4] \in 0 .. 255
      <3>1. o + 3 \in 1 .. Len(list) /\ o + 4 \in 1 .. Len(list)
        BY <1>1
      <3> QED
        BY <3>1, ByteAt
    <2>2. \A a, b \in 0 .. 255 : a + 256 * b \in Nat
      OBVIOUS
    <2>3. \A b \in 0 .. 255 : list[o + 3] + 256 * b \in Nat
      BY <2>1, <2>2, Zenon
    <2> QED
      BY <2>1, <2>3, Zenon DEF NodeLength
  <1> HIDE DEF l
  <1>3. /\ SubSeq(list, o + 5, o + l) \in Seq(Byte)
        /\ Len(SubSeq(list, o + 5, o + l)) = IF o + 5 <= o + l THEN o + l - (o + 5) + 1 ELSE 0
        /\ \A i \in 1 .. o + l - (o + 5) + 1 : SubSeq(list, o + 5, o + l)[i] = list[o + 5 + i - 1]
    BY <1>1, <1>2, Slice
  <1>4. p = SubSeq(list, o + 5, o + l)
    BY DEF NodePayload, l
  <1> HIDE DEF p
  <1>5. /\ p \in Seq(Byte) /\ Len(p) = IF o + 5 <= o + l THEN o + l - (o + 5) + 1 ELSE 0
        /\ \A i \in 1 .. o + l - (o + 5) + 1 : p[i] = list[o + 5 + i - 1]
    BY <1>3, <1>4, Zenon
  <1>6. p \in Seq(Byte) /\ Len(p) = l - 4 /\ \A i \in 1 .. l - 4 : p[i] = list[o + 4 + i]
    <2>1. o + l - (o + 5) + 1 = l - 4 /\ (IF o + 5 <= o + l THEN o + l - (o + 5) + 1 ELSE 0) = l - 4
      BY <1>1, <1>2
    <2>2. ASSUME NEW i \in 1 .. l - 4 PROVE p[i] = list[o + 4 + i]
      <3>1. p[i] = list[o + 5 + i - 1]
        BY <1>5, <2>1, Zenon
      <3>2. o + 5 + i - 1 = o + 4 + i
        BY <1>2
      <3> QED
        BY <3>1, <3>2, Zenon
    <2>3. Len(p) = l - 4
      BY <1>5, <2>1, Zenon
    <2> QED
      BY <1>5, <2>2, <2>3
  <1> QED
    BY <1>2, <1>6 DEF p, l

\* A node of a file path.
LEMMA FileNode ==
  ASSUME NEW list \in Seq(Byte), NEW o \in Nat
  PROVE  LET p == NodePayload(list, o)
         IN  /\ IsKind(list, o, "FilePath")
                  <=> NodeFits(list, o) /\ list[o + 1] = 4 /\ list[o + 2] = 4 /\ NamesPath(p)
             /\ IsKind(list, o, "FilePath")
                  => /\ ParsedAt(list, o) = [node |-> NodeAt(list, o), kind |-> "FilePath", says |-> PathIn(p)]
                     /\ NodeAt(list, o).payload = p /\ NodeAt(list, o).length = NodeLength(list, o)
                     /\ NodeAt(list, o).type = 4 /\ NodeAt(list, o).subtype = 4
  <1> DEFINE node == NodeAt(list, o)
             p == NodePayload(list, o)
             q == ParsedAt(list, o)
             path == PathIn(p)
  <1>1. /\ node.type = list[o + 1] /\ node.subtype = list[o + 2] /\ node.length = NodeLength(list, o)
        /\ node.payload = p
        /\ node.ends = IF list[o + 1] # 127 THEN "no"
                       ELSE IF list[o + 2] = 1 THEN "EndInstance" ELSE "EndEntire"
    BY DEF NodeAt, NodePayload
  <1>2. ASSUME NodeFits(list, o)
        PROVE  ParseFilePath(p) = IF NamesPath(p) THEN <<path>> ELSE <<>>
    <2>1. p \in Seq(Byte)
      BY <1>2, PayloadIs
    <2> QED
      BY <2>1, PathPayload, Zenon DEF NamesPath
  <1>3. ASSUME IsKind(list, o, "FilePath")
        PROVE  /\ NodeFits(list, o) /\ list[o + 1] = 4 /\ list[o + 2] = 4 /\ NamesPath(p)
               /\ q = [node |-> node, kind |-> "FilePath", says |-> path]
    <2>1. /\ q = [node |-> node, kind |-> "FilePath", says |-> q.says]
          /\ list[o + 1] = 4 /\ list[o + 2] = 4
          /\ ParseFilePath(node.payload) = <<q.says>>
      BY <1>3, KindSays
    <2>2. NodeFits(list, o)
      BY <1>3 DEF IsKind
    <2> HIDE DEF q, path, p, node
    <2>3. ParseFilePath(p) = <<q.says>>
      BY <2>1, <1>1
    <2>4. NamesPath(p) /\ <<path>> = <<q.says>>
      BY <1>2, <2>2, <2>3
    <2>5. path = q.says
      BY <2>4
    <2>6. q = [node |-> node, kind |-> "FilePath", says |-> path]
      BY <2>1, <2>5, Zenon
    <2> QED
      BY <2>1, <2>2, <2>4, <2>6
  <1>4. ASSUME NodeFits(list, o), list[o + 1] = 4, list[o + 2] = 4, NamesPath(p)
        PROVE  IsKind(list, o, "FilePath")
    <2> DEFINE r == [node |-> node, kind |-> "FilePath", says |-> path]
               said == ParseFilePath(node.payload)
    <2>1. node.ends = "no" /\ node.type = 4 /\ node.subtype = 4
      <3>1. 4 # 127
        OBVIOUS
      <3> HIDE DEF node
      <3> QED
        BY <1>1, <1>4, <3>1, Zenon
    <2>2. said = <<path>>
      <3> HIDE DEF node, p, path
      <3> QED
        BY <1>1, <1>2, <1>4, Zenon
    <2>3. KindAt(list, o) = IF said = <<>> THEN <<>>
                            ELSE << [node |-> node, kind |-> "FilePath", says |-> said[1]] >>
      <3>1. KindAt(list, o) = ParseNodeKind(node)
        BY DEF KindAt
      <3> HIDE DEF node
      <3> QED
        BY <2>1, <3>1 DEF ParseNodeKind, Then
    <2> HIDE DEF said, path, node
    <2>4. KindAt(list, o) = <<r>> /\ r.kind = "FilePath"
      BY <2>2, <2>3
    <2> HIDE DEF r
    <2>5. KindAt(list, o) # <<>> /\ q.kind = "FilePath"
      BY <2>4 DEF ParsedAt
    <2> QED
      BY <1>4, <2>5 DEF IsKind
  <1> QED
    <2> HIDE DEF node, p, q, path
    <2>1. IsKind(list, o, "FilePath")
            <=> NodeFits(list, o) /\ list[o + 1] = 4 /\ list[o + 2] = 4 /\ NamesPath(p)
      BY <1>3, <1>4
    <2>2. ASSUME IsKind(list, o, "FilePath")
          PROVE  /\ q = [node |-> node, kind |-> "FilePath", says |-> path]
                 /\ node.payload = p /\ node.length = NodeLength(list, o)
                 /\ node.type = 4 /\ node.subtype = 4
      BY <1>1, <1>3, <2>2
    <2> QED
      BY <2>1, <2>2, Zenon DEF node, p, q, path

\* The node that ends the whole path, at the end of the list.
LEMMA EndNode ==
  ASSUME NEW list \in Seq(Byte), NEW o \in Nat
  PROVE  /\ IsKind(list, o, "EndEntire") /\ o + NodeLength(list, o) = Len(list)
              <=> o + 4 = Len(list) /\ SubSeq(list, o + 1, o + 4) = <<127, 255, 4, 0>>
         /\ IsKind(list, o, "EndEntire")
              => /\ ParsedAt(list, o) = [node |-> NodeAt(list, o), kind |-> "EndEntire", says |-> <<>>]
                 /\ NodeLength(list, o) = 4 /\ NodeAt(list, o).length = 4
                 /\ NodeAt(list, o).type = 127 /\ NodeAt(list, o).subtype = 255
  <1> DEFINE node == NodeAt(list, o)
             q == ParsedAt(list, o)
             l == NodeLength(list, o)
             Header == list[o + 1] = 127 /\ list[o + 2] = 255 /\ list[o + 3] = 4 /\ list[o + 4] = 0
  <1>0. Len(list) \in Nat
    BY LenProperties
  <1>1. /\ node.type = list[o + 1] /\ node.subtype = list[o + 2] /\ node.length = l
        /\ node.ends = IF list[o + 1] # 127 THEN "no"
                       ELSE IF list[o + 2] = 1 THEN "EndInstance" ELSE "EndEntire"
    BY DEF NodeAt
  <1>2. ASSUME o + 4 <= Len(list)
        PROVE  SubSeq(list, o + 1, o + 4) = <<127, 255, 4, 0>> <=> Header
    <2>1. 127 \in Byte /\ 255 \in Byte /\ 4 \in Byte /\ 0 \in Byte
      BY DEF Byte
    <2> QED
      BY <1>2, <2>1, FourBytes
  <1>3. ASSUME IsKind(list, o, "EndEntire")
        PROVE  /\ q = [node |-> node, kind |-> "EndEntire", says |-> <<>>]
               /\ l = 4 /\ list[o + 1] = 127 /\ list[o + 2] = 255
               /\ o + 4 <= Len(list) /\ NodeFits(list, o)
    <2>1. /\ q = [node |-> node, kind |-> "EndEntire", says |-> q.says]
          /\ list[o + 1] = 127 /\ list[o + 2] # 1 /\ q.says = <<>>
      BY <1>3, KindSays
    <2>2. NodeFits(list, o)
      BY <1>3 DEF IsKind
    <2>3. o + 4 <= Len(list) /\ l = 4 /\ list[o + 2] \in {1, 255}
      BY <2>1, <2>2 DEF NodeFits
    <2> HIDE DEF q, node, l
    <2>4. list[o + 2] = 255
      BY <2>1, <2>3, Zenon
    <2>5. q = [node |-> node, kind |-> "EndEntire", says |-> <<>>]
      BY <2>1, Zenon
    <2> QED
      BY <2>1, <2>2, <2>3, <2>4, <2>5
  <1>4. ASSUME o + 4 = Len(list), Header
        PROVE  IsKind(list, o, "EndEntire") /\ o + l = Len(list)
    <2>1. l = 4
      BY <1>4 DEF NodeLength
    <2>2. NodeFits(list, o)
      <3>1. list[o + 2] \in {1, 255} /\ o + 4 <= Len(list) /\ 4 >= 4
        BY <1>0, <1>4
      <3> QED
        BY <2>1, <3>1, <1>4, Zenon DEF NodeFits
    <2>3. node.ends = "EndEntire"
      <3>1. 255 # 1
        OBVIOUS
      <3> HIDE DEF node
      <3> QED
        BY <1>1, <1>4, <3>1, Zenon
    <2> DEFINE r == [node |-> node, kind |-> "EndEntire", says |-> <<>>]
    <2>4. KindAt(list, o) = <<r>>
      <3>1. KindAt(list, o) = ParseNodeKind(node)
        BY DEF KindAt
      <3>2. "EndEntire" # "no" /\ << <<>> >> # <<>> /\ << <<>> >>[1] = <<>>
        OBVIOUS
      <3> HIDE DEF node
      <3>3. ParseNodeKind(node) = << [node |-> node, kind |-> node.ends, says |-> << <<>> >>[1] ] >>
        BY <2>3, <3>2, Zenon DEF ParseNodeKind, Then
      <3> QED
        BY <2>3, <3>1, <3>2, <3>3, Zenon
    <2>5. r.kind = "EndEntire"
      OBVIOUS
    <2> HIDE DEF r
    <2>6. KindAt(list, o) # <<>> /\ q.kind = "EndEntire"
      BY <2>4, <2>5 DEF ParsedAt
    <2> QED
      BY <1>4, <2>1, <2>2, <2>6 DEF IsKind
  <1>5. ASSUME IsKind(list, o, "EndEntire"), o + l = Len(list) PROVE o + 4 = Len(list) /\ Header
    <2>1. l = 4 /\ o + 4 = Len(list)
      BY <1>3, <1>5
    <2>2. list[o + 3] = 4 /\ list[o + 4] = 0
      <3>1. list[o + 3] \in 0 .. 255 /\ list[o + 4] \in 0 .. 255
        <4>1. o + 3 \in 1 .. Len(list) /\ o + 4 \in 1 .. Len(list)
          BY <1>0, <2>1
        <4> QED
          BY <4>1, ByteAt, Zenon
      <3>2. list[o + 3] + 256 * list[o + 4] = 4
        BY <2>1 DEF NodeLength
      <3>3. \A a, b \in 0 .. 255 : a + 256 * b = 4 => a = 4 /\ b = 0
        OBVIOUS
      <3>4. \A b \in 0 .. 255 : list[o + 3] + 256 * b = 4 => list[o + 3] = 4 /\ b = 0
        BY <3>1, <3>3, Zenon
      <3> QED
        BY <3>1, <3>2, <3>4, Zenon
    <2> QED
      BY <2>1, <2>2, <1>3, <1>5
  <1> QED
    <2> HIDE DEF node, q, l, Header
    <2>1. o + 4 = Len(list) => o + 4 <= Len(list)
      BY <1>0
    <2>2. IsKind(list, o, "EndEntire") /\ o + l = Len(list)
            <=> o + 4 = Len(list) /\ SubSeq(list, o + 1, o + 4) = <<127, 255, 4, 0>>
      BY <1>2, <1>4, <1>5, <2>1
    <2>3. ASSUME IsKind(list, o, "EndEntire")
          PROVE  /\ q = [node |-> node, kind |-> "EndEntire", says |-> <<>>]
                 /\ l = 4 /\ node.length = 4 /\ node.type = 127 /\ node.subtype = 255
      BY <1>1, <1>3, <2>3
    <2> QED
      BY <2>2, <2>3, Zenon DEF node, q, l

-----------------------------------------------------------------------------
(* identity.rs: the lists that are taken. *)

\* The part of the list that holds the path, for a list that ends after it.
LEMMA PathOfList ==
  ASSUME NEW list \in Seq(Byte), NEW l \in Nat, l >= 6, NodeLength(list, 42) = l, Len(list) = l + 46,
         NodeFits(list, 42)
  PROVE  /\ PathIn(NodePayload(list, 42)) = Units(SubSeq(list, 47, Len(list) - 6))
         /\ NodePayload(list, 42) \in Seq(Byte) /\ Len(NodePayload(list, 42)) = l - 4
         /\ PathEnds(NodePayload(list, 42)) <=> l % 2 = 0 /\ list[l + 41] = 0 /\ list[l + 42] = 0
  <1> DEFINE p == NodePayload(list, 42)
  <1>1. /\ p \in Seq(Byte) /\ Len(p) = l - 4
        /\ \A i \in 1 .. l - 4 : p[i] = list[42 + 4 + i]
    <2>1. 42 \in Nat
      OBVIOUS
    <2>2. /\ p \in Seq(Byte) /\ Len(p) = NodeLength(list, 42) - 4
          /\ \A i \in 1 .. NodeLength(list, 42) - 4 : p[i] = list[42 + 4 + i]
      BY <2>1, PayloadIs, Zenon
    <2> QED
      BY <2>2, Zenon
  <1>2. p = SubSeq(list, 47, l + 42)
    <2>1. 42 + 5 = 47 /\ 42 + NodeLength(list, 42) = l + 42
      OBVIOUS
    <2> QED
      BY <2>1, Zenon DEF NodePayload
  <1>3. SubSeq(SubSeq(list, 47, l + 42), 1, l - 6) = SubSeq(list, 47 + 1 - 1, 47 + (l - 6) - 1)
    <2> DEFINE k == l + 42
               m == l - 6
    <2>1. k \in Int /\ m \in Int /\ k <= Len(list) /\ 47 + m - 1 <= k
      OBVIOUS
    <2> HIDE DEF k, m
    <2>2. SubSeq(SubSeq(list, 47, k), 1, m) = SubSeq(list, 47 + 1 - 1, 47 + m - 1)
      BY <2>1, SliceOfSlice
    <2> QED
      BY <2>2 DEF k, m
  <1>4. 47 + 1 - 1 = 47 /\ 47 + (l - 6) - 1 = Len(list) - 6 /\ l - 4 - 2 = l - 6
    OBVIOUS
  <1>5. PathIn(p) = Units(SubSeq(list, 47, Len(list) - 6))
    BY <1>1, <1>2, <1>3, <1>4, Zenon DEF PathIn
  <1>6. PathEnds(p) <=> l % 2 = 0 /\ list[l + 41] = 0 /\ list[l + 42] = 0
    <2>1. p[l - 4 - 1] = list[42 + 4 + (l - 4 - 1)] /\ p[l - 4] = list[42 + 4 + (l - 4)]
      <3>1. l - 4 - 1 \in 1 .. l - 4 /\ l - 4 \in 1 .. l - 4
        OBVIOUS
      <3> QED
        BY <1>1, <3>1, Zenon
    <2>2. 42 + 4 + (l - 4 - 1) = l + 41 /\ 42 + 4 + (l - 4) = l + 42 /\ l - 4 >= 2
      OBVIOUS
    <2>3. (l - 4) % 2 = 0 <=> l % 2 = 0
      OBVIOUS
    <2> HIDE DEF p
    <2>4. PathEnds(p) <=> l - 4 >= 2 /\ (l - 4) % 2 = 0 /\ p[l - 4 - 1] = 0 /\ p[l - 4] = 0
      BY <1>1, Zenon DEF PathEnds
    <2> QED
      BY <2>1, <2>2, <2>3, <2>4, Zenon
  <1> QED
    BY <1>1, <1>5, <1>6 DEF p

Drive(list) == DriveIn(SubSeq(list, 5, 42))
Path(list) == Units(SubSeq(list, 47, Len(list) - 6))

\* The drive of a list.
DriveOf(list) ==
  [ partition_number |-> SubSeq(list, 5, 8), partition_start_lba |-> SubSeq(list, 9, 16),
    partition_size_lba |-> SubSeq(list, 17, 24), partition_signature_uefi_bytes |-> SubSeq(list, 25, 40),
    mbr_type |-> list[41], signature_type |-> list[42] ]

\* Its parts are where the list has them.
LEMMA DriveOfList ==
  ASSUME NEW list \in Seq(Byte), 42 <= Len(list)
  PROVE  Drive(list) = DriveOf(list)
  <1>1. \A i, j \in 1 .. 38 : SubSeq(SubSeq(list, 5, 42), i, j) = SubSeq(list, 5 + i - 1, 5 + j - 1)
    <2>1. 42 <= Len(list)
      OBVIOUS
    <2>2. \A q \in 1 .. 38 : 5 + q - 1 <= 42
      OBVIOUS
    <2> QED
      BY <2>1, <2>2, SliceOfSlice
  <1> DEFINE s == SubSeq(list, 5, 42)
  <1>2. /\ SubSeq(s, 1, 4) = SubSeq(list, 5, 8) /\ SubSeq(s, 5, 12) = SubSeq(list, 9, 16)
        /\ SubSeq(s, 13, 20) = SubSeq(list, 17, 24) /\ SubSeq(s, 21, 36) = SubSeq(list, 25, 40)
    <2>1. /\ 1 \in 1 .. 38 /\ 4 \in 1 .. 38 /\ 5 \in 1 .. 38 /\ 12 \in 1 .. 38
          /\ 13 \in 1 .. 38 /\ 20 \in 1 .. 38 /\ 21 \in 1 .. 38 /\ 36 \in 1 .. 38
      OBVIOUS
    <2>2. SubSeq(s, 1, 4) = SubSeq(list, 5 + 1 - 1, 5 + 4 - 1)
      BY <1>1, <2>1, Zenon
    <2>3. SubSeq(s, 5, 12) = SubSeq(list, 5 + 5 - 1, 5 + 12 - 1)
      BY <1>1, <2>1, Zenon
    <2>4. SubSeq(s, 13, 20) = SubSeq(list, 5 + 13 - 1, 5 + 20 - 1)
      BY <1>1, <2>1, Zenon
    <2>5. SubSeq(s, 21, 36) = SubSeq(list, 5 + 21 - 1, 5 + 36 - 1)
      BY <1>1, <2>1, Zenon
    <2> QED
      BY <2>2, <2>3, <2>4, <2>5
  <1>3. s[37] = list[41] /\ s[38] = list[42]
    <2>1. \A i \in 1 .. 42 - 5 + 1 : s[i] = list[5 + i - 1]
      <3>1. 42 <= Len(list)
        OBVIOUS
      <3> QED
        BY <3>1, Slice
    <2> HIDE DEF s
    <2>2. s[37] = list[5 + 37 - 1] /\ s[38] = list[5 + 38 - 1]
      BY <2>1
    <2> QED
      BY <2>2
  <1>4. Drive(list) = DriveIn(s)
    BY DEF Drive
  <1> HIDE DEF s
  <1> QED
    BY <1>2, <1>3, <1>4, Zenon DEF DriveIn, DriveOf

\* A list that names a file on a GPT partition has its three nodes.
LEMMA GptFileRead ==
  ASSUME NEW list \in Seq(Byte), NamesGptFile(list)
  PROVE  /\ IsThreeNodes(list) /\ ValidateHardDrive(Drive(list)) /\ ValidFilePath(Path(list))
         /\ Len(list) > 52 /\ NodeLength(list, 42) = Len(list) - 46
  <1> DEFINE n == Len(list)
             l == n - 46
             a == l % 256
             b == l \div 256
             drive == [ partition_number |-> SubSeq(list, 5, 8), partition_start_lba |-> SubSeq(list, 9, 16),
                        partition_size_lba |-> SubSeq(list, 17, 24),
                        partition_signature_uefi_bytes |-> SubSeq(list, 25, 40),
                        mbr_type |-> list[41], signature_type |-> list[42] ]
  <1>0. n \in Nat
    BY LenProperties
  <1>1. /\ l > 6 /\ l % 2 = 0 /\ SubSeq(list, 1, 4) = <<4, 1, 42, 0>> /\ ValidateHardDrive(drive)
        /\ SubSeq(list, 43, 46) = <<4, 4, a, b>> /\ ValidFilePath(Units(SubSeq(list, 47, n - 6)))
        /\ SubSeq(list, n - 5, n) = <<0, 0, 127, 255, 4, 0>>
    BY Zenon DEF NamesGptFile
  <1> HIDE DEF drive, n, l, a, b
  <1>2. l \in Nat /\ n = l + 46 /\ l >= 6
    BY <1>0, <1>1 DEF l
  <1>3. a \in Nat /\ b \in Nat /\ a + 256 * b = l /\ a \in 0 .. 255
    BY <1>2 DEF a, b
  <1>4. b \in Byte /\ a \in Byte
    <2> DEFINE u == SubSeq(list, 43, 46)
               v == <<4, 4, a, b>>
    <2>1. u \in Seq(Byte) /\ Len(u) = 4
      <3>1. /\ u \in Seq(Byte) /\ Len(u) = IF 43 <= 46 THEN 46 - 43 + 1 ELSE 0
        BY <1>0, <1>2, Slice DEF n
      <3> HIDE DEF u
      <3> QED
        BY <3>1
    <2>2. v[4] = b
      BY <1>3
    <2>3. u = v
      BY <1>1
    <2> HIDE DEF u, v
    <2>4. u[4] \in Byte
      <3>1. 4 \in 1 .. Len(u)
        BY <2>1
      <3> QED
        BY <2>1, <3>1, ElementOfSeq
    <2> QED
      BY <1>3, <2>2, <2>3, <2>4 DEF Byte
  <1>5. list[42 + 1] = 4 /\ list[42 + 2] = 4 /\ list[42 + 3] = a /\ list[42 + 4] = b
    <2>1. 42 \in Nat /\ 42 + 4 <= Len(list) /\ 4 \in Byte
      BY <1>2 DEF n, Byte
    <2>2. \A m \in Nat : m + 4 <= Len(list) =>
            (SubSeq(list, m + 1, m + 4) = <<4, 4, a, b>>
               <=> list[m + 1] = 4 /\ list[m + 2] = 4 /\ list[m + 3] = a /\ list[m + 4] = b)
      BY <1>4, <2>1, FourBytes
    <2>3. SubSeq(list, 42 + 1, 42 + 4) = <<4, 4, a, b>>
            <=> list[42 + 1] = 4 /\ list[42 + 2] = 4 /\ list[42 + 3] = a /\ list[42 + 4] = b
      BY <2>1, <2>2, Zenon
    <2>4. 42 + 1 = 43 /\ 42 + 4 = 46
      OBVIOUS
    <2>5. SubSeq(list, 42 + 1, 42 + 4) = <<4, 4, a, b>>
      BY <1>1, <2>4, Zenon
    <2> QED
      BY <2>3, <2>5, Zenon
  <1>6. NodeLength(list, 42) = l
    BY <1>3, <1>5, Zenon DEF NodeLength
  <1>7. NodeFits(list, 42)
    <2>1. 42 + 4 <= Len(list) /\ l >= 4 /\ 42 + l <= Len(list) /\ 4 # 127
      BY <1>2 DEF n
    <2> QED
      BY <1>5, <1>6, <2>1, Zenon DEF NodeFits
  <1> DEFINE m == l + 40
             p == NodePayload(list, 42)
  <1>8. /\ list[m + 1] = 0 /\ list[m + 2] = 0 /\ list[m + 3] = 127 /\ list[m + 4] = 255
        /\ list[m + 5] = 4 /\ list[m + 6] = 0
    <2>1. 127 \in Byte /\ 255 \in Byte /\ 4 \in Byte /\ 0 \in Byte /\ m \in Nat /\ m + 6 <= Len(list)
      BY <1>2 DEF n, Byte
    <2>2. m + 1 = n - 5 /\ m + 6 = n
      BY <1>2
    <2> HIDE DEF m
    <2>3. SubSeq(list, m + 1, m + 6) = <<0, 0, 127, 255, 4, 0>>
      BY <1>1, <2>2, Zenon
    <2> DEFINE Six(a1, a2, a3, a4, a5, a6) ==
                 SubSeq(list, m + 1, m + 6) = <<a1, a2, a3, a4, a5, a6>>
                   <=> /\ list[m + 1] = a1 /\ list[m + 2] = a2 /\ list[m + 3] = a3
                       /\ list[m + 4] = a4 /\ list[m + 5] = a5 /\ list[m + 6] = a6
    <2>4. \A a1, a2, a3, a4, a5, a6 \in Byte : Six(a1, a2, a3, a4, a5, a6)
      BY <2>1, SixBytes, Zenon
    <2>5. Six(0, 0, 127, 255, 4, 0)
      <3> HIDE DEF Six
      <3>1. \A a4, a5, a6 \in Byte : Six(0, 0, 127, a4, a5, a6)
        BY <2>1, <2>4, Zenon
      <3> QED
        BY <2>1, <3>1, Zenon
    <2> QED
      BY <2>3, <2>5, Zenon
  <1>9. /\ PathIn(p) = Units(SubSeq(list, 47, n - 6)) /\ p \in Seq(Byte)
        /\ PathEnds(p) <=> l % 2 = 0 /\ list[l + 41] = 0 /\ list[l + 42] = 0
    BY <1>2, <1>6, <1>7, PathOfList DEF n
  <1> HIDE DEF p
  <1>10. NamesPath(p)
    <2>1. m + 1 = l + 41 /\ m + 2 = l + 42
      BY <1>2
    <2>2. PathEnds(p)
      BY <1>1, <1>8, <1>9, <2>1, Zenon
    <2> DEFINE path == PathIn(p)
    <2>3. ValidFilePath(path)
      BY <1>1, <1>9, Zenon
    <2> HIDE DEF path
    <2>4. 0 \notin ToSet(path) /\ ValidUtf16(path)
      BY <2>3 DEF ValidFilePath
    <2> QED
      BY <2>2, <2>4 DEF NamesPath, path
  <1>11. IsKind(list, 42, "FilePath")
    <2>1. 42 \in Nat
      OBVIOUS
    <2> QED
      BY <2>1, <1>5, <1>7, <1>10, FileNode, Zenon DEF p
  <1>12. IsKind(list, 0, "HardDrive") /\ NodeLength(list, 0) = 42
    <2>1. 42 <= Len(list)
      BY <1>2 DEF n
    <2> QED
      BY <1>1, <2>1, DriveNode, Zenon
  <1> DEFINE e == 42 + NodeLength(list, 42)
  <1>13. IsKind(list, e, "EndEntire") /\ e + NodeLength(list, e) = n
    <2>1. e \in Nat /\ e + 4 = n /\ e + 4 <= Len(list) /\ e = m + 2
      BY <1>2, <1>6 DEF n
    <2>2. e + 1 = m + 3 /\ e + 2 = m + 4 /\ e + 3 = m + 5 /\ e + 4 = m + 6
      BY <1>2, <2>1
    <2> HIDE DEF e, m
    <2>3. list[e + 1] = 127 /\ list[e + 2] = 255 /\ list[e + 3] = 4 /\ list[e + 4] = 0
      BY <1>8, <2>2
    <2>4. 127 \in Byte /\ 255 \in Byte /\ 4 \in Byte /\ 0 \in Byte
      BY DEF Byte
    <2>5. \A k \in Nat : k + 4 <= Len(list) =>
            (SubSeq(list, k + 1, k + 4) = <<127, 255, 4, 0>>
               <=> list[k + 1] = 127 /\ list[k + 2] = 255 /\ list[k + 3] = 4 /\ list[k + 4] = 0)
      BY <2>4, FourBytes
    <2>6. SubSeq(list, e + 1, e + 4) = <<127, 255, 4, 0>>
      BY <2>1, <2>3, <2>5, Zenon
    <2> QED
      BY <2>1, <2>6, EndNode DEF n
  <1>14. IsThreeNodes(list)
    BY <1>11, <1>12, <1>13, Zenon DEF IsThreeNodes, n
  <1>15. Drive(list) = drive
    <2>1. 42 <= Len(list)
      BY <1>2 DEF n
    <2> QED
      BY <2>1, DriveOfList DEF DriveOf, drive
  <1>16. n > 52
    BY <1>1, <1>2
  <1> QED
    BY <1>1, <1>6, <1>14, <1>15, <1>16, Zenon DEF Path, n, l

\* A list of three nodes of which each is what it should be names such a file.
LEMMA GptFileNamed ==
  ASSUME NEW list \in Seq(Byte), IsThreeNodes(list), ValidateHardDrive(Drive(list)),
         ValidFilePath(PathIn(NodePayload(list, 42)))
  PROVE  NamesGptFile(list)
  <1> DEFINE n == Len(list)
             l == NodeLength(list, 42)
             e == 42 + l
             p == NodePayload(list, 42)
             path == PathIn(p)
  <1>0. n \in Nat
    BY LenProperties
  <1>1. /\ IsKind(list, 0, "HardDrive") /\ NodeLength(list, 0) = 42
        /\ IsKind(list, 42, "FilePath") /\ IsKind(list, e, "EndEntire") /\ e + NodeLength(list, e) = n
    BY Zenon DEF IsThreeNodes
  <1>2. 42 <= n /\ SubSeq(list, 1, 4) = <<4, 1, 42, 0>>
    BY <1>1, DriveNode, Zenon
  <1>3. NodeFits(list, 42) /\ list[42 + 1] = 4 /\ list[42 + 2] = 4 /\ NamesPath(p)
    <2>1. 42 \in Nat
      OBVIOUS
    <2> QED
      BY <1>1, <2>1, FileNode, Zenon
  <1>4. /\ p \in Seq(Byte) /\ Len(p) = l - 4 /\ l \in Nat
    <2>1. 42 \in Nat
      OBVIOUS
    <2> QED
      BY <1>3, <2>1, PayloadIs, Zenon
  <1>5. 42 + 4 <= n /\ l >= 4
    BY <1>3 DEF NodeFits
  <1>6. e \in Nat
    <2> HIDE DEF l
    <2> QED
      BY <1>4
  <1>7. e + 4 = n /\ SubSeq(list, e + 1, e + 4) = <<127, 255, 4, 0>>
    <2> HIDE DEF e
    <2> QED
      BY <1>1, <1>6, EndNode
  <1>8. PathEnds(p)
    BY <1>3 DEF NamesPath
  <1>9. Len(p) = 2 * (Len(path) + 1) /\ Len(path) \in Nat /\ Len(p) >= 2 /\ Len(p) % 2 = 0
    <2> HIDE DEF p
    <2>1. Len(p) >= 2 /\ Len(p) % 2 = 0
      BY <1>8 DEF PathEnds
    <2> QED
      BY <1>4, <2>1, PathUnits
  <1>10. Len(path) > 1
    BY Zenon DEF ValidFilePath
  <1> HIDE DEF p, path, l, n
  <1>11. l >= 6 /\ l > 6 /\ l % 2 = 0 /\ n = l + 46 /\ n - 46 = l
    <2> DEFINE k == Len(path)
               c == Len(p)
    <2>1. c = 2 * (k + 1) /\ k \in Nat /\ k > 1 /\ c = l - 4 /\ l \in Nat /\ e + 4 = n /\ n \in Nat
      BY <1>0, <1>4, <1>7, <1>9, <1>10
    <2> HIDE DEF k, c
    <2> QED
      BY <2>1
  <1>12. /\ path = Units(SubSeq(list, 47, n - 6))
         /\ list[l + 41] = 0 /\ list[l + 42] = 0
    <2>1. /\ path = Units(SubSeq(list, 47, Len(list) - 6))
          /\ PathEnds(p) <=> l % 2 = 0 /\ list[l + 41] = 0 /\ list[l + 42] = 0
      BY <1>3, <1>4, <1>11, PathOfList DEF path, p, l, n
    <2> QED
      BY <1>8, <2>1 DEF n
  <1>13. SubSeq(list, 43, 46) = <<4, 4, l % 256, l \div 256>>
    <2> DEFINE a == list[42 + 3]
               b == list[42 + 4]
    <2>1. a \in 0 .. 255 /\ b \in 0 .. 255
      <3>1. 42 + 3 \in 1 .. Len(list) /\ 42 + 4 \in 1 .. Len(list)
        BY <1>0, <1>5 DEF n
      <3> QED
        BY <3>1, ByteAt, Zenon
    <2>2. l = a + 256 * b
      BY DEF l, NodeLength
    <2>3. 42 \in Nat /\ 42 + 4 <= Len(list) /\ 4 \in Byte /\ a \in Byte /\ b \in Byte
      BY <1>5, <2>1 DEF n, Byte
    <2>4. list[42 + 3] = a /\ list[42 + 4] = b
      OBVIOUS
    <2> HIDE DEF a, b
    <2>5. l % 256 = a /\ l \div 256 = b
      BY <2>1, <2>2, BytesOfWord
    <2>6. \A m \in Nat : m + 4 <= Len(list) =>
            (SubSeq(list, m + 1, m + 4) = <<4, 4, a, b>>
               <=> list[m + 1] = 4 /\ list[m + 2] = 4 /\ list[m + 3] = a /\ list[m + 4] = b)
      BY <2>3, FourBytes
    <2>7. SubSeq(list, 42 + 1, 42 + 4) = <<4, 4, a, b>>
      BY <1>3, <2>3, <2>4, <2>6, Zenon
    <2>8. 42 + 1 = 43 /\ 42 + 4 = 46
      OBVIOUS
    <2> QED
      BY <2>5, <2>7, <2>8, Zenon
  <1>14. SubSeq(list, n - 5, n) = <<0, 0, 127, 255, 4, 0>>
    <2> DEFINE m == l + 40
    <2>1. 127 \in Byte /\ 255 \in Byte /\ 4 \in Byte /\ 0 \in Byte /\ m \in Nat /\ m + 6 <= Len(list)
      BY <1>4, <1>11 DEF n, Byte
    <2>2. /\ m + 1 = n - 5 /\ m + 6 = n /\ m + 1 = l + 41 /\ m + 2 = l + 42
          /\ m + 3 = e + 1 /\ m + 4 = e + 2 /\ m + 5 = e + 3 /\ m + 6 = e + 4
      BY <1>4, <1>11
    <2>3. e + 4 <= Len(list)
      BY <1>0, <1>7 DEF n
    <2> HIDE DEF m, e
    <2>4. list[e + 1] = 127 /\ list[e + 2] = 255 /\ list[e + 3] = 4 /\ list[e + 4] = 0
      <3>1. \A k \in Nat : k + 4 <= Len(list) =>
              (SubSeq(list, k + 1, k + 4) = <<127, 255, 4, 0>>
                 <=> list[k + 1] = 127 /\ list[k + 2] = 255 /\ list[k + 3] = 4 /\ list[k + 4] = 0)
        BY <2>1, FourBytes
      <3> QED
        BY <1>6, <1>7, <2>3, <3>1, Zenon
    <2>5. /\ list[m + 1] = 0 /\ list[m + 2] = 0 /\ list[m + 3] = 127 /\ list[m + 4] = 255
          /\ list[m + 5] = 4 /\ list[m + 6] = 0
      <3>1. list[m + 1] = 0 /\ list[m + 2] = 0
        BY <1>12, <2>2, Zenon
      <3>a. m + 3 = e + 1
        BY <2>2
      <3>b. m + 4 = e + 2
        BY <2>2
      <3>c. list[m + 3] = list[e + 1] /\ list[m + 4] = list[e + 2]
        BY <3>a, <3>b, Zenon
      <3>2. list[m + 3] = 127 /\ list[m + 4] = 255
        BY <3>c, <2>4
      <3>3. list[m + 5] = 4 /\ list[m + 6] = 0
        BY <2>2, <2>4, Zenon
      <3> QED
        BY <3>1, <3>2, <3>3
    <2> DEFINE Six(a1, a2, a3, a4, a5, a6) ==
                 SubSeq(list, m + 1, m + 6) = <<a1, a2, a3, a4, a5, a6>>
                   <=> /\ list[m + 1] = a1 /\ list[m + 2] = a2 /\ list[m + 3] = a3
                       /\ list[m + 4] = a4 /\ list[m + 5] = a5 /\ list[m + 6] = a6
    <2>6. \A a1, a2, a3, a4, a5, a6 \in Byte : Six(a1, a2, a3, a4, a5, a6)
      BY <2>1, SixBytes, Zenon
    <2>7. Six(0, 0, 127, 255, 4, 0)
      <3> HIDE DEF Six
      <3>1. \A a4, a5, a6 \in Byte : Six(0, 0, 127, a4, a5, a6)
        BY <2>1, <2>6, Zenon
      <3> QED
        BY <2>1, <3>1, Zenon
    <2> QED
      BY <2>2, <2>5, <2>7, Zenon
  <1>15. ValidateHardDrive(DriveOf(list))
    BY <1>2, DriveOfList DEF n
  <1>16. ValidFilePath(Units(SubSeq(list, 47, n - 6)))
    BY <1>12 DEF path, p
  <1> QED
    BY <1>2, <1>11, <1>13, <1>14, <1>15, <1>16, Zenon DEF NamesGptFile, DriveOf, n

\* Of the rules for the three nodes, only those on the partition and the
\* components of the path are not met by every node that is parsed.
LEMMA CanonicalIs ==
  ASSUME NEW list \in Seq(Byte), IsThreeNodes(list)
  PROVE  /\ CanonicalHardDrive(ParsedAt(list, 0)) <=> ValidateHardDrive(Drive(list))
         /\ CanonicalFilePath(ParsedAt(list, 42)) <=> ValidFilePath(PathIn(NodePayload(list, 42)))
         /\ CanonicalEnd(ParsedAt(list, 42 + NodeLength(list, 42)))
         /\ ParsedAt(list, 0).says = Drive(list)
         /\ ParsedAt(list, 42).says = PathIn(NodePayload(list, 42))
         /\ ParsedAt(list, 42 + NodeLength(list, 42)).says = <<>>
         /\ ParsedAt(list, 42).node.length = 4 + 2 * (Len(PathIn(NodePayload(list, 42))) + 1)
         /\ ParsedAt(list, 42).node.length = NodeLength(list, 42)
  <1> DEFINE p == ParsedAt(list, 0)
             q == ParsedAt(list, 42)
             o == 42 + NodeLength(list, 42)
             e == ParsedAt(list, o)
             payload == NodePayload(list, 42)
             path == PathIn(payload)
             drive == Drive(list)
             data == SubSeq(list, 5, 42)
  <1>0. Len(list) \in Nat
    BY LenProperties
  <1>1. /\ IsKind(list, 0, "HardDrive") /\ NodeLength(list, 0) = 42
        /\ IsKind(list, 42, "FilePath") /\ IsKind(list, o, "EndEntire")
    BY Zenon DEF IsThreeNodes
  <1>2. /\ 42 <= Len(list) /\ p = [node |-> NodeAt(list, 0), kind |-> "HardDrive", says |-> drive]
        /\ NodeAt(list, 0).payload = data /\ NodeAt(list, 0).length = 42
    BY <1>1, DriveNode, Zenon DEF Drive
  <1>3. /\ q = [node |-> NodeAt(list, 42), kind |-> "FilePath", says |-> path]
        /\ NodeAt(list, 42).payload = payload /\ NodeAt(list, 42).length = NodeLength(list, 42)
        /\ NamesPath(payload) /\ NodeFits(list, 42)
    <2>1. 42 \in Nat
      OBVIOUS
    <2> QED
      BY <1>1, <2>1, FileNode, Zenon
  <1>4. payload \in Seq(Byte) /\ Len(payload) = NodeLength(list, 42) - 4 /\ NodeLength(list, 42) \in Nat
    <2>1. 42 \in Nat
      OBVIOUS
    <2> QED
      BY <1>3, <2>1, PayloadIs, Zenon
  <1>5. /\ e = [node |-> NodeAt(list, o), kind |-> "EndEntire", says |-> <<>>]
        /\ NodeAt(list, o).length = 4
    <2>1. o \in Nat
      <3> DEFINE l == NodeLength(list, 42)
      <3> HIDE DEF l
      <3>1. l \in Nat => 42 + l \in Nat
        OBVIOUS
      <3> QED
        BY <1>4, <3>1 DEF l
    <2> HIDE DEF o
    <2> QED
      BY <1>1, <2>1, EndNode
  <1>6. DriveBytes(drive) = data
    <2>1. data \in Seq(Byte) /\ Len(data) = 38
      <3> DEFINE m == 5
                 n == 42
      <3>0. m \in Int /\ n \in Int /\ 1 <= m /\ n <= Len(list) /\ m <= n /\ n - m + 1 = 38
        BY <1>2
      <3> HIDE DEF m, n
      <3>1. SubSeq(list, m, n) \in Seq(Byte) /\ Len(SubSeq(list, m, n)) = IF m <= n THEN n - m + 1 ELSE 0
        BY <3>0, Slice
      <3>2. data = SubSeq(list, m, n)
        BY DEF m, n
      <3> HIDE DEF data
      <3> QED
        BY <3>0, <3>1, <3>2, Zenon
    <2> HIDE DEF data
    <2>2. DriveBytes(DriveIn(data)) = data
      BY <2>1, DrivePayload
    <2> QED
      BY <2>2 DEF Drive, data
  <1>7. CanonicalHardDrive(p) <=> ValidateHardDrive(drive)
    <2> DEFINE b == DriveBytes(drive)
    <2>1. b = drive.partition_number \o drive.partition_start_lba
                \o drive.partition_size_lba \o drive.partition_signature_uefi_bytes
                \o <<drive.mbr_type, drive.signature_type>>
      BY Zenon DEF DriveBytes
    <2>2. p.kind = "HardDrive" /\ p.node.length = 42 /\ p.says = drive /\ p.node.payload = b
      <3> HIDE DEF drive, b, data, p
      <3>1. p.kind = "HardDrive" /\ p.node = NodeAt(list, 0) /\ p.says = drive
        BY <1>2
      <3> QED
        BY <1>2, <1>6, <3>1 DEF b
    <2> HIDE DEF b, p, drive
    <2> QED
      BY <2>1, <2>2, Zenon DEF CanonicalHardDrive
  <1>8. /\ Len(payload) = 2 * (Len(path) + 1) /\ Len(path) \in Nat /\ payload = UnitBytes(path) \o <<0, 0>>
    <2> HIDE DEF payload
    <2>1. PathEnds(payload)
      BY <1>3 DEF NamesPath
    <2>2. Len(payload) >= 2 /\ Len(payload) % 2 = 0 /\ payload[Len(payload) - 1] = 0 /\ payload[Len(payload)] = 0
      BY <2>1 DEF PathEnds
    <2>3. /\ Len(payload) = 2 * (Len(PathIn(payload)) + 1) /\ Len(PathIn(payload)) \in Nat
          /\ payload = UnitBytes(PathIn(payload)) \o <<payload[Len(payload) - 1], payload[Len(payload)]>>
      BY <1>4, <2>2, PathUnits
    <2> QED
      BY <2>2, <2>3, Zenon
  <1>9. NodeLength(list, 42) = 4 + 2 * (Len(path) + 1)
    <2> DEFINE l == NodeLength(list, 42)
               c == Len(payload)
               k == Len(path)
    <2>1. l \in Nat /\ c = l - 4 /\ c = 2 * (k + 1) /\ k \in Nat
      BY <1>4, <1>8
    <2> HIDE DEF l, c, k
    <2>2. l = 4 + 2 * (k + 1)
      BY <2>1
    <2> QED
      BY <2>2 DEF l, k
  <1>10. /\ q.kind = "FilePath" /\ q.node.length = NodeLength(list, 42)
         /\ q.says = path /\ q.node.payload = payload
    <2> HIDE DEF path, payload, q
    <2>1. q.kind = "FilePath" /\ q.node = NodeAt(list, 42) /\ q.says = path
      BY <1>3
    <2> QED
      BY <1>3, <2>1
  <1>11. CanonicalFilePath(q) <=> ValidFilePath(path)
    <2> HIDE DEF path, payload, q
    <2> QED
      BY <1>8, <1>9, <1>10, Zenon DEF CanonicalFilePath
  <1>12. CanonicalEnd(e) /\ e.says = <<>>
    <2> HIDE DEF e
    <2>1. e.kind = "EndEntire" /\ e.node = NodeAt(list, o) /\ e.says = <<>>
      BY <1>5
    <2> QED
      BY <1>5, <2>1 DEF CanonicalEnd
  <1>13. p.says = drive
    <2> HIDE DEF p, drive
    <2> QED
      BY <1>2
  <1> QED
    BY <1>7, <1>9, <1>10, <1>11, <1>12, <1>13, Zenon DEF p, q, o, e, payload, path, drive

\* What canonicalize asks of the paths of an option.
Taken(paths) ==
  /\ Len(paths) = 1 /\ Len(paths[1]) = 3
  /\ CanonicalHardDrive(paths[1][1]) /\ CanonicalFilePath(paths[1][2]) /\ CanonicalEnd(paths[1][3])

\* It takes the lists that name a file on a GPT partition and no others.
LEMMA ListTaken ==
  ASSUME NEW list \in Seq(Byte)
  PROVE  /\ \A paths : ParsePaths(list) = <<paths>> /\ Taken(paths) => NamesGptFile(list)
         /\ NamesGptFile(list) => ParsePaths(list) = <<ThreeNodes(list)>> /\ Taken(ThreeNodes(list))
  <1>1. ASSUME NEW paths, ParsePaths(list) = <<paths>>, Taken(paths)
        PROVE  NamesGptFile(list)
    <2>1. /\ Len(paths) = 1 /\ Len(paths[1]) = 3
          /\ paths[1][1].kind = "HardDrive" /\ paths[1][1].node.length = 42
          /\ paths[1][2].kind = "FilePath" /\ paths[1][3].kind = "EndEntire"
          /\ CanonicalHardDrive(paths[1][1]) /\ CanonicalFilePath(paths[1][2])
      BY <1>1, Zenon DEF Taken, CanonicalHardDrive, CanonicalFilePath, CanonicalEnd
    <2>2. IsThreeNodes(list) /\ paths[1][1] = ParsedAt(list, 0) /\ paths[1][2] = ParsedAt(list, 42)
      BY <1>1, <2>1, ThreeNodesRead
    <2>3. /\ CanonicalHardDrive(ParsedAt(list, 0)) <=> ValidateHardDrive(Drive(list))
          /\ CanonicalFilePath(ParsedAt(list, 42)) <=> ValidFilePath(PathIn(NodePayload(list, 42)))
      BY <2>2, CanonicalIs
    <2>4. ValidateHardDrive(Drive(list)) /\ ValidFilePath(PathIn(NodePayload(list, 42)))
      BY <2>1, <2>2, <2>3, Zenon
    <2> QED
      BY <2>2, <2>4, GptFileNamed
  <1>2. ASSUME NamesGptFile(list)
        PROVE  ParsePaths(list) = <<ThreeNodes(list)>> /\ Taken(ThreeNodes(list))
    <2> DEFINE l == NodeLength(list, 42)
    <2>1. /\ IsThreeNodes(list) /\ ValidateHardDrive(Drive(list)) /\ ValidFilePath(Path(list))
          /\ Len(list) > 52 /\ l = Len(list) - 46
      BY <1>2, GptFileRead
    <2>2. PathIn(NodePayload(list, 42)) = Path(list)
      <3>1. Len(list) \in Nat
        BY LenProperties
      <3>2. NodeFits(list, 42)
        BY <2>1 DEF IsThreeNodes, IsKind
      <3>3. l \in Nat /\ l >= 6 /\ Len(list) = l + 46
        BY <2>1, <3>1
      <3> HIDE DEF l
      <3>4. NodeLength(list, 42) = l
        BY DEF l
      <3> QED
        BY <3>2, <3>3, <3>4, PathOfList DEF Path
    <2>3. /\ CanonicalHardDrive(ParsedAt(list, 0)) /\ CanonicalFilePath(ParsedAt(list, 42))
          /\ CanonicalEnd(ParsedAt(list, 42 + l))
      BY <2>1, <2>2, CanonicalIs, Zenon
    <2>4. ParsePaths(list) = <<ThreeNodes(list)>>
      BY <2>1, ThreeNodesParsed
    <2> DEFINE a == ParsedAt(list, 0)
               b == ParsedAt(list, 42)
               c == ParsedAt(list, 42 + l)
               t == << <<a, b, c>> >>
    <2>5. ThreeNodes(list) = t
      BY DEF ThreeNodes
    <2> HIDE DEF a, b, c
    <2>6. Len(t) = 1 /\ Len(t[1]) = 3 /\ t[1][1] = a /\ t[1][2] = b /\ t[1][3] = c
      OBVIOUS
    <2> HIDE DEF t
    <2>7. Taken(t)
      BY <2>3, <2>6, Zenon DEF Taken, a, b, c
    <2> QED
      BY <2>4, <2>5, <2>7
  <1> QED
    BY <1>1, <1>2

\* What is kept of the nodes of a list, and the list they were read from.
NodesOf(list) == [i \in 1 .. 3 |-> CanonicalNode(ThreeNodes(list)[1][i])]

ListOf(nodes) ==
  <<4, 1, 42, 0>> \o DriveBytes(nodes[1].says)
    \o <<4, 4, nodes[2].length % 256, nodes[2].length \div 256>>
    \o (UnitBytes(nodes[2].says) \o <<0, 0>>) \o <<127, 255, 4, 0>>

\* The nodes of a list that names a file on a GPT partition.
LEMMA NodesAre ==
  ASSUME NEW list \in Seq(Byte), NamesGptFile(list)
  PROVE  /\ NodesOf(list)[1].says = Drive(list)
         /\ NodesOf(list)[2].says = Path(list) /\ NodesOf(list)[2].length = Len(list) - 46
         /\ NodesOf(list)[1] = [ kind |-> "HardDrive", type |-> 4, subtype |-> 1, length |-> 42, says |-> Drive(list) ]
         /\ NodesOf(list)[2] = [ kind |-> "FilePath", type |-> 4, subtype |-> 4, length |-> Len(list) - 46,
                                 says |-> Path(list) ]
         /\ NodesOf(list)[3] = [ kind |-> "EndEntire", type |-> 127, subtype |-> 255, length |-> 4, says |-> <<>> ]
         /\ Len(list) - 46 = 4 + 2 * (Len(Path(list)) + 1)
         /\ NodePayload(list, 42) = SubSeq(list, 47, Len(list) - 4)
         /\ NodePayload(list, 42) = UnitBytes(Path(list)) \o <<0, 0>>
  <1> DEFINE n == Len(list)
             l == NodeLength(list, 42)
             o == 42 + l
             p == ParsedAt(list, 0)
             q == ParsedAt(list, 42)
             e == ParsedAt(list, o)
             payload == NodePayload(list, 42)
             path == Path(list)
             t == ThreeNodes(list)
  <1>0. n \in Nat
    BY LenProperties
  <1>1. IsThreeNodes(list) /\ n > 52 /\ l = n - 46
    BY GptFileRead
  <1>2. /\ IsKind(list, 0, "HardDrive") /\ NodeLength(list, 0) = 42
        /\ IsKind(list, 42, "FilePath") /\ IsKind(list, o, "EndEntire")
    BY <1>1, Zenon DEF IsThreeNodes
  <1>3. l \in Nat /\ l >= 6 /\ n = l + 46 /\ o \in Nat /\ 42 \in Nat
    <2> HIDE DEF l, n
    <2> QED
      BY <1>0, <1>1
  <1>4. NodeFits(list, 42) /\ NamesPath(payload)
    BY <1>2, <1>3, FileNode, Zenon DEF IsKind
  <1>5. PathIn(payload) = path /\ payload \in Seq(Byte)
    <2> DEFINE k == l
    <2>1. k \in Nat /\ k >= 6 /\ Len(list) = k + 46 /\ NodeLength(list, 42) = k
      BY <1>3
    <2> HIDE DEF k
    <2> QED
      BY <1>4, <2>1, PathOfList DEF Path
  <1>6. p.says = Drive(list) /\ q.says = path /\ l = 4 + 2 * (Len(path) + 1) /\ e.says = <<>>
    <2>1. /\ p.says = Drive(list) /\ q.says = PathIn(payload) /\ e.says = <<>>
          /\ q.node.length = 4 + 2 * (Len(PathIn(payload)) + 1) /\ q.node.length = l
      BY <1>1, CanonicalIs
    <2> QED
      BY <1>5, <2>1, Zenon
  <1>7. /\ p.kind = "HardDrive" /\ p.node.type = 4 /\ p.node.subtype = 1 /\ p.node.length = 42
    <2>1. /\ p = [node |-> NodeAt(list, 0), kind |-> "HardDrive", says |-> DriveIn(SubSeq(list, 5, 42))]
          /\ NodeAt(list, 0).length = 42 /\ NodeAt(list, 0).type = 4 /\ NodeAt(list, 0).subtype = 1
      BY <1>2, DriveNode, Zenon
    <2> HIDE DEF p
    <2>2. p.kind = "HardDrive" /\ p.node = NodeAt(list, 0)
      BY <2>1
    <2> QED
      BY <2>1, <2>2
  <1>8. /\ q.kind = "FilePath" /\ q.node.type = 4 /\ q.node.subtype = 4 /\ q.node.length = l
    <2>1. /\ q = [node |-> NodeAt(list, 42), kind |-> "FilePath", says |-> PathIn(payload)]
          /\ NodeAt(list, 42).length = l /\ NodeAt(list, 42).type = 4 /\ NodeAt(list, 42).subtype = 4
      BY <1>2, <1>3, FileNode, Zenon
    <2> HIDE DEF q, payload
    <2>2. q.kind = "FilePath" /\ q.node = NodeAt(list, 42)
      BY <2>1
    <2> QED
      BY <2>1, <2>2
  <1>9. /\ e.kind = "EndEntire" /\ e.node.type = 127 /\ e.node.subtype = 255 /\ e.node.length = 4
    <2> HIDE DEF o
    <2>1. /\ e = [node |-> NodeAt(list, o), kind |-> "EndEntire", says |-> <<>>]
          /\ NodeAt(list, o).length = 4 /\ NodeAt(list, o).type = 127 /\ NodeAt(list, o).subtype = 255
      BY <1>2, <1>3, EndNode
    <2> HIDE DEF e
    <2>2. e.kind = "EndEntire" /\ e.node = NodeAt(list, o)
      BY <2>1
    <2> QED
      BY <2>1, <2>2
  <1>10. t[1][1] = p /\ t[1][2] = q /\ t[1][3] = e
    <2>1. t = << <<p, q, e>> >>
      BY DEF ThreeNodes
    <2> HIDE DEF t, p, q, e
    <2> QED
      BY <2>1
  <1>11. /\ NodesOf(list)[1] = CanonicalNode(p) /\ NodesOf(list)[2] = CanonicalNode(q)
         /\ NodesOf(list)[3] = CanonicalNode(e)
    <2> HIDE DEF t, p, q, e
    <2>1. NodesOf(list) = [i \in 1 .. 3 |-> CanonicalNode(t[1][i])]
      BY DEF NodesOf, t
    <2> QED
      BY <1>10, <2>1
  <1>12. NodesOf(list)[1] = [ kind |-> "HardDrive", type |-> 4, subtype |-> 1, length |-> 42, says |-> Drive(list) ]
    BY <1>6, <1>7, <1>11, Zenon DEF CanonicalNode
  <1>13. NodesOf(list)[2] = [ kind |-> "FilePath", type |-> 4, subtype |-> 4, length |-> n - 46, says |-> path ]
    BY <1>1, <1>6, <1>8, <1>11, Zenon DEF CanonicalNode
  <1>14. NodesOf(list)[3] = [ kind |-> "EndEntire", type |-> 127, subtype |-> 255, length |-> 4, says |-> <<>> ]
    BY <1>6, <1>9, <1>11, Zenon DEF CanonicalNode
  <1>15. payload = SubSeq(list, 47, n - 4)
    <2>1. 42 + 5 = 47 /\ 42 + l = n - 4
      <3> HIDE DEF l, n
      <3> QED
        BY <1>3
    <2> QED
      BY <2>1, Zenon DEF NodePayload
  <1>16. payload = UnitBytes(path) \o <<0, 0>>
    <2> HIDE DEF payload
    <2>1. PathEnds(payload)
      BY <1>4 DEF NamesPath
    <2>2. /\ Len(payload) >= 2 /\ Len(payload) % 2 = 0
          /\ payload[Len(payload) - 1] = 0 /\ payload[Len(payload)] = 0
      BY <2>1 DEF PathEnds
    <2>3. payload = UnitBytes(PathIn(payload)) \o <<payload[Len(payload) - 1], payload[Len(payload)]>>
      BY <1>5, <2>2, PathUnits
    <2> QED
      BY <1>5, <2>2, <2>3, Zenon
  <1> DEFINE N == NodesOf(list)
             d == Drive(list)
  <1>17. N[1].says = d /\ N[2].says = path /\ N[2].length = n - 46
    <2> HIDE DEF path, n, d
    <2> QED
      BY <1>12, <1>13 DEF d
  <1> QED
    BY <1>1, <1>6, <1>12, <1>13, <1>14, <1>15, <1>16, <1>17, Zenon

\* Nothing of such a list is lost in its nodes.
LEMMA ListOfNodes ==
  ASSUME NEW list \in Seq(Byte), NamesGptFile(list)
  PROVE  list = ListOf(NodesOf(list))
  <1> DEFINE n == Len(list)
             k == n - 4
             N == NodesOf(list)
  <1>0. n \in Nat
    BY LenProperties
  <1>1. n > 52 /\ IsThreeNodes(list)
    BY GptFileRead
  <1>2. /\ N[1].says = Drive(list) /\ N[2].says = Path(list) /\ N[2].length = n - 46
        /\ NodePayload(list, 42) = SubSeq(list, 47, k)
        /\ NodePayload(list, 42) = UnitBytes(Path(list)) \o <<0, 0>>
    BY NodesAre
  <1>3. /\ SubSeq(list, 1, 4) = <<4, 1, 42, 0>>
        /\ SubSeq(list, 43, 46) = <<4, 4, (n - 46) % 256, (n - 46) \div 256>>
        /\ SubSeq(list, n - 5, n) = <<0, 0, 127, 255, 4, 0>>
    BY Zenon DEF NamesGptFile
  <1>4. DriveBytes(Drive(list)) = SubSeq(list, 5, 42)
    <2> DEFINE data == SubSeq(list, 5, 42)
    <2>1. data \in Seq(Byte) /\ Len(data) = 38
      <3> DEFINE a == 5
                 b == 42
      <3>0. a \in Int /\ b \in Int /\ 1 <= a /\ b <= Len(list) /\ a <= b /\ b - a + 1 = 38
        BY <1>0, <1>1
      <3> HIDE DEF a, b
      <3>1. SubSeq(list, a, b) \in Seq(Byte) /\ Len(SubSeq(list, a, b)) = IF a <= b THEN b - a + 1 ELSE 0
        BY <3>0, Slice
      <3>2. data = SubSeq(list, a, b)
        BY DEF a, b
      <3> HIDE DEF data
      <3> QED
        BY <3>0, <3>1, <3>2, Zenon
    <2> HIDE DEF data
    <2>2. DriveBytes(DriveIn(data)) = data
      BY <2>1, DrivePayload
    <2> QED
      BY <2>2 DEF Drive, data
  <1>5. SubSeq(list, n - 3, n) = <<127, 255, 4, 0>>
    <2> DEFINE o == 42 + NodeLength(list, 42)
    <2>1. IsKind(list, o, "EndEntire") /\ o + NodeLength(list, o) = n
      BY <1>1, Zenon DEF IsThreeNodes
    <2>2. o \in Nat
      <3>1. NodeLength(list, 42) = n - 46
        BY GptFileRead
      <3> QED
        BY <1>0, <1>1, <3>1
    <2> HIDE DEF o
    <2>3. o + 4 = Len(list) /\ SubSeq(list, o + 1, o + 4) = <<127, 255, 4, 0>>
      BY <2>1, <2>2, EndNode
    <2>4. o + 1 = n - 3 /\ o + 4 = n
      BY <2>2, <2>3
    <2> QED
      BY <2>3, <2>4, Zenon
  <1>6. SubSeq(list, 1, 4) \o SubSeq(list, 5, 42) = SubSeq(list, 1, 42)
    <2>1. SubSeq(list, 0 + 1, 4) \o SubSeq(list, 4 + 1, 42) = SubSeq(list, 0 + 1, 42)
      BY <1>0, <1>1, Adjacent
    <2> QED
      BY <2>1
  <1>7. SubSeq(list, 1, 42) \o SubSeq(list, 43, 46) = SubSeq(list, 1, 46)
    <2>1. SubSeq(list, 0 + 1, 42) \o SubSeq(list, 42 + 1, 46) = SubSeq(list, 0 + 1, 46)
      BY <1>0, <1>1, Adjacent
    <2> QED
      BY <2>1
  <1>8. SubSeq(list, 1, 46) \o SubSeq(list, 47, k) = SubSeq(list, 1, k)
    <2>1. k \in Nat /\ 46 <= k /\ k <= Len(list)
      BY <1>0, <1>1
    <2> HIDE DEF k
    <2>2. SubSeq(list, 0 + 1, 46) \o SubSeq(list, 46 + 1, k) = SubSeq(list, 0 + 1, k)
      BY <2>1, Adjacent
    <2>3. 0 + 1 = 1 /\ 46 + 1 = 47
      OBVIOUS
    <2> QED
      BY <2>2, <2>3, Zenon
  <1>9. SubSeq(list, 1, k) \o SubSeq(list, n - 3, n) = list
    <2>1. k \in Nat /\ 0 <= k /\ k <= n /\ n <= Len(list) /\ k + 1 = n - 3
      BY <1>0, <1>1
    <2> HIDE DEF k
    <2>2. SubSeq(list, 0 + 1, k) \o SubSeq(list, k + 1, n) = SubSeq(list, 0 + 1, n)
      BY <1>0, <2>1, Adjacent
    <2>3. SubSeq(list, 1, n) = list
      BY SubSeqFull
    <2>4. 0 + 1 = 1
      OBVIOUS
    <2> QED
      BY <2>1, <2>2, <2>3, <2>4, Zenon
  <1> HIDE DEF n, k, N
  <1>10. ListOf(N) = list
    <2> DEFINE s1 == SubSeq(list, 1, 4)
               s2 == SubSeq(list, 5, 42)
               s3 == SubSeq(list, 43, 46)
               s4 == SubSeq(list, 47, k)
               s5 == SubSeq(list, n - 3, n)
    <2>1. ListOf(N) = s1 \o s2 \o s3 \o s4 \o s5
      BY <1>2, <1>3, <1>4, <1>5, ZenonT(30) DEF ListOf
    <2> QED
      BY <1>6, <1>7, <1>8, <1>9, <2>1, Zenon
  <1> QED
    BY <1>10 DEF N

-----------------------------------------------------------------------------
(* load_option.rs: an option, and the identity made of it. *)

ListLength(bytes) == Word(SubSeq(bytes, 5, 6))
Data(bytes) == SubSeq(bytes, DescriptionEnd(bytes) + ListLength(bytes) + 1, Len(bytes))
DescriptionOf(bytes) == Units(SubSeq(bytes, 7, DescriptionEnd(bytes) - 2))

Laid(bytes) ==
  /\ Len(bytes) <= MaxOptionBytes /\ 6 <= Len(bytes) /\ Described(bytes)
  /\ DescriptionEnd(bytes) + ListLength(bytes) <= Len(bytes)

OptionOf(bytes) ==
  [ attributes |-> SubSeq(bytes, 1, 4), description_utf16 |-> DescriptionOf(bytes),
    file_path_list_length |-> ListLength(bytes), file_paths |-> ParsePaths(PathList(bytes))[1],
    optional_data |-> Data(bytes) ]

OptionRead(bytes, header, length, description) ==
  Then(Then(Get(bytes, description.end, length), ParsePaths),
       LAMBDA paths :
          When(ValidUtf16(description.units),
               [ attributes |-> SubSeq(header, 1, 4),
                 description_utf16 |-> description.units,
                 file_path_list_length |-> length,
                 file_paths |-> paths,
                 optional_data |-> SubSeq(bytes, description.end + length + 1, Len(bytes)) ]))

\* parse_load_option, from the header and the description on.
LEMMA OptionIs ==
  ASSUME NEW bytes
  PROVE  ParseLoadOption(bytes) =
           IF Len(bytes) > MaxOptionBytes \/ Get(bytes, 0, 6) = <<>> \/ ReadDescription(bytes) = <<>>
           THEN <<>>
           ELSE OptionRead(bytes, Get(bytes, 0, 6)[1], Word(SubSeq(Get(bytes, 0, 6)[1], 5, 6)),
                           ReadDescription(bytes)[1])
  BY Zenon DEF ParseLoadOption, OptionRead, Then

\* The end of it is reached by an entry whose path list lies within the bytes
\* and is read, and whose description can be shown.
LEMMA OptionReadIs ==
  ASSUME NEW bytes, NEW header, NEW length, NEW description
  PROVE  LET list == SubSeq(bytes, description.end + 1, description.end + length)
         IN  OptionRead(bytes, header, length, description) =
               IF /\ description.end + length <= Len(bytes) /\ ParsePaths(list) # <<>>
                  /\ ValidUtf16(description.units)
               THEN << [ attributes |-> SubSeq(header, 1, 4),
                         description_utf16 |-> description.units,
                         file_path_list_length |-> length,
                         file_paths |-> ParsePaths(list)[1],
                         optional_data |-> SubSeq(bytes, description.end + length + 1, Len(bytes)) ] >>
               ELSE <<>>
  <1> DEFINE end == description.end
             list == SubSeq(bytes, end + 1, end + length)
             got == Get(bytes, end, length)
             paths == ParsePaths(list)
  <1>0. <<list>> # <<>> /\ <<list>>[1] = list
    OBVIOUS
  <1>1. CASE end + length <= Len(bytes)
    <2>1. got = <<list>>
      BY <1>1, Zenon DEF Get, When
    <2>2. Then(got, ParsePaths) = paths
      BY <1>0, <2>1, Zenon DEF Then
    <2> QED
      BY <1>1, <2>2, Zenon DEF OptionRead, Then, When
  <1>2. CASE ~(end + length <= Len(bytes))
    <2>1. got = <<>>
      BY <1>2, Zenon DEF Get, When
    <2> QED
      BY <1>2, <2>1, Zenon DEF OptionRead, Then
  <1> QED
    BY <1>1, <1>2, Zenon

\* The entries that are parsed, and what they are parsed to.
LEMMA OptionParsed ==
  ASSUME NEW bytes \in Seq(Byte)
  PROVE  ParseLoadOption(bytes) =
           IF Laid(bytes) /\ ParsePaths(PathList(bytes)) # <<>> /\ ValidUtf16(DescriptionOf(bytes))
           THEN <<OptionOf(bytes)>> ELSE <<>>
  <1> DEFINE n == Len(bytes)
             got == Get(bytes, 0, 6)
             header == SubSeq(bytes, 1, 6)
             description == DescriptionTo(bytes, 6, DescriptionEnd(bytes))
  <1>0. n \in Nat /\ MaxOptionBytes \in Nat
    BY LenProperties, MaxOptionBytesAssumption
  <1>1. CASE n > MaxOptionBytes
    <2>1. ~(n <= MaxOptionBytes)
      BY <1>0, <1>1
    <2> QED
      BY <1>1, <2>1, OptionIs, Zenon DEF Laid
  <1>2. CASE ~(6 <= n)
    <2>1. got = <<>>
      <3>1. ~(0 + 6 <= n)
        BY <1>2
      <3> QED
        BY <3>1, Zenon DEF Get, When
    <2> QED
      BY <1>2, <2>1, OptionIs, Zenon DEF Laid
  <1>3. CASE 6 <= n /\ ~Described(bytes)
    <2>1. ReadDescription(bytes) = <<>>
      BY <1>3, DescriptionIsRead, Zenon
    <2> QED
      BY <1>3, <2>1, OptionIs, Zenon DEF Laid
  <1>4. CASE n <= MaxOptionBytes /\ 6 <= n /\ Described(bytes)
    <2>1. got = <<header>>
      <3>1. 0 + 6 <= n /\ 0 + 1 = 1 /\ 0 + 6 = 6
        BY <1>4
      <3> QED
        BY <3>1, Zenon DEF Get, When
    <2>2. ReadDescription(bytes) = <<description>>
      BY <1>4, DescriptionIsRead, Zenon
    <2>3. ParseLoadOption(bytes) = OptionRead(bytes, header, Word(SubSeq(header, 5, 6)), description)
      <3> HIDE DEF got, header, description
      <3>1. ~(n > MaxOptionBytes)
        BY <1>0, <1>4
      <3>2. got # <<>> /\ got[1] = header
        BY <2>1
      <3>3. ReadDescription(bytes) # <<>> /\ ReadDescription(bytes)[1] = description
        BY <2>2
      <3> QED
        BY <3>1, <3>2, <3>3, OptionIs, Zenon DEF got
    <2>4. SubSeq(header, 5, 6) = SubSeq(bytes, 5, 6) /\ SubSeq(header, 1, 4) = SubSeq(bytes, 1, 4)
      <3>1. \A i, j \in 1 .. 6 : SubSeq(SubSeq(bytes, 1, 6), i, j) = SubSeq(bytes, 1 + i - 1, 1 + j - 1)
        BY <1>0, <1>4, SliceOfSlice
      <3>2. /\ SubSeq(header, 5, 6) = SubSeq(bytes, 1 + 5 - 1, 1 + 6 - 1)
            /\ SubSeq(header, 1, 4) = SubSeq(bytes, 1 + 1 - 1, 1 + 4 - 1)
        BY <3>1
      <3> HIDE DEF header
      <3> QED
        BY <3>2
    <2>5. description.end = DescriptionEnd(bytes) /\ description.units = DescriptionOf(bytes)
      <3>1. 6 + 1 = 7
        OBVIOUS
      <3> QED
        BY <3>1, Zenon DEF DescriptionTo, DescriptionOf
    <2> DEFINE w == ListLength(bytes)
               k == DescriptionEnd(bytes)
               list == SubSeq(bytes, k + 1, k + w)
    <2>6. Word(SubSeq(header, 5, 6)) = w /\ list = PathList(bytes)
      BY <2>4, Zenon DEF ListLength, PathList
    <2> HIDE DEF header, description, k, w, list
    <2>7. OptionRead(bytes, header, w, description) =
            IF /\ k + w <= Len(bytes) /\ ParsePaths(list) # <<>> /\ ValidUtf16(DescriptionOf(bytes))
            THEN << [ attributes |-> SubSeq(bytes, 1, 4), description_utf16 |-> DescriptionOf(bytes),
                      file_path_list_length |-> w, file_paths |-> ParsePaths(list)[1],
                      optional_data |-> SubSeq(bytes, k + w + 1, Len(bytes)) ] >>
            ELSE <<>>
      <3>1. description.end = k
        BY <2>5 DEF k
      <3> DEFINE read == SubSeq(bytes, description.end + 1, description.end + w)
      <3>2. read = list
        BY <3>1, Zenon DEF list
      <3>3. OptionRead(bytes, header, w, description) =
              IF /\ description.end + w <= Len(bytes) /\ ParsePaths(read) # <<>>
                 /\ ValidUtf16(description.units)
              THEN << [ attributes |-> SubSeq(header, 1, 4),
                        description_utf16 |-> description.units,
                        file_path_list_length |-> w,
                        file_paths |-> ParsePaths(read)[1],
                        optional_data |-> SubSeq(bytes, description.end + w + 1, Len(bytes)) ] >>
              ELSE <<>>
        BY OptionReadIs, Zenon
      <3> HIDE DEF read
      <3> QED
        BY <2>4, <2>5, <3>1, <3>2, <3>3, Zenon
    <2>8. OptionOf(bytes) = [ attributes |-> SubSeq(bytes, 1, 4), description_utf16 |-> DescriptionOf(bytes),
                      file_path_list_length |-> w, file_paths |-> ParsePaths(list)[1],
                      optional_data |-> SubSeq(bytes, k + w + 1, Len(bytes)) ]
      BY <2>6, Zenon DEF OptionOf, Data, w, k
    <2>9. Laid(bytes) <=> k + w <= Len(bytes)
      BY <1>4, Zenon DEF Laid, k, w
    <2> QED
      BY <2>3, <2>6, <2>7, <2>8, <2>9, Zenon
  <1> QED
    BY <1>0, <1>1, <1>2, <1>3, <1>4

\* Where the path list and the data of an option lie.
LEMMA Parts ==
  ASSUME NEW bytes \in Seq(Byte), 8 <= Len(bytes), DescriptionEnd(bytes) + ListLength(bytes) <= Len(bytes)
  PROVE  /\ ListLength(bytes) \in Nat /\ ListLength(bytes) = bytes[5] + 256 * bytes[6]
         /\ DescriptionEnd(bytes) \in 8 .. Len(bytes)
         /\ PathList(bytes) \in Seq(Byte) /\ Len(PathList(bytes)) = ListLength(bytes)
         /\ Data(bytes) \in Seq(Byte) /\ Len(Data(bytes)) \in Nat
         /\ DescriptionEnd(bytes) + ListLength(bytes) + Len(Data(bytes)) = Len(bytes)
         /\ PathList(bytes) \o Data(bytes) = SubSeq(bytes, DescriptionEnd(bytes) + 1, Len(bytes))
  <1> DEFINE n == Len(bytes)
             k == DescriptionEnd(bytes)
             w == ListLength(bytes)
             list == SubSeq(bytes, k + 1, k + w)
             data == SubSeq(bytes, k + w + 1, n)
  <1>0. n \in Nat /\ n >= 8 /\ k + w <= n
    BY LenProperties
  <1>1. k \in 8 .. n
    <2>1. CASE Described(bytes)
      BY <2>1, DescriptionEndAt
    <2>2. CASE ~Described(bytes)
      <3>1. k = n
        BY <2>2, EndOfDescription
      <3> HIDE DEF k, n
      <3> QED
        BY <1>0, <3>1
    <2> QED
      BY <2>1, <2>2
  <1>2. w = bytes[5] + 256 * bytes[6] /\ w \in Nat
    <2>1. 4 \in Nat /\ 4 + 2 <= Len(bytes) /\ 4 + 1 = 5 /\ 4 + 2 = 6
      BY <1>0
    <2>2. Word(SubSeq(bytes, 4 + 1, 4 + 2)) = bytes[4 + 1] + 256 * bytes[4 + 2]
      BY <2>1, WordOfSlice, ZenonT(30)
    <2>3. w = bytes[5] + 256 * bytes[6]
      BY <2>1, <2>2, Zenon DEF ListLength
    <2>4. bytes[5] \in 0 .. 255 /\ bytes[6] \in 0 .. 255
      <3>1. 5 \in 1 .. Len(bytes) /\ 6 \in 1 .. Len(bytes)
        BY <1>0
      <3> QED
        BY <3>1, ByteAt
    <2>5. \A a, b \in 0 .. 255 : a + 256 * b \in Nat
      OBVIOUS
    <2>6. \A b \in 0 .. 255 : bytes[5] + 256 * b \in Nat
      BY <2>4, <2>5, Zenon
    <2>7. bytes[5] + 256 * bytes[6] \in Nat
      BY <2>4, <2>6, Zenon
    <2> QED
      BY <2>3, <2>7, Zenon
  <1> HIDE DEF k, w
  <1>3. k \in Nat /\ k >= 8 /\ k <= n /\ k + w \in Nat /\ k + w <= n
    BY <1>0, <1>1, <1>2
  <1>4. list \in Seq(Byte) /\ Len(list) = w
    <2> DEFINE a == k + 1
               b == k + w
    <2>0. a \in Int /\ b \in Int /\ 1 <= a /\ b <= Len(bytes) /\ (IF a <= b THEN b - a + 1 ELSE 0) = w
      BY <1>2, <1>3
    <2> HIDE DEF a, b
    <2>1. SubSeq(bytes, a, b) \in Seq(Byte) /\ Len(SubSeq(bytes, a, b)) = IF a <= b THEN b - a + 1 ELSE 0
      BY <2>0, Slice
    <2>2. list = SubSeq(bytes, a, b)
      BY DEF a, b
    <2> HIDE DEF list
    <2> QED
      BY <2>0, <2>1, <2>2, Zenon
  <1>5. data \in Seq(Byte) /\ Len(data) = n - (k + w)
    <2> DEFINE m == k + w
    <2>1. data \in Seq(Byte) /\ Len(data) = IF m + 1 <= n THEN n - (m + 1) + 1 ELSE 0
      BY <1>0, <1>3, Slice
    <2> HIDE DEF data, n
    <2>2. m \in Nat /\ m <= n
      BY <1>3
    <2> HIDE DEF m
    <2>3. Len(data) = n - m
      BY <1>0, <2>1, <2>2
    <2> QED
      BY <2>1, <2>3 DEF m
  <1>6. list \o data = SubSeq(bytes, k + 1, n)
    <2> DEFINE m == k + w
    <2>1. m \in Nat /\ m <= n /\ k <= m /\ n <= Len(bytes)
      BY <1>0, <1>2, <1>3
    <2> HIDE DEF m
    <2>2. SubSeq(bytes, k + 1, m) \o SubSeq(bytes, m + 1, n) = SubSeq(bytes, k + 1, n)
      BY <1>0, <1>3, <2>1, Adjacent, ZenonT(40)
    <2> QED
      BY <2>2 DEF m
  <1>7. Len(data) \in Nat /\ k + w + Len(data) = n
    <2> HIDE DEF data, n
    <2> QED
      BY <1>0, <1>2, <1>3, <1>5
  <1>8. list = PathList(bytes) /\ data = Data(bytes)
    BY DEF PathList, Data, k, w, ListLength
  <1> HIDE DEF list, data
  <1> QED
    BY <1>1, <1>2, <1>4, <1>5, <1>6, <1>7, <1>8 DEF k, w

\* The entries that can be configured, in the terms of the parser.
LEMMA SupportedIs ==
  ASSUME NEW bytes \in Seq(Byte)
  PROVE  Supported(bytes) <=>
           /\ Laid(bytes) /\ SubSeq(bytes, 1, 4) \in {Active, ActiveHidden}
           /\ ValidUtf16(DescriptionOf(bytes)) /\ NamesGptFile(PathList(bytes))
  <1> DEFINE n == Len(bytes)
             k == DescriptionEnd(bytes)
             w == ListLength(bytes)
  <1>0. n \in Nat /\ MaxOptionBytes \in Nat
    BY LenProperties, MaxOptionBytesAssumption
  <1>1. Supported(bytes) <=>
          /\ n \in 8 .. MaxOptionBytes /\ SubSeq(bytes, 1, 4) \in {Active, ActiveHidden}
          /\ ValidUtf16(DescriptionOf(bytes)) /\ k + w <= n /\ NamesGptFile(PathList(bytes))
    BY Zenon DEF Supported, Bootable, DescriptionOf, ListLength
  <1>2. ASSUME Supported(bytes) PROVE Laid(bytes)
    <2>1. 8 <= n /\ n <= MaxOptionBytes /\ 6 <= n /\ k + w <= n /\ NamesGptFile(PathList(bytes))
      BY <1>0, <1>1, <1>2
    <2>2. w \in Nat /\ k \in 8 .. n /\ PathList(bytes) \in Seq(Byte) /\ Len(PathList(bytes)) = w
      BY <2>1, Parts
    <2>3. Len(PathList(bytes)) > 52
      BY <2>1, <2>2, GptFileRead
    <2>4. Described(bytes)
      <3>1. ASSUME ~Described(bytes) PROVE FALSE
        <4>1. k = n
          BY <3>1, EndOfDescription
        <4> HIDE DEF k, w, n
        <4> QED
          BY <1>0, <2>1, <2>2, <2>3, <4>1
      <3> QED
        BY <3>1
    <2> QED
      BY <2>1, <2>4, Zenon DEF Laid
  <1>3. ASSUME Laid(bytes) PROVE n \in 8 .. MaxOptionBytes /\ k + w <= n
    <2>1. n <= MaxOptionBytes /\ Described(bytes) /\ k + w <= n
      BY <1>3, Zenon DEF Laid
    <2>2. k \in 8 .. n
      BY <2>1, DescriptionEndAt
    <2> HIDE DEF k, n
    <2>3. n \in 8 .. MaxOptionBytes
      BY <1>0, <2>1, <2>2
    <2> QED
      BY <2>1, <2>3
  <1> QED
    BY <1>1, <1>2, <1>3, Zenon

IdentityOf(bytes) ==
  [ file_path_list_length |-> ListLength(bytes), nodes |-> NodesOf(PathList(bytes)),
    byte_length |-> Len(Data(bytes)), digest |-> Digest(Data(bytes)) ]

IdentityIn(parsed) ==
  [ file_path_list_length |-> parsed.file_path_list_length,
    nodes |-> [i \in 1 .. 3 |-> CanonicalNode(parsed.file_paths[1][i])],
    byte_length |-> Len(parsed.optional_data), digest |-> Digest(parsed.optional_data) ]

\* canonicalize, as one condition.
LEMMA CanonicalizeIs ==
  ASSUME NEW parsed
  PROVE  Canonicalize(parsed) =
           IF ValidOuter(parsed) /\ Taken(parsed.file_paths) /\ ValidateCanonicalIdentity(IdentityIn(parsed))
           THEN <<IdentityIn(parsed)>> ELSE <<>>
  <1> DEFINE nodes == parsed.file_paths[1]
             i == IdentityIn(parsed)
             Good == /\ ValidOuter(parsed) /\ Len(nodes) = 3
                     /\ CanonicalHardDrive(nodes[1]) /\ CanonicalFilePath(nodes[2]) /\ CanonicalEnd(nodes[3])
  <1>0. \A x : <<x>> # <<>> /\ <<x>>[1] = x
    OBVIOUS
  <1>1. Canonicalize(parsed) =
          IF \/ ~ValidOuter(parsed) \/ Len(nodes) # 3
             \/ ~(CanonicalHardDrive(nodes[1]) /\ CanonicalFilePath(nodes[2]) /\ CanonicalEnd(nodes[3]))
          THEN <<>>
          ELSE Then(<<i>>, LAMBDA identity : When(ValidateCanonicalIdentity(identity), identity))
    BY Zenon DEF Canonicalize, IdentityIn
  <1>2. Then(<<i>>, LAMBDA identity : When(ValidateCanonicalIdentity(identity), identity))
          = IF ValidateCanonicalIdentity(i) THEN <<i>> ELSE <<>>
    <2> HIDE DEF i
    <2>1. <<i>> # <<>> /\ <<i>>[1] = i
      BY <1>0, Zenon
    <2> QED
      BY <2>1, Zenon DEF Then, When
  <1>3. ValidOuter(parsed) => Len(parsed.file_paths) = 1
    BY Zenon DEF ValidOuter
  <1>4. Good <=> ValidOuter(parsed) /\ Taken(parsed.file_paths)
    BY <1>3, Zenon DEF Taken
  <1> HIDE DEF i
  <1>5. Canonicalize(parsed) = IF Good /\ ValidateCanonicalIdentity(i) THEN <<i>> ELSE <<>>
    BY <1>1, <1>2, Zenon
  <1> QED
    BY <1>4, <1>5, Zenon DEF i

\* The identity of an entry that names a file on a GPT partition is valid.
LEMMA IdentityValid ==
  ASSUME NEW bytes \in Seq(Byte), Supported(bytes)
  PROVE  ValidateCanonicalIdentity(IdentityOf(bytes))
  <1> DEFINE list == PathList(bytes)
             data == Data(bytes)
             w == ListLength(bytes)
             k == DescriptionEnd(bytes)
             n == Len(bytes)
             path == Path(list)
             N == NodesOf(list)
             I == IdentityOf(bytes)
             c == Len(data)
             a == Len(path)
  <1>1. Laid(bytes) /\ NamesGptFile(list)
    BY SupportedIs
  <1>2. n <= MaxOptionBytes /\ k + w <= n /\ 8 <= n
    <2>1. n <= MaxOptionBytes /\ Described(bytes) /\ k + w <= n
      BY <1>1, Zenon DEF Laid
    <2>2. k \in 8 .. n
      BY <2>1, DescriptionEndAt
    <2>3. n \in Nat
      BY LenProperties
    <2> HIDE DEF k, n
    <2> QED
      BY <2>1, <2>2, <2>3
  <1>3. /\ w \in Nat /\ k \in 8 .. n /\ list \in Seq(Byte) /\ Len(list) = w
        /\ data \in Seq(Byte) /\ c \in Nat /\ k + w + c = n
    BY <1>2, Parts
  <1>4. ValidateHardDrive(Drive(list)) /\ ValidFilePath(path) /\ w > 52
    BY <1>1, <1>3, GptFileRead
  <1>5. /\ N[1] = [ kind |-> "HardDrive", type |-> 4, subtype |-> 1, length |-> 42, says |-> Drive(list) ]
        /\ N[2] = [ kind |-> "FilePath", type |-> 4, subtype |-> 4, length |-> w - 46, says |-> path ]
        /\ N[3] = [ kind |-> "EndEntire", type |-> 127, subtype |-> 255, length |-> 4, says |-> <<>> ]
        /\ w - 46 = 4 + 2 * (a + 1)
    BY <1>1, <1>3, NodesAre, ZenonT(30)
  <1>6. I.file_path_list_length = w /\ I.nodes = N /\ I.byte_length = c /\ I.digest = Digest(data)
    BY DEF IdentityOf
  <1>7. c = 0 => data = <<>>
    BY <1>3, EmptySeq
  <1> DEFINE drive == Drive(list)
  <1> HIDE DEF I, N, w, k, n, data, path, list, c, drive, a
  <1>8. /\ I.nodes[1].type = 4 /\ I.nodes[1].subtype = 1 /\ I.nodes[1].length = 42 /\ I.nodes[1].says = drive
        /\ I.nodes[2].type = 4 /\ I.nodes[2].subtype = 4 /\ I.nodes[2].length = w - 46 /\ I.nodes[2].says = path
        /\ I.nodes[3].type = 127 /\ I.nodes[3].subtype = 255 /\ I.nodes[3].length = 4
    BY <1>5, <1>6 DEF drive
  <1>9. w = 42 + (w - 46) + 4 /\ c <= MaxOptionBytes
    BY <1>2, <1>3, MaxOptionBytesAssumption
  <1>10. ValidateHardDrive(I.nodes[1].says) /\ ValidFilePath(I.nodes[2].says)
    BY <1>4, <1>8, Zenon DEF drive
  <1>11. <<I.nodes[1].type, I.nodes[1].subtype, I.nodes[1].length>> = <<4, 1, 42>>
    BY <1>8, Zenon
  <1>12. <<I.nodes[2].type, I.nodes[2].subtype, I.nodes[2].length>> = <<4, 4, 4 + 2 * (Len(I.nodes[2].says) + 1)>>
    BY <1>5, <1>8, Zenon DEF a
  <1>13. <<I.nodes[3].type, I.nodes[3].subtype, I.nodes[3].length>> = <<127, 255, 4>>
    BY <1>8, Zenon
  <1>14. I.file_path_list_length = I.nodes[1].length + I.nodes[2].length + I.nodes[3].length
    BY <1>6, <1>8, <1>9, Zenon
  <1>15. I.byte_length <= MaxOptionBytes /\ (I.byte_length = 0 => I.digest = Digest(<<>>))
    BY <1>6, <1>7, <1>9, Zenon
  <1> QED
    BY <1>10, <1>11, <1>12, <1>13, <1>14, <1>15, Zenon DEF ValidateCanonicalIdentity, I

\* What is read is the only element of the result.
LEMMA PathsResult ==
  ASSUME NEW list \in Seq(Byte), ParsePaths(list) # <<>>
  PROVE  ParsePaths(list) = <<ParsePaths(list)[1]>>
  <1> DEFINE X == PathNodes(list)
             paths == ParsePaths(list)
  <1>1. 0 \in 0 .. Len(list)
    BY LenProperties
  <1>2. paths \in PathsOver(X)
    BY <1>1, PathsAt, PathsRead
  <1> HIDE DEF X
  <1>3. PICK is \in Seq(Seq(X)) : paths = <<is>>
    BY <1>2 DEF PathsOver
  <1> HIDE DEF paths
  <1>4. paths = <<paths[1]>>
    BY <1>3
  <1> QED
    BY <1>4 DEF paths

\* An entry has an identity exactly if it is supported: what the three parsers
\* and the rules of canonicalize let through is what Supported says of the
\* bytes, for byte strings of any length (load_option.rs, device_path.rs,
\* identity.rs:canonicalize).
THEOREM Identified ==
  ASSUME NEW bytes \in Seq(Byte)
  PROVE  Identify(bytes) = IF Supported(bytes) THEN <<IdentityOf(bytes)>> ELSE <<>>
  <1> DEFINE list == PathList(bytes)
             parsed == OptionOf(bytes)
             w == ListLength(bytes)
             k == DescriptionEnd(bytes)
             n == Len(bytes)
             data == Data(bytes)
             units == DescriptionOf(bytes)
             Parsed == Laid(bytes) /\ ParsePaths(list) # <<>> /\ ValidUtf16(units)
  <1>0. n \in Nat /\ MaxOptionBytes \in Nat
    BY LenProperties, MaxOptionBytesAssumption
  <1>1. ParseLoadOption(bytes) = IF Parsed THEN <<parsed>> ELSE <<>>
    BY OptionParsed
  <1>2. Supported(bytes) <=>
          /\ Laid(bytes) /\ SubSeq(bytes, 1, 4) \in {Active, ActiveHidden}
          /\ ValidUtf16(units) /\ NamesGptFile(list)
    BY SupportedIs
  <1>3. ASSUME Laid(bytes)
        PROVE  /\ list \in Seq(Byte) /\ Len(list) = w /\ k + w + Len(data) = n /\ n <= MaxOptionBytes
               /\ 6 + 2 * (Len(units) + 1) = k /\ 0 \notin ToSet(units)
    <2>1. n <= MaxOptionBytes /\ Described(bytes) /\ k + w <= n
      BY <1>3, Zenon DEF Laid
    <2>2. 8 <= n
      <3>1. k \in 8 .. n
        BY <2>1, DescriptionEndAt
      <3> HIDE DEF k, n
      <3> QED
        BY <1>0, <3>1
    <2>3. /\ list \in Seq(Byte) /\ Len(list) = w /\ k + w + Len(data) = n
      BY <2>1, <2>2, Parts
    <2>4. 6 + 2 * (Len(units) + 1) = k /\ 0 \notin ToSet(units)
      BY <2>1, DescriptionUnits DEF DescriptionOf
    <2> QED
      BY <2>1, <2>3, <2>4
  <1>4. CASE ~Parsed
    <2>1. ~Supported(bytes)
      <3>1. ASSUME Supported(bytes) PROVE FALSE
        <4>1. Laid(bytes) /\ ValidUtf16(units) /\ NamesGptFile(list)
          BY <1>2, <3>1
        <4>2. list \in Seq(Byte)
          BY <1>3, <4>1
        <4>3. ParsePaths(list) = <<ThreeNodes(list)>>
          BY <4>1, <4>2, ListTaken
        <4>4. ParsePaths(list) # <<>>
          <5> DEFINE t == ThreeNodes(list)
          <5> HIDE DEF t
          <5>1. <<t>> # <<>>
            OBVIOUS
          <5> QED
            BY <4>3, <5>1 DEF t
        <4> QED
          BY <1>4, <4>1, <4>4
      <3> QED
        BY <3>1
    <2> QED
      BY <1>1, <1>4, <2>1, Zenon DEF Identify, Then
  <1>5. CASE Parsed
    <2> DEFINE paths == ParsePaths(list)[1]
    <2>1. ParsePaths(list) = <<paths>>
      BY <1>3, <1>5, PathsResult
    <2>2. Identify(bytes) = Canonicalize(parsed)
      <3> HIDE DEF parsed
      <3>1. <<parsed>> # <<>> /\ <<parsed>>[1] = parsed
        OBVIOUS
      <3> QED
        BY <1>1, <1>5, <3>1, Zenon DEF Identify, Then
    <2>3. /\ parsed.attributes = SubSeq(bytes, 1, 4) /\ parsed.description_utf16 = units
          /\ parsed.file_path_list_length = w /\ parsed.file_paths = paths
          /\ parsed.optional_data = data
      BY DEF OptionOf
    <2>4. ValidOuter(parsed) /\ Taken(paths) => Supported(bytes)
      <3>1. ASSUME ValidOuter(parsed), Taken(paths) PROVE Supported(bytes)
        <4>1. NamesGptFile(list)
          BY <1>3, <1>5, <2>1, <3>1, ListTaken
        <4>2. SubSeq(bytes, 1, 4) \in {Active, ActiveHidden}
          BY <2>3, <3>1, Zenon DEF ValidOuter
        <4> QED
          BY <1>2, <1>5, <4>1, <4>2, Zenon
      <3> QED
        BY <3>1
    <2>5. ASSUME Supported(bytes)
          PROVE  /\ ValidOuter(parsed) /\ Taken(paths) /\ IdentityIn(parsed) = IdentityOf(bytes)
      <3>1. Laid(bytes) /\ SubSeq(bytes, 1, 4) \in {Active, ActiveHidden} /\ NamesGptFile(list)
        BY <1>2, <2>5, Zenon
      <3>2. ParsePaths(list) = <<ThreeNodes(list)>> /\ Taken(ThreeNodes(list))
        BY <1>3, <3>1, ListTaken
      <3>3. paths = ThreeNodes(list)
        <4> DEFINE t == ThreeNodes(list)
        <4> HIDE DEF t, paths
        <4>1. <<paths>> = <<t>>
          BY <2>1, <3>2 DEF t
        <4>2. paths = t
          BY <4>1
        <4> QED
          BY <4>2 DEF t
      <3>4. Taken(paths)
        BY <3>2, <3>3
      <3>5. 6 + 2 * (Len(units) + 1) + w + Len(data) <= MaxOptionBytes
        <4> DEFINE u == 6 + 2 * (Len(units) + 1)
                   c == Len(data)
        <4>1. u = k /\ k + w + c = n /\ n <= MaxOptionBytes
          BY <1>3, <3>1
        <4> HIDE DEF u, c, k, w, n
        <4>2. u + w + c <= MaxOptionBytes
          BY <4>1
        <4> QED
          BY <4>2 DEF u, c
      <3>6. ValidOuter(parsed)
        <4>1. Len(paths) = 1
          BY <3>4 DEF Taken
        <4>2. 0 \notin ToSet(units)
          BY <1>3, <3>1
        <4> HIDE DEF parsed, units, w, data, paths
        <4> QED
          BY <1>5, <2>3, <3>1, <3>5, <4>1, <4>2, Zenon DEF ValidOuter
      <3>7. IdentityIn(parsed) = IdentityOf(bytes)
        <4>1. NodesOf(list) = [i \in 1 .. 3 |-> CanonicalNode(paths[1][i])]
          BY <3>3, Zenon DEF NodesOf
        <4> HIDE DEF parsed, paths, w, data
        <4> QED
          BY <2>3, <4>1, Zenon DEF IdentityIn, IdentityOf, w, data
      <3> QED
        BY <3>4, <3>6, <3>7
    <2>6. Supported(bytes) => ValidateCanonicalIdentity(IdentityOf(bytes))
      BY IdentityValid
    <2> HIDE DEF parsed, paths
    <2>7. Canonicalize(parsed) =
            IF ValidOuter(parsed) /\ Taken(paths) /\ ValidateCanonicalIdentity(IdentityIn(parsed))
            THEN <<IdentityIn(parsed)>> ELSE <<>>
      BY <2>3, CanonicalizeIs, Zenon
    <2> QED
      BY <2>2, <2>4, <2>5, <2>6, <2>7, Zenon
  <1> QED
    BY <1>4, <1>5

-----------------------------------------------------------------------------
(* Two entries with one essence have one identity. *)

\* A byte string falls into its first bytes and the others in one way.
LEMMA Concatenated ==
  ASSUME NEW a \in Seq(Byte), NEW b \in Seq(Byte), NEW c \in Seq(Byte), NEW d \in Seq(Byte),
         Len(a) = Len(c), a \o b = c \o d
  PROVE  a = c /\ b = d
  <1> DEFINE u == a \o b
             v == c \o d
             p == Len(a)
  <1>0. p \in Nat /\ Len(b) \in Nat /\ Len(d) \in Nat /\ p = Len(c)
    BY LenProperties
  <1>1. /\ u \in Seq(Byte) /\ Len(u) = p + Len(b)
        /\ \A i \in 1 .. p + Len(b) : u[i] = IF i <= p THEN a[i] ELSE b[i - p]
    BY ConcatProperties, ZenonT(40)
  <1>2. /\ v \in Seq(Byte) /\ Len(v) = p + Len(d)
        /\ \A i \in 1 .. p + Len(d) : v[i] = IF i <= p THEN c[i] ELSE d[i - p]
    <2>1. /\ v \in Seq(Byte) /\ Len(v) = Len(c) + Len(d)
          /\ \A i \in 1 .. Len(c) + Len(d) : v[i] = IF i <= Len(c) THEN c[i] ELSE d[i - Len(c)]
      BY ConcatProperties
    <2> HIDE DEF v, p
    <2> QED
      BY <1>0, <2>1
  <1>3. u = v
    OBVIOUS
  <1> HIDE DEF u, v, p
  <1>4. Len(b) = Len(d)
    BY <1>0, <1>1, <1>2, <1>3
  <1>5. \A i \in 1 .. p : a[i] = c[i]
    BY <1>0, <1>1, <1>2, <1>3
  <1>6. \A i \in 1 .. Len(b) : b[i] = d[i]
    <2>1. ASSUME NEW i \in 1 .. Len(b) PROVE b[i] = d[i]
      <3> DEFINE j == p + i
      <3>1. j \in 1 .. p + Len(b) /\ ~(j <= p) /\ j - p = i
        BY <1>0
      <3> HIDE DEF j
      <3> QED
        BY <1>1, <1>2, <1>3, <1>4, <3>1
    <2> QED
      BY <2>1
  <1>7. a = c
    BY <1>0, <1>5, SeqEqual DEF p
  <1>8. b = d
    BY <1>4, <1>6, SeqEqual
  <1> QED
    BY <1>7, <1>8

Rest(bytes) == SubSeq(bytes, DescriptionEnd(bytes) + 1, Len(bytes))
LengthBytes(bytes) == SubSeq(bytes, 5, 6)

\* Where the essence of an option lies.
LEMMA EssenceIs ==
  ASSUME NEW bytes \in Seq(Byte), 8 <= Len(bytes)
  PROVE  /\ Essence(bytes) = LengthBytes(bytes) \o Rest(bytes)
         /\ LengthBytes(bytes) \in Seq(Byte) /\ Len(LengthBytes(bytes)) = 2
         /\ Rest(bytes) \in Seq(Byte) /\ DescriptionEnd(bytes) \in Nat
         /\ Len(Rest(bytes)) = Len(bytes) - DescriptionEnd(bytes)
  <1> DEFINE n == Len(bytes)
             k == DescriptionEnd(bytes)
             head == SubSeq(bytes, 5, 6)
             rest == SubSeq(bytes, k + 1, n)
  <1>0. n \in Nat /\ n >= 8
    BY LenProperties
  <1>1. k \in 8 .. n
    <2>1. CASE Described(bytes)
      BY <2>1, DescriptionEndAt
    <2>2. CASE ~Described(bytes)
      <3>1. k = n
        BY <2>2, EndOfDescription
      <3> HIDE DEF k, n
      <3> QED
        BY <1>0, <3>1
    <2> QED
      BY <2>1, <2>2
  <1>2. head \in Seq(Byte) /\ Len(head) = 2
    BY <1>0, Slice
  <1> HIDE DEF k
  <1>3. k \in Nat /\ k <= n
    BY <1>0, <1>1
  <1>4. rest \in Seq(Byte) /\ Len(rest) = IF k + 1 <= n THEN n - (k + 1) + 1 ELSE 0
    BY <1>0, <1>3, Slice
  <1> HIDE DEF rest, n, head
  <1>5. Len(rest) = n - k
    BY <1>0, <1>3, <1>4
  <1>6. head = LengthBytes(bytes) /\ rest = Rest(bytes) /\ Essence(bytes) = head \o rest
    BY Zenon DEF head, rest, Essence, k, n, LengthBytes, Rest
  <1> QED
    BY <1>2, <1>3, <1>4, <1>5, <1>6 DEF k, n

\* What a supported entry shares with a longer one of the same essence.
LEMMA SameParts ==
  ASSUME NEW x \in Seq(Byte), NEW y \in Seq(Byte), 8 <= Len(x), 8 <= Len(y),
         DescriptionEnd(x) + ListLength(x) <= Len(x), Essence(x) = Essence(y)
  PROVE  /\ DescriptionEnd(y) + ListLength(y) <= Len(y)
         /\ ListLength(x) = ListLength(y) /\ PathList(x) = PathList(y) /\ Data(x) = Data(y)
  <1> DEFINE w == ListLength(x)
             m == Len(x)
             n == Len(y)
             j == DescriptionEnd(x)
             k == DescriptionEnd(y)
  <1>0. m \in Nat /\ n \in Nat
    BY LenProperties
  <1>1. /\ Essence(x) = LengthBytes(x) \o Rest(x)
        /\ LengthBytes(x) \in Seq(Byte) /\ Len(LengthBytes(x)) = 2
        /\ Rest(x) \in Seq(Byte) /\ j \in Nat /\ Len(Rest(x)) = m - j
    BY EssenceIs
  <1>2. /\ Essence(y) = LengthBytes(y) \o Rest(y)
        /\ LengthBytes(y) \in Seq(Byte) /\ Len(LengthBytes(y)) = 2
        /\ Rest(y) \in Seq(Byte) /\ k \in Nat /\ Len(Rest(y)) = n - k
    BY EssenceIs
  <1>3. LengthBytes(x) = LengthBytes(y) /\ Rest(x) = Rest(y)
    BY <1>1, <1>2, Concatenated
  <1>4. w = ListLength(y)
    BY <1>3 DEF ListLength, LengthBytes
  <1>5. /\ w \in Nat
        /\ PathList(x) \in Seq(Byte) /\ Len(PathList(x)) = w
        /\ Data(x) \in Seq(Byte) /\ PathList(x) \o Data(x) = Rest(x)
    BY Parts DEF Rest
  <1>6. k + w <= n
    <2>1. j + w <= m
      OBVIOUS
    <2>2. m - j = n - k
      BY <1>1, <1>2, <1>3
    <2> HIDE DEF j, w, m, k, n
    <2> QED
      BY <1>0, <1>1, <1>2, <1>5, <2>1, <2>2
  <1>7. DescriptionEnd(y) + ListLength(y) <= Len(y)
    BY <1>4, <1>6
  <1>8. /\ PathList(y) \in Seq(Byte) /\ Len(PathList(y)) = w
        /\ Data(y) \in Seq(Byte) /\ PathList(y) \o Data(y) = Rest(y)
    BY <1>4, <1>7, Parts DEF Rest
  <1>9. PathList(x) = PathList(y) /\ Data(x) = Data(y)
    BY <1>3, <1>5, <1>8, Concatenated, Zenon
  <1> QED
    BY <1>4, <1>7, <1>9

\* The numbers of two bytes are the same only if the bytes are.
LEMMA SameLength ==
  ASSUME NEW x \in Seq(Byte), NEW y \in Seq(Byte), 8 <= Len(x), 8 <= Len(y),
         ListLength(x) = ListLength(y)
  PROVE  LengthBytes(x) = LengthBytes(y)
  <1> DEFINE s == LengthBytes(x)
             t == LengthBytes(y)
  <1>1. s \in Seq(Byte) /\ Len(s) = 2 /\ t \in Seq(Byte) /\ Len(t) = 2
    BY EssenceIs
  <1>2. Word(s) = Word(t)
    BY DEF ListLength, LengthBytes
  <1> HIDE DEF s, t
  <1>3. s[1] \in 0 .. 255 /\ s[2] \in 0 .. 255 /\ t[1] \in 0 .. 255 /\ t[2] \in 0 .. 255
    <2>1. 1 \in 1 .. 2 /\ 2 \in 1 .. 2
      OBVIOUS
    <2> QED
      BY <1>1, <2>1, ByteAt, ZenonT(40)
  <1>4. s[1] + 256 * s[2] = t[1] + 256 * t[2]
    BY <1>2, Zenon DEF Word
  <1>5. s[1] = t[1] /\ s[2] = t[2]
    <2> DEFINE a == s[1]
               b == s[2]
               c == t[1]
               d == t[2]
    <2>1. a \in 0 .. 255 /\ b \in 0 .. 255 /\ c \in 0 .. 255 /\ d \in 0 .. 255
      BY <1>3
    <2>2. a + 256 * b = c + 256 * d
      BY <1>4
    <2> HIDE DEF a, b, c, d
    <2>3. a = c /\ b = d
      BY <2>1, <2>2
    <2> QED
      BY <2>3 DEF a, b, c, d
  <1>6. \A i \in 1 .. Len(s) : s[i] = t[i]
    <2>1. \A i \in 1 .. 2 : i = 1 \/ i = 2
      OBVIOUS
    <2> QED
      BY <1>1, <1>5, <2>1
  <1>7. s = t
    BY <1>1, <1>6, SeqEqual
  <1> QED
    BY <1>7 DEF s, t

\* Two entries that can be configured have one identity exactly if they have
\* one essence: neither does the identity leave out a byte of the path list or
\* of the data, nor does it hold one of the name (identity.rs:canonicalize).
THEOREM IdentityIsEssence ==
  ASSUME NEW x \in Seq(Byte), NEW y \in Seq(Byte), Supported(x), Supported(y)
  PROVE  IdentityOf(x) = IdentityOf(y) <=> Essence(x) = Essence(y)
  <1>1. /\ 8 <= Len(x) /\ DescriptionEnd(x) + ListLength(x) <= Len(x) /\ NamesGptFile(PathList(x))
        /\ 8 <= Len(y) /\ DescriptionEnd(y) + ListLength(y) <= Len(y) /\ NamesGptFile(PathList(y))
    BY LenProperties, MaxOptionBytesAssumption DEF Supported, Bootable, ListLength
  <1>2. ASSUME Essence(x) = Essence(y) PROVE IdentityOf(x) = IdentityOf(y)
    <2>1. ListLength(x) = ListLength(y) /\ PathList(x) = PathList(y) /\ Data(x) = Data(y)
      BY <1>1, <1>2, SameParts
    <2> QED
      BY <2>1, Zenon DEF IdentityOf
  <1>3. ASSUME IdentityOf(x) = IdentityOf(y) PROVE Essence(x) = Essence(y)
    <2>1. /\ ListLength(x) = ListLength(y) /\ NodesOf(PathList(x)) = NodesOf(PathList(y))
          /\ Digest(Data(x)) = Digest(Data(y))
      <3> DEFINE I == IdentityOf(x)
                 J == IdentityOf(y)
      <3>1. /\ I.file_path_list_length = ListLength(x) /\ I.nodes = NodesOf(PathList(x))
            /\ I.digest = Digest(Data(x))
        BY DEF IdentityOf
      <3>2. /\ J.file_path_list_length = ListLength(y) /\ J.nodes = NodesOf(PathList(y))
            /\ J.digest = Digest(Data(y))
        BY DEF IdentityOf
      <3> HIDE DEF I, J
      <3>3. I = J
        BY <1>3 DEF I, J
      <3> QED
        BY <3>1, <3>2, <3>3, Zenon
    <2>2. PathList(x) \in Seq(Byte) /\ PathList(y) \in Seq(Byte)
      BY <1>1, Parts
    <2>3. PathList(x) = ListOf(NodesOf(PathList(x))) /\ PathList(y) = ListOf(NodesOf(PathList(y)))
      BY <1>1, <2>2, ListOfNodes, Zenon
    <2>4. PathList(x) = PathList(y)
      BY <2>1, <2>3, Zenon
    <2>5. Data(x) = Data(y)
      BY <2>1, Zenon DEF Digest
    <2>6. LengthBytes(x) = LengthBytes(y)
      BY <1>1, <2>1, SameLength
    <2>7. PathList(x) \o Data(x) = Rest(x) /\ PathList(y) \o Data(y) = Rest(y)
      BY <1>1, Parts DEF Rest
    <2>8. Rest(x) = Rest(y)
      BY <2>4, <2>5, <2>7, Zenon
    <2> QED
      BY <1>1, <2>6, <2>8, EssenceIs, Zenon
  <1> QED
    BY <1>2, <1>3

\* An entry the firmware boots can be configured if one of its essence can.
LEMMA EssenceSupported ==
  ASSUME NEW x \in Seq(Byte), NEW y \in Seq(Byte), Supported(x), Bootable(y), Essence(x) = Essence(y)
  PROVE  Supported(y)
  <1>1. /\ 8 <= Len(x) /\ DescriptionEnd(x) + ListLength(x) <= Len(x) /\ NamesGptFile(PathList(x))
        /\ 8 <= Len(y)
    BY LenProperties, MaxOptionBytesAssumption DEF Supported, Bootable, ListLength
  <1>2. DescriptionEnd(y) + ListLength(y) <= Len(y) /\ PathList(x) = PathList(y)
    BY <1>1, SameParts
  <1> QED
    BY <1>1, <1>2, Zenon DEF Supported, ListLength

-----------------------------------------------------------------------------
(* identity.rs, record.rs and execute.rs: the life of a recorded target. *)

\* What the switch accepts, said of the whole of the reading.
Accepts ==
  \E target \in ToSet(Then(stored, FromDocument)) :
     /\ target.os = TargetOs /\ target.boot_id = TargetId
     /\ Identify(option) = <<target.identity>>

\* The document written is that of the variable as it was configured; the
\* document is changed or the variable is, and not both.
Recorded ==
  /\ configured \in Variables /\ Supported(configured)
  /\ \E doc, other :
        /\ ToDocument(TargetRecord(IdentityOf(configured))) = <<doc>>
        /\ written = <<doc>> /\ stored = <<other>>
        /\ other = doc \/ (other \in Rewritten(doc) /\ option = configured)

IdentityInv ==
  /\ step \in {"start", "refused", "configured", "changed", "judged"}
  /\ option \in Seq(Byte)
  /\ step = "start" => option \in Variables
  /\ step = "refused" => ~Supported(option)
  /\ step \in {"configured", "changed", "judged"} => Recorded
  /\ step = "configured" => option = configured /\ stored = written
  /\ step = "judged" => (accepted <=> Accepts)

\* A result as a set.
LEMMA OneResult ==
  ASSUME NEW x
  PROVE  ToSet(<<x>>) = {x} /\ <<x>> # <<>> /\ <<x>>[1] = x
  BY DEF ToSet

\* A variable with a byte changed, added or removed is a byte string.
LEMMA EditedBytes ==
  ASSUME NEW bytes \in Seq(Byte), NEW edited \in Edited(bytes)
  PROVE  edited \in Seq(Byte)
  <1> DEFINE n == Len(bytes)
  <1>0. n \in Nat /\ DOMAIN bytes = 1 .. n
    BY LenProperties
  <1>1. PICK i \in DOMAIN bytes :
          edited \in { [bytes EXCEPT ![i] = b] : b \in Bytes }
            \union { SubSeq(bytes, 1, i) \o <<b>> \o SubSeq(bytes, i + 1, Len(bytes)) : b \in Bytes }
            \union { SubSeq(bytes, 1, i - 1) \o SubSeq(bytes, i + 1, Len(bytes)), SubSeq(bytes, 1, i - 1) }
    BY Zenon DEF Edited
  <1>2. i \in 1 .. n
    BY <1>0
  <1>3. SubSeq(bytes, 1, i) \in Seq(Byte)
    BY <1>0, <1>2, Slice
  <1>4. SubSeq(bytes, i + 1, Len(bytes)) \in Seq(Byte)
    BY <1>0, <1>2, Slice
  <1>5. SubSeq(bytes, 1, i - 1) \in Seq(Byte)
    BY <1>0, <1>2, Slice
  <1>6. ASSUME NEW b \in Bytes
        PROVE  [bytes EXCEPT ![i] = b] \in Seq(Byte)
    <2>1. b \in Byte
      BY BytesAssumption
    <2> QED
      BY <1>0, <1>2, <2>1, ExceptSeq
  <1>7. ASSUME NEW b \in Bytes
        PROVE  SubSeq(bytes, 1, i) \o <<b>> \o SubSeq(bytes, i + 1, Len(bytes)) \in Seq(Byte)
    <2> DEFINE p == SubSeq(bytes, 1, i)
               q == SubSeq(bytes, i + 1, Len(bytes))
               o == <<b>>
    <2>1. p \in Seq(Byte) /\ q \in Seq(Byte)
      BY <1>3, <1>4
    <2>2. o \in Seq(Byte)
      <3>1. b \in Byte
        BY BytesAssumption
      <3> QED
        BY <3>1
    <2> HIDE DEF p, q, o
    <2>3. p \o o \in Seq(Byte)
      BY <2>1, <2>2, ConcatProperties
    <2>4. (p \o o) \o q \in Seq(Byte)
      BY <2>1, <2>3, ConcatProperties
    <2> QED
      BY <2>4 DEF p, q, o
  <1>8. SubSeq(bytes, 1, i - 1) \o SubSeq(bytes, i + 1, Len(bytes)) \in Seq(Byte)
    <2> DEFINE p == SubSeq(bytes, 1, i - 1)
               q == SubSeq(bytes, i + 1, Len(bytes))
    <2>1. p \in Seq(Byte) /\ q \in Seq(Byte)
      BY <1>4, <1>5
    <2> HIDE DEF p, q
    <2>2. p \o q \in Seq(Byte)
      BY <2>1, ConcatProperties
    <2> QED
      BY <2>2 DEF p, q
  <1> QED
    BY <1>1, <1>5, <1>6, <1>7, <1>8, Zenon

\* The record of an entry that can be configured is written, and read back.
LEMMA RecordKept ==
  ASSUME NEW variable \in Variables, Supported(variable)
  PROVE  /\ variable \in Seq(Byte) /\ Identify(variable) = <<IdentityOf(variable)>>
         /\ \E doc : LET target == TargetRecord(IdentityOf(variable))
                     IN  /\ ToDocument(target) = <<doc>>
                         /\ FromDocument(doc) = <<target>> /\ SameRecord(doc, doc)
                         /\ \A other \in Rewritten(doc) :
                               IF SameRecord(doc, other) THEN FromDocument(other) = <<target>>
                               ELSE \A read \in ToSet(FromDocument(other)) :
                                      <<read.os, read.boot_id, read.identity>>
                                         # <<TargetOs, TargetId, IdentityOf(variable)>>
  <1> DEFINE I == IdentityOf(variable)
  <1>1. variable \in Seq(Byte)
    BY BytesAssumption
  <1>2. Identify(variable) = <<I>>
    BY <1>1, Identified, Zenon
  <1> HIDE DEF I
  <1>3. I \in ToSet(Identify(variable))
    BY <1>2, OneResult
  <1>4. \E doc \in ToSet(ToDocument(TargetRecord(I))) :
          LET target == TargetRecord(I)
          IN  /\ ToDocument(target) = <<doc>>
              /\ FromDocument(doc) = <<target>> /\ SameRecord(doc, doc)
              /\ \A other \in Rewritten(doc) :
                    IF SameRecord(doc, other) THEN FromDocument(other) = <<target>>
                    ELSE \A read \in ToSet(FromDocument(other)) :
                           <<read.os, read.boot_id, read.identity>> # <<TargetOs, TargetId, I>>
    BY <1>3, RecordAssumption, Zenon
  <1> QED
    BY <1>1, <1>2, <1>4, Zenon DEF I

\* What the switch compares is the identity of the variable as it is.
LEMMA SwitchAccepts ==
  ASSUME option \in Seq(Byte), Switch
  PROVE  accepted' <=> Accepts
  <1> DEFINE o == OptionOf(option)
             parsed == ParseLoadOption(option)
             read == Then(stored, FromDocument)
             Fitting(target, current) ==
               /\ target.os = TargetOs /\ target.boot_id = TargetId
               /\ ValidateTarget(target.identity, current)
  <1>1. parsed = <<>> \/ parsed = <<o>>
    BY OptionParsed
  <1>2. accepted' = \E target \in ToSet(read), current \in ToSet(parsed) : Fitting(target, current)
    BY Zenon DEF Switch
  <1> HIDE DEF o
  <1>3. CASE parsed = <<>>
    <2>1. ToSet(parsed) = {}
      <3>1. ToSet(<<>>) = {}
        BY DEF ToSet
      <3> QED
        BY <1>3, <3>1, Zenon
    <2>2. Identify(option) = <<>>
      BY <1>3, Zenon DEF Identify, Then
    <2>3. \A x : <<>> # <<x>>
      OBVIOUS
    <2> QED
      BY <1>2, <2>1, <2>2, <2>3, Zenon DEF Accepts
  <1>4. CASE parsed = <<o>>
    <2>1. ToSet(parsed) = {o} /\ <<o>> # <<>> /\ <<o>>[1] = o
      BY <1>4, OneResult, Zenon
    <2>2. Identify(option) = Canonicalize(o)
      BY <1>4, <2>1, Zenon DEF Identify, Then
    <2>3. \A target : Fitting(target, o) <=>
             /\ target.os = TargetOs /\ target.boot_id = TargetId
             /\ Identify(option) = <<target.identity>>
      BY <2>2, Zenon DEF ValidateTarget
    <2> HIDE DEF Fitting, read, parsed
    <2>4. accepted' <=> \E target \in ToSet(read) : Fitting(target, o)
      BY <1>2, <2>1, Zenon
    <2> QED
      BY <2>3, <2>4, Zenon DEF Accepts, read
  <1> QED
    BY <1>1, <1>3, <1>4

\* The invariant holds at first.
LEMMA IdentityInvInit ==
  RecordedIdentityInit => IdentityInv
  BY BytesAssumption DEF RecordedIdentityInit, IdentityInv

\* Configure records what can be configured, and refuses the rest.
LEMMA ConfigureRecords ==
  ASSUME IdentityInv, Configure
  PROVE  IdentityInv'
  <1> DEFINE target == TargetRecord(IdentityOf(option))
  <1>1. /\ step = "start" /\ option \in Variables /\ option \in Seq(Byte)
        /\ option' = option /\ configured' = option
        /\ written' = stored' /\ step' = IF stored' = <<>> THEN "refused" ELSE "configured"
        /\ stored' = Then(Identify(option), LAMBDA identity : ToDocument(TargetRecord(identity)))
    BY DEF IdentityInv, Configure
  <1>2. CASE ~Supported(option)
    <2>1. Identify(option) = <<>>
      BY <1>1, <1>2, Identified
    <2>2. stored' = <<>>
      BY <1>1, <2>1, Zenon DEF Then
    <2>3. step' = "refused"
      BY <1>1, <2>2
    <2> QED
      BY <1>1, <1>2, <2>3 DEF IdentityInv
  <1>3. CASE Supported(option)
    <2>1. Identify(option) = <<IdentityOf(option)>>
      BY <1>1, <1>3, Identified
    <2>2. PICK doc : ToDocument(target) = <<doc>>
      BY <1>1, <1>3, RecordKept, Zenon
    <2>3. stored' = <<doc>>
      <3> DEFINE I == IdentityOf(option)
      <3> HIDE DEF I
      <3>1. <<I>> # <<>> /\ <<I>>[1] = I
        BY OneResult
      <3>2. stored' = ToDocument(TargetRecord(I))
        BY <1>1, <2>1, <3>1, Zenon DEF Then, I
      <3> QED
        BY <2>2, <3>2, Zenon DEF I
    <2>4. step' = "configured"
      <3>1. <<doc>> # <<>>
        OBVIOUS
      <3> QED
        BY <1>1, <2>3, <3>1, Zenon
    <2>5. Recorded'
      BY <1>1, <1>3, <2>2, <2>3, Zenon DEF Recorded
    <2> QED
      BY <1>1, <2>4, <2>5 DEF IdentityInv
  <1> QED
    BY <1>2, <1>3

\* Every step preserves the invariant.
LEMMA IdentityInvNext ==
  IdentityInv /\ [RecordedIdentityNext]_identityVars => IdentityInv'
  <1> SUFFICES ASSUME IdentityInv, [RecordedIdentityNext]_identityVars
               PROVE  IdentityInv'
    OBVIOUS
  <1>1. CASE Configure
    BY <1>1, ConfigureRecords
  <1>2. CASE EditVariable
    <2>1. /\ step = "configured" /\ step' = "changed"
          /\ configured' = configured /\ written' = written /\ stored' = stored /\ accepted' = accepted
          /\ option' \in Edited(option) /\ option \in Seq(Byte) /\ stored = written /\ Recorded
      BY <1>2 DEF EditVariable, IdentityInv
    <2>2. option' \in Seq(Byte)
      BY <2>1, EditedBytes
    <2>3. Recorded'
      <3>1. PICK doc : ToDocument(TargetRecord(IdentityOf(configured))) = <<doc>> /\ written = <<doc>>
        BY <2>1, Zenon DEF Recorded
      <3> QED
        BY <2>1, <3>1, Zenon DEF Recorded
    <2> QED
      BY <2>1, <2>2, <2>3 DEF IdentityInv
  <1>3. CASE EditRecord
    <2>1. /\ step = "configured" /\ step' = "changed"
          /\ configured' = configured /\ written' = written /\ option' = option /\ accepted' = accepted
          /\ option \in Seq(Byte) /\ stored = written /\ option = configured /\ Recorded
      BY <1>3 DEF EditRecord, IdentityInv
    <2>2. Recorded'
      <3>1. PICK doc : ToDocument(TargetRecord(IdentityOf(configured))) = <<doc>> /\ written = <<doc>>
        BY <2>1, Zenon DEF Recorded
      <3>2. stored[1] = doc
        BY <2>1, <3>1, OneResult, Zenon
      <3>3. PICK other \in Rewritten(doc) : stored' = <<other>>
        BY <1>3, <3>2, Zenon DEF EditRecord
      <3> QED
        BY <2>1, <3>1, <3>3, Zenon DEF Recorded
    <2> QED
      BY <2>1, <2>2 DEF IdentityInv
  <1>4. CASE Switch
    <2>1. /\ step \in {"configured", "changed"} /\ step' = "judged"
          /\ configured' = configured /\ written' = written /\ option' = option /\ stored' = stored
          /\ option \in Seq(Byte) /\ Recorded
      BY <1>4 DEF Switch, IdentityInv
    <2>2. accepted' <=> Accepts
      BY <1>4, <2>1, SwitchAccepts
    <2>3. Accepts' <=> Accepts
      BY <2>1, Zenon DEF Accepts
    <2>4. Recorded'
      BY <2>1, Zenon DEF Recorded
    <2> QED
      BY <2>1, <2>2, <2>3, <2>4 DEF IdentityInv
  <1>5. CASE UNCHANGED identityVars
    BY <1>5 DEF identityVars, IdentityInv, Recorded, Accepts
  <1> QED
    BY <1>1, <1>2, <1>3, <1>4, <1>5 DEF RecordedIdentityNext

\* The invariant implies the property.
LEMMA IdentityExact ==
  IdentityInv => IdentityIsExact
  <1> SUFFICES ASSUME IdentityInv PROVE IdentityIsExact
    OBVIOUS
  <1>1. step = "refused" => ~Supported(option)
    BY DEF IdentityInv
  <1>2. step \in {"configured", "changed", "judged"} => Supported(configured)
    BY DEF IdentityInv, Recorded
  <1>3. ASSUME step = "judged"
        PROVE  accepted <=> /\ Bootable(option) /\ Essence(option) = Essence(configured)
                            /\ SameRecord(written[1], stored[1])
    <2> DEFINE v == configured
               I == IdentityOf(configured)
               target == TargetRecord(I)
    <2>1. /\ option \in Seq(Byte) /\ v \in Variables /\ Supported(v) /\ (accepted <=> Accepts)
          /\ \E doc, other :
                /\ ToDocument(target) = <<doc>> /\ written = <<doc>> /\ stored = <<other>>
                /\ other = doc \/ (other \in Rewritten(doc) /\ option = v)
      BY <1>3 DEF IdentityInv, Recorded
    <2>2. PICK doc, other :
            /\ ToDocument(target) = <<doc>> /\ written = <<doc>> /\ stored = <<other>>
            /\ other = doc \/ (other \in Rewritten(doc) /\ option = v)
      BY <2>1
    <2>3. /\ v \in Seq(Byte) /\ Identify(v) = <<I>>
          /\ FromDocument(doc) = <<target>> /\ SameRecord(doc, doc)
          /\ other \in Rewritten(doc) =>
                IF SameRecord(doc, other) THEN FromDocument(other) = <<target>>
                ELSE \A read \in ToSet(FromDocument(other)) :
                       <<read.os, read.boot_id, read.identity>> # <<TargetOs, TargetId, I>>
      <3>1. /\ v \in Seq(Byte) /\ Identify(v) = <<I>>
            /\ \E d : /\ ToDocument(target) = <<d>>
                      /\ FromDocument(d) = <<target>> /\ SameRecord(d, d)
                      /\ \A o \in Rewritten(d) :
                            IF SameRecord(d, o) THEN FromDocument(o) = <<target>>
                            ELSE \A read \in ToSet(FromDocument(o)) :
                                   <<read.os, read.boot_id, read.identity>> # <<TargetOs, TargetId, I>>
        BY <2>1, RecordKept
      <3>2. PICK d : /\ ToDocument(target) = <<d>>
                     /\ FromDocument(d) = <<target>> /\ SameRecord(d, d)
                     /\ \A o \in Rewritten(d) :
                           IF SameRecord(d, o) THEN FromDocument(o) = <<target>>
                           ELSE \A read \in ToSet(FromDocument(o)) :
                                  <<read.os, read.boot_id, read.identity>> # <<TargetOs, TargetId, I>>
        BY <3>1
      <3> HIDE DEF target
      <3>3. d = doc
        <4>1. <<d>> = <<doc>>
          BY <2>2, <3>2, Zenon
        <4> QED
          BY <4>1
      <3> QED
        BY <3>1, <3>2, <3>3, Zenon
    <2>4. written[1] = doc /\ stored[1] = other /\ Then(stored, FromDocument) = FromDocument(other)
      <3>1. <<doc>>[1] = doc /\ <<other>>[1] = other /\ <<other>> # <<>>
        BY OneResult
      <3> QED
        BY <2>2, <3>1, Zenon DEF Then
    <2>5. Accepts <=> \E read \in ToSet(FromDocument(other)) :
                        /\ read.os = TargetOs /\ read.boot_id = TargetId
                        /\ Identify(option) = <<read.identity>>
      BY <2>4, Zenon DEF Accepts
    <2>6. target.os = TargetOs /\ target.boot_id = TargetId /\ target.identity = I
      BY DEF TargetRecord
    <2>7. Identify(option) = <<I>> <=> Bootable(option) /\ Essence(option) = Essence(v)
      <3>1. Identify(option) = IF Supported(option) THEN <<IdentityOf(option)>> ELSE <<>>
        BY <2>1, Identified
      <3>2. Identify(option) = <<I>> <=> Supported(option) /\ IdentityOf(option) = I
        <4> DEFINE J == IdentityOf(option)
        <4> HIDE DEF I, J
        <4>1. <<>> # <<I>> /\ (<<J>> = <<I>> <=> J = I)
          OBVIOUS
        <4> QED
          BY <3>1, <4>1, Zenon DEF J
      <3>3. Supported(option) => (IdentityOf(option) = I <=> Essence(option) = Essence(v))
        BY <2>1, <2>3, IdentityIsEssence
      <3>4. Supported(option) => Bootable(option)
        BY Zenon DEF Supported
      <3>5. Bootable(option) /\ Essence(option) = Essence(v) => Supported(option)
        <4>1. ASSUME Bootable(option), Essence(option) = Essence(v) PROVE Supported(option)
          <5>1. Essence(v) = Essence(option)
            BY <4>1
          <5> QED
            BY <2>1, <2>3, <4>1, <5>1, EssenceSupported
        <4> QED
          BY <4>1
      <3> HIDE DEF I, v
      <3> QED
        BY <3>2, <3>3, <3>4, <3>5, Zenon
    <2> HIDE DEF I, v, target
    <2>8. CASE SameRecord(doc, other)
      <3>1. FromDocument(other) = <<target>>
        BY <2>2, <2>3, <2>8, Zenon
      <3>2. ToSet(FromDocument(other)) = {target}
        BY <3>1, OneResult, Zenon
      <3>3. Accepts <=> Identify(option) = <<I>>
        BY <2>5, <2>6, <3>2, Zenon
      <3> QED
        BY <2>1, <2>4, <2>7, <2>8, <3>3, Zenon DEF v
    <2>9. CASE ~SameRecord(doc, other)
      <3>1. other \in Rewritten(doc) /\ option = v
        <4>1. other # doc
          BY <2>3, <2>9, Zenon
        <4> QED
          BY <2>2, <4>1, Zenon
      <3>2. Identify(option) = <<I>>
        BY <2>3, <3>1, Zenon
      <3>3. \A x : <<I>> = <<x>> => I = x
        OBVIOUS
      <3>4. ~Accepts
        <4>1. ASSUME NEW read \in ToSet(FromDocument(other)), read.os = TargetOs, read.boot_id = TargetId,
                     Identify(option) = <<read.identity>>
              PROVE  FALSE
          <5>1. read.identity = I
            <6>1. <<I>> = <<read.identity>>
              BY <3>2, <4>1, Zenon
            <6> QED
              BY <3>3, <6>1, Zenon
          <5>2. <<read.os, read.boot_id, read.identity>> # <<TargetOs, TargetId, I>>
            BY <2>3, <2>9, <3>1, Zenon
          <5> QED
            BY <4>1, <5>1, <5>2, Zenon
        <4> QED
          BY <2>5, <4>1, Zenon
      <3> QED
        BY <2>1, <2>4, <2>9, <3>4, Zenon
    <2> QED
      BY <2>8, <2>9
  <1> QED
    BY <1>1, <1>2, <1>3 DEF IdentityIsExact

\* A switch accepts an entry exactly when nothing that identifies it has
\* changed: for any variables, any edit of them, any codec of the records with
\* the laws of RecordAssumption, and any bound on their size
\* (identity.rs:canonicalize, validate_target; execute.rs).
THEOREM ExactIdentity ==
  RecordedIdentitySpec => []IdentityIsExact
  <1>1. RecordedIdentityInit => IdentityInv
    BY IdentityInvInit
  <1>2. IdentityInv /\ [RecordedIdentityNext]_identityVars => IdentityInv'
    BY IdentityInvNext
  <1>3. IdentityInv => IdentityIsExact
    BY IdentityExact
  <1> QED
    BY <1>1, <1>2, <1>3, PTL DEF RecordedIdentitySpec
=============================================================================
