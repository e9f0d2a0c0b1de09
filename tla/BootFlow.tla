------------------------------ MODULE BootFlow ------------------------------
(***************************************************************************)
(* One privileged helper invocation at a time: core::execute (flow.rs)     *)
(* running over a platform adapter, against the firmware variables and the *)
(* protected record that outlive it.                                       *)
(*                                                                         *)
(* The helper is sequential, but every adapter call is a separate step,    *)
(* because other firmware tools, a crash of the helper and a power cycle   *)
(* can all fall between two calls.  Mutual exclusion between helpers is    *)
(* the subject of HelperSession; here it is what allows a single           *)
(* invocation's locals to be plain variables.                              *)
(*                                                                         *)
(* Data abstraction: a boot identifier, a canonical identity and an error  *)
(* are members of small sets; the stages of a report, each pushed at most  *)
(* once, form a set.                                                       *)
(***************************************************************************)
EXTENDS Naturals

CONSTANTS
  BootIds,      \* Boot#### identifiers
  Idents,       \* canonical identities
  Unsupported,  \* a load option that canonicalize rejects
  None,         \* absent: no BootNext, no option, RecordState::Missing
  Empty,        \* a BootNext object that exists and does not decode
  Corrupt,      \* a record that load_record rejects
  Failed,       \* an adapter call that returned an error
  Rollbacks,    \* what rollback_next may answer
  MaxCalls,     \* bound: invocations
  MaxMeddles    \* bound: writes by other firmware tools

OSes == {"Linux", "Windows"}

AllRollbacks == {"NotNeeded", "Restored", "Unsafe", "Failed"}

ASSUME RollbacksAssumption == Rollbacks \subseteq AllRollbacks
ASSUME BoundsAssumption == MaxCalls \in Nat /\ MaxMeddles \in Nat
ASSUME DistinctAssumption ==
  /\ {None, Empty, Failed, Corrupt} \cap BootIds = {}
  /\ {None, Unsupported} \cap Idents = {}
  /\ None # Empty /\ None # Failed /\ None # Corrupt /\ None # Unsupported
  /\ Empty # Failed

Records == [id : BootIds, os : OSes, ident : Idents]

ASSUME RecordsAssumption == None \notin Records /\ Corrupt \notin Records

Requests == [op : {"Inspect"}, id : {None}, os : {None}]
       \cup [op : {"Configure"}, id : BootIds, os : OSes]
       \cup [op : {"Switch"}, id : {None}, os : OSes]

NextValues == BootIds \cup {None, Empty}

OptionValues == Idents \cup {Unsupported, None}

Stages == {"TargetValidated", "BootNextVerified", "RebootAccepted",
           "RebootUnknown", "RebootRejected", "RollbackAttempted",
           "RollbackRestored", "RollbackUnsafe", "RollbackFailed",
           "ResidualPossible"}

\* Where the invocation is: "idle" before the first and after a crash,
\* "done" once it holds its report or its error.
PCs == {"idle", "load", "env", "options", "save", "original", "recheck",
        "create", "write", "readback", "reboot", "observe", "rollback", "done"}

\* The closed answer an invocation gives to its caller.
Results == [kind : {"none", "ok", "plain", "flow"},
            stages : SUBSET Stages,
            rollback : AllRollbacks]

NoResult == [kind |-> "none", stages |-> {}, rollback |-> "NotNeeded"]

VARIABLES
  host,       \* the operating system the helper runs on
  bootNext,   \* firmware: the one-shot BootNext variable
  options,    \* firmware: Boot#### -> identity of its load option
  record,     \* the protected record
  pc, req,    \* control point and request of the invocation
  rec,        \* its copy of the record
  inv,        \* its copy of the option inventory
  original,   \* BootNext as first read
  wrote,      \* write_next returned Ok
  ready,      \* LinuxPlatform::reboot_ready
  stages,     \* report.stages
  result,     \* what it answered
  calls,      \* invocations so far
  meddles,    \* foreign writes so far
  mine,       \* history: this invocation put the present BootNext there
  raced,      \* history: a foreign BootNext landed inside write_next
  quiet,      \* history: no foreign write of an option since they were read
  settled     \* history: no foreign write of BootNext since the invocation
              \* last read or wrote it

firmware == <<bootNext, options>>
locals   == <<req, rec, inv, original, wrote, ready, stages, result>>
history  == <<mine, raced, quiet, settled>>
bounds   == <<calls, meddles>>
vars     == <<host, firmware, record, pc, locals, bounds, history>>

(***************************************************************************)
(* Adapter contracts.                                                      *)
(***************************************************************************)

\* The system a host switches to.
ExpectedTarget == IF host = "Linux" THEN "Windows" ELSE "Linux"

\* Fault: a read error of an absent variable is taken as proof of absence.
ReadNextAbsent == {Failed} \cup (IF bootNext = Empty THEN {} ELSE {bootNext})

\* Fault: an object that does not decode is taken for an absent variable.
ReadNextLenient ==
  {Failed} \cup {v \in BootIds \cup {None} :
                   /\ v = bootNext \/ (v = None /\ bootNext = Empty)
                   /\ v = None => host = "Linux"}

\* What read_next can answer.  An object that does not decode is an error.
\* On Windows an absent variable is an error as well: no native error code is
\* accepted as proof of absence.
ReadNextOutcomes ==
  {Failed} \cup {v \in BootIds \cup {None} :
                   v = bootNext /\ (v = None => host = "Linux")}

\* What the reboot call can answer; the Linux adapter refuses without a
\* successful check_environment and consumes it.
RebootOutcomes ==
  IF host = "Linux" /\ ~ready THEN {"Rejected"}
                              ELSE {"Accepted", "Rejected", "Unknown"}

\* Which of the adapter's rollback answers the trait contract allows now: a
\* restore needs the value this invocation wrote, NotNeeded the original.
RollbackOutcomes ==
  {r \in Rollbacks : /\ r = "Restored" => mine
                     /\ r = "NotNeeded" => bootNext = original}

(***************************************************************************)
(* Ways an invocation ends.                                                *)
(***************************************************************************)

Answer(kind, said, rollback) ==
  /\ result' = [kind |-> kind, stages |-> said, rollback |-> rollback]
  /\ pc' = "done"

\* `?` before any stage was recorded.
PlainError == Answer("plain", {}, "NotNeeded") /\ UNCHANGED stages

\* Fault: the possible residual is never recorded.
FailureSilent(residual) ==
  Answer("flow", stages, "NotNeeded") /\ UNCHANGED stages

\* failure(cause, &report, residual_possible)
Failure(residual) ==
  /\ Answer("flow",
            stages \cup (IF residual THEN {"ResidualPossible"} ELSE {}),
            "NotNeeded")
  /\ UNCHANGED stages

Goto(label) == pc' = label /\ UNCHANGED result

(***************************************************************************)
(* execute, one action per adapter call.                                   *)
(***************************************************************************)

Init ==
  /\ host \in OSes
  /\ bootNext \in BootIds \cup {None}
  /\ options \in [BootIds -> OptionValues]
  /\ record \in Records \cup {None, Corrupt}
  /\ pc = "idle"
  /\ req = [op |-> "Inspect", id |-> None, os |-> None]
  /\ rec = None
  /\ inv = [b \in BootIds |-> None]
  /\ original = None
  /\ wrote = FALSE
  /\ ready = FALSE
  /\ stages = {}
  /\ result = NoResult
  /\ calls = 0 /\ meddles = 0
  /\ mine = FALSE /\ raced = FALSE /\ quiet = TRUE /\ settled = TRUE

\* A helper process starts with one request, a fresh platform and no memory
\* of earlier invocations.
Start(r) ==
  /\ pc \in {"idle", "done"}
  /\ calls < MaxCalls
  /\ calls' = calls + 1
  /\ req' = r
  /\ pc' = "load"
  /\ rec' = None
  /\ inv' = [b \in BootIds |-> None]
  /\ original' = None
  /\ wrote' = FALSE
  /\ ready' = FALSE
  /\ stages' = {}
  /\ result' = NoResult
  /\ mine' = FALSE /\ raced' = FALSE /\ quiet' = TRUE /\ settled' = TRUE
  /\ UNCHANGED <<firmware, record, meddles>>

\* Fault: a record that cannot be read counts as a missing one.
LoadRecordLenient ==
  /\ pc = "load"
  /\ rec' = IF record = Corrupt THEN None ELSE record
  /\ Goto("env")
  /\ UNCHANGED <<firmware, record, req, inv, original, wrote, ready, stages,
                 bounds, history>>

\* platform.load_record()?, the validation of its identity, and the check of
\* the requested system against the host.
LoadRecord ==
  /\ pc = "load"
  /\ \/ PlainError /\ UNCHANGED rec
     \/ /\ record # Corrupt
        /\ rec' = record
        /\ IF req.op # "Inspect" /\ req.os # ExpectedTarget
             THEN PlainError
             ELSE Goto("env") /\ UNCHANGED stages
  /\ UNCHANGED <<firmware, record, req, inv, original, wrote, ready, bounds,
                 history>>

\* platform.check_environment()?
CheckEnvironment ==
  /\ pc = "env"
  /\ \/ ready' = FALSE /\ PlainError
     \/ ready' = (host = "Linux") /\ Goto("options") /\ UNCHANGED stages
  /\ UNCHANGED <<firmware, record, req, rec, inv, original, wrote, bounds,
                 history>>

\* Fault: the option is located by its number alone.
MatchesById(target, seen) == seen[target.id] # None

\* Whether the request may go on with the inventory seen: validate_target for
\* Inspect and Switch, a supported identity for Configure.
Matches(target, seen) == seen[target.id] = target.ident

Admissible(seen) ==
  /\ req.op = "Inspect" /\ rec # None => Matches(rec, seen)
  /\ req.op = "Configure" => seen[req.id] \in Idents
  /\ req.op = "Switch" => /\ rec # None
                          /\ rec.os = req.os
                          /\ Matches(rec, seen)

\* platform.read_options()? and everything execute decides on the inventory.
ReadOptions ==
  /\ pc = "options"
  /\ \/ PlainError /\ UNCHANGED inv
     \/ /\ inv' = options
        /\ \/ ~Admissible(options) /\ PlainError
           \/ /\ Admissible(options) /\ req.op = "Inspect"
              /\ Answer("ok", stages, "NotNeeded") /\ UNCHANGED stages
           \/ /\ Admissible(options) /\ req.op = "Configure"
              /\ Goto("save") /\ stages' = {"TargetValidated"}
           \/ /\ Admissible(options) /\ req.op = "Switch"
              /\ Goto("original") /\ stages' = {"TargetValidated"}
  /\ quiet' = TRUE
  /\ UNCHANGED <<firmware, record, req, rec, original, wrote, ready, bounds,
                 mine, raced, settled>>

\* What a save that failed on Windows can leave instead of the old record or
\* the new one: a first record that cannot be read, or none (WindowsStore).
Wreckage ==
  IF host = "Linux" THEN {} ELSE IF record = None THEN {Corrupt} ELSE {None}

\* platform.save_record: replaced, refused with the old record in place, or
\* replaced with unknown durability; on Windows also half done.
SaveRecord ==
  /\ pc = "save"
  /\ \/ /\ record' = [id |-> req.id, os |-> req.os, ident |-> inv[req.id]]
        /\ Answer("ok", stages, "NotNeeded") /\ UNCHANGED stages
     \/ record' = record /\ Failure(FALSE)
     \/ /\ record' = [id |-> req.id, os |-> req.os, ident |-> inv[req.id]]
        /\ Failure(FALSE)
     \/ record' \in Wreckage /\ Failure(FALSE)
  /\ UNCHANGED <<firmware, req, rec, inv, original, wrote, ready, bounds,
                 history>>

\* First read_next: somebody else's target is a conflict.
ReadOriginal ==
  /\ pc = "original"
  /\ \E v \in ReadNextOutcomes :
       /\ original' = IF v = Failed THEN original ELSE v
       /\ \/ v \notin {None, rec.id} /\ Failure(FALSE)
          \/ v = None /\ Goto("recheck") /\ UNCHANGED stages
          \/ v = rec.id /\ Goto("readback") /\ UNCHANGED stages
  /\ settled' = TRUE
  /\ UNCHANGED <<firmware, record, req, rec, inv, wrote, ready, bounds,
                 mine, raced, quiet>>

\* Second read_next, immediately before the write.
Recheck ==
  /\ pc = "recheck"
  /\ \E v \in ReadNextOutcomes :
       \/ v \notin {None, rec.id} /\ Failure(FALSE)
       \/ /\ v = None
          /\ Goto(IF host = "Linux" THEN "create" ELSE "write")
          /\ UNCHANGED stages
       \/ v = rec.id /\ Goto("readback") /\ UNCHANGED stages
  /\ settled' = TRUE
  /\ UNCHANGED <<firmware, record, req, rec, inv, original, wrote, ready,
                 bounds, mine, raced, quiet>>

\* Fault: the object is opened for writing whether or not it exists.
CreateNextShared ==
  /\ pc = "create"
  /\ Goto("write")
  /\ UNCHANGED <<firmware, record, req, rec, inv, original, wrote, ready,
                 stages, bounds, history>>

\* Linux write_next, first half: exclusive create of the efivarfs object.
CreateNext ==
  /\ pc = "create"
  /\ \/ Failure(TRUE) /\ UNCHANGED <<bootNext, mine, settled>>
     \/ /\ bootNext = None
        /\ bootNext' = Empty /\ mine' = TRUE /\ settled' = TRUE
        /\ Goto("write") /\ UNCHANGED stages
  /\ UNCHANGED <<options, record, req, rec, inv, original, wrote, ready,
                 bounds, raced, quiet>>

\* The write itself.  A failed call may still have changed the firmware.
WriteNext ==
  /\ pc = "write"
  /\ \/ /\ bootNext' = rec.id /\ mine' = TRUE /\ wrote' = TRUE
        /\ settled' = TRUE
        /\ Goto("readback") /\ UNCHANGED stages
     \/ UNCHANGED <<bootNext, mine, wrote, settled>> /\ Failure(TRUE)
     \/ /\ bootNext' = rec.id /\ mine' = TRUE /\ UNCHANGED <<wrote, settled>>
        /\ Failure(TRUE)
  /\ UNCHANGED <<options, record, req, rec, inv, original, ready, bounds,
                 raced, quiet>>

\* Third read_next: only the exact target lets the flow go on.
Readback ==
  /\ pc = "readback"
  /\ \E v \in ReadNextOutcomes :
       \/ v # rec.id /\ Failure(TRUE)
       \/ /\ v = rec.id
          /\ Goto("reboot") /\ stages' = stages \cup {"BootNextVerified"}
  /\ settled' = TRUE
  /\ UNCHANGED <<firmware, record, req, rec, inv, original, wrote, ready,
                 bounds, mine, raced, quiet>>

\* Fault: a lost reply is handled like a rejection.
RebootUnknownAsRejected ==
  /\ pc = "reboot"
  /\ ready' = FALSE
  /\ stages' = stages \cup {"RebootUnknown"}
  /\ Goto("observe")
  /\ UNCHANGED <<firmware, record, req, rec, inv, original, wrote, bounds,
                 history>>

\* platform.reboot()
Reboot ==
  /\ pc = "reboot"
  /\ ready' = FALSE
  /\ \E reply \in RebootOutcomes :
       \/ /\ reply = "Accepted"
          /\ stages' = stages \cup {"RebootAccepted"}
          /\ Answer("ok", stages', "NotNeeded")
       \/ /\ reply = "Unknown"
          /\ stages' = stages \cup {"RebootUnknown", "ResidualPossible"}
          /\ Answer("ok", stages', "NotNeeded")
       \/ /\ reply = "Rejected"
          /\ stages' = stages \cup {"RebootRejected"}
          /\ Goto("observe")
  /\ UNCHANGED <<firmware, record, req, rec, inv, original, wrote, bounds,
                 history>>

\* Fourth read_next, after an explicit rejection, and the choice of a
\* rollback assessment.
Observe ==
  /\ pc = "observe"
  /\ \E v \in ReadNextOutcomes :
       \/ /\ v # Failed /\ v = original
          /\ stages' = stages
          /\ Answer("flow", stages', "NotNeeded")
       \/ /\ v = Failed \/ (v # original /\ (~wrote \/ v # rec.id))
          /\ stages' = stages \cup {"RollbackUnsafe", "ResidualPossible"}
          /\ Answer("flow", stages', "Unsafe")
       \/ /\ v # original /\ wrote /\ v = rec.id
          /\ stages' = stages \cup {"RollbackAttempted"}
          /\ Goto("rollback")
  /\ settled' = TRUE
  /\ UNCHANGED <<firmware, record, req, rec, inv, original, wrote, ready,
                 bounds, mine, raced, quiet>>

\* The stages a rollback answer adds to the report.
RollbackStages(r) ==
  {s \in {"RollbackRestored"} : r = "Restored"} \cup
  {s \in {"RollbackUnsafe"} : r = "Unsafe"} \cup
  {s \in {"RollbackFailed"} : r = "Failed"} \cup
  {s \in {"ResidualPossible"} : r \in {"Unsafe", "Failed"}}

\* platform.rollback_next(original, target)
Rollback ==
  /\ pc = "rollback"
  /\ \E r \in RollbackOutcomes :
       /\ \/ r \in {"NotNeeded", "Unsafe"} /\ UNCHANGED <<bootNext, mine>>
          \/ /\ r \in {"Restored", "Failed"} /\ mine
             /\ bootNext' = original /\ mine' = FALSE
          \/ r = "Failed" /\ UNCHANGED <<bootNext, mine>>
       /\ stages' = stages \cup RollbackStages(r)
       /\ Answer("flow", stages', r)
  /\ UNCHANGED <<options, record, req, rec, inv, original, wrote, ready,
                 bounds, raced, quiet, settled>>

Execute ==
  \/ LoadRecord \/ CheckEnvironment \/ ReadOptions \/ SaveRecord
  \/ ReadOriginal \/ Recheck \/ CreateNext \/ WriteNext \/ Readback
  \/ Reboot \/ Observe \/ Rollback

(***************************************************************************)
(* What happens around an invocation.                                      *)
(***************************************************************************)

\* The helper process dies between two calls.
Crash ==
  /\ pc \notin {"idle", "done"}
  /\ pc' = "idle"
  /\ UNCHANGED <<firmware, record, locals, bounds, history>>

\* The machine restarts, asked to or not; the firmware consumes BootNext.
PowerCycle ==
  /\ pc' = "idle"
  /\ bootNext' = None /\ mine' = FALSE
  /\ UNCHANGED <<options, record, locals, bounds, raced, quiet, settled>>

\* Another firmware tool sets or deletes BootNext.
ForeignNext(v) ==
  /\ meddles < MaxMeddles /\ meddles' = meddles + 1
  /\ bootNext' = v
  /\ mine' = FALSE /\ settled' = FALSE
  /\ raced' = (raced \/ pc = "write")
  /\ UNCHANGED <<options, record, pc, locals, calls, quiet>>

\* Another firmware tool creates, replaces or deletes a load option.
ForeignOption(b, x) ==
  /\ meddles < MaxMeddles /\ meddles' = meddles + 1
  /\ options' = [options EXCEPT ![b] = x]
  /\ quiet' = FALSE
  /\ UNCHANGED <<bootNext, record, pc, locals, calls, mine, raced, settled>>

Next ==
  /\ UNCHANGED host
  /\ \/ \E r \in Requests : Start(r)
     \/ Execute
     \/ Crash
     \/ PowerCycle
     \/ \E v \in BootIds \cup {None} : ForeignNext(v)
     \/ \E b \in BootIds, x \in OptionValues : ForeignOption(b, x)

Spec == Init /\ [][Next]_vars

(***************************************************************************)
(* Properties.                                                             *)
(***************************************************************************)

FlagsOK ==
  /\ wrote \in BOOLEAN /\ ready \in BOOLEAN
  /\ mine \in BOOLEAN /\ raced \in BOOLEAN
  /\ quiet \in BOOLEAN /\ settled \in BOOLEAN

DataOK ==
  /\ host \in OSes
  /\ bootNext \in NextValues
  /\ options \in [BootIds -> OptionValues]
  /\ record \in Records \cup {None, Corrupt}
  /\ pc \in PCs
  /\ req \in Requests
  /\ rec \in Records \cup {None}
  /\ inv \in [BootIds -> OptionValues]
  /\ original \in BootIds \cup {None}
  /\ stages \in SUBSET Stages
  /\ result \in Results
  /\ calls \in Nat /\ meddles \in Nat

\* Type invariant of the invocation and of the state it works on: in
\* particular read_next never lets an undecoded BootNext into the flow
\* (firmware.rs: decode_boot_next).
TypeOK == DataOK /\ FlagsOK

\* When execute is about to ask for a reboot the record is still the one that
\* was loaded, BootNext holds the recorded target, whatever other tools wrote
\* before it was read back, and the target's load option has the recorded
\* identity, whatever they wrote before the options were read.  What they write
\* after these reads is not seen (flow.rs: readback before platform.reboot).
RebootIsVerified ==
  pc = "reboot" =>
    /\ record = rec
    /\ settled => bootNext = rec.id
    /\ quiet => options[rec.id] = rec.ident

\* What an invocation does next rests on what BootNext really is, unless another
\* tool has written it since the last look: absent before the exclusive create,
\* in particular not an object that a crash left empty, the object of its own
\* before the write, the recorded target when the readback is due and before a
\* rollback (flow.rs: the four calls of read_next; firmware.rs:
\* decode_boot_next).
NextIsKnown ==
  settled =>
    /\ pc \in {"recheck", "create"} => bootNext = None
    /\ pc = "write" => bootNext = Empty /\ mine
    /\ pc \in {"readback", "rollback"} => bootNext = rec.id

\* Every call of an invocation that changes the machine, or decides that it may
\* be changed, is made on evidence that still holds unless another tool wrote
\* over it after it was read: BootNext at each step, and record, BootNext and
\* load option at the reboot request (flow.rs: execute).
EvidenceHolds == NextIsKnown /\ RebootIsVerified

\* An invocation that has answered without an accepted reboot, and whose own
\* BootNext object is still in the firmware, said ResidualPossible: a caller
\* never takes a machine that may boot elsewhere for an untouched one
\* (flow.rs: failure(.., true), RebootUnknown, Unsafe and Failed rollbacks).
ResidualIsReported ==
  pc = "done" /\ mine =>
    result.stages \cap {"RebootAccepted", "ResidualPossible"} # {}

\* No step of an invocation replaces or removes a BootNext value it did not
\* put there, except one that another tool wrote after write_next had already
\* created the object exclusively (flow.rs: recheck; firmware.rs: O_EXCL).
ForeignNextSurvives ==
  [][Execute /\ bootNext' # bootNext => bootNext = None \/ mine \/ raced]_vars

\* BootNext is written only by a Switch that found it absent, for the recorded
\* target, after that target's live identity matched the record in the same
\* invocation; and the reboot call comes under the same conditions except that
\* the target may have been set already (flow.rs: validate_target first).
MutationNeedsIdentity ==
  [][Execute /\ (bootNext' # bootNext \/ "RebootAccepted" \in stages') =>
       /\ req.op = "Switch" /\ req.os = ExpectedTarget
       /\ inv[rec.id] = rec.ident
       /\ bootNext' # bootNext => original = None]_vars

\* The record changes only in a Configure, never over one that could not be
\* read, and to the identity the live option had when it was enumerated; only
\* a save that fails on Windows leaves anything else
\* (flow.rs: Configure; an unreadable record stops load_record).
RecordIsLiveOption ==
  [][record' # record =>
       /\ req.op = "Configure" /\ record # Corrupt
       /\ IF record' \in {None, Corrupt}
            THEN host = "Windows" /\ result'.kind # "ok"
            ELSE /\ record'.id = req.id /\ record'.os = ExpectedTarget
                 /\ quiet => record'.ident = options[req.id]]_vars

\* Once the reboot call may have been obeyed, the invocation leaves BootNext
\* alone (flow.rs: Accepted and Unknown are never rolled back).
NoUndoAfterReboot ==
  [][Execute /\ bootNext' # bootNext =>
       stages' \cap {"RebootAccepted", "RebootUnknown"} = {}]_vars

\* On Windows an invocation never writes BootNext: absence is never confirmed,
\* so only a target that is already set can be switched to
\* (windows/firmware.rs: read_next has no Ok(None)).
WindowsNeverWrites ==
  [][Execute /\ host = "Windows" => bootNext' = bootNext]_vars

=============================================================================
