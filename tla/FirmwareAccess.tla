--------------------------- MODULE FirmwareAccess ---------------------------
(***************************************************************************)
(* The native calls behind one Switch of one helper, on either host: the   *)
(* enumeration of the load options, the reads of BootNext and the request  *)
(* to restart, while another firmware tool creates, rewrites and deletes   *)
(* variables between any two of them.                                      *)
(*                                                                         *)
(* BootFlow takes each of these adapter calls as one step; here a call is  *)
(* as many steps as it makes native calls.  What happens between them      *)
(* (identities, the record) is BootFlow's; the exclusive write of BootNext *)
(* on Linux is one of the creations.                                       *)
(*                                                                         *)
(* Data abstraction: the content of a variable is a number that no other   *)
(* content has, with a length in read buffers and, for BootOrder and       *)
(* BootCurrent, the identifiers it says.  A load option that does not parse   *)
(* and attributes that do not fit fail the call like a failed read.        *)
(***************************************************************************)
EXTENDS PrivilegeScope, FiniteSets

CONSTANTS
  Ids,            \* Boot#### identifiers
  None,           \* absent
  MaxMeddles,     \* bound: writes by the other firmware tool, on each host
  MaxLength,      \* bound: length of a variable, in buffers
  InitialBuffer,  \* INITIAL_BUFFER_BYTES
  MaxVariable,    \* MAX_VARIABLE_BYTES, MAX_RAW
  MaxInventory    \* MAX_RAW_INVENTORY_BYTES

ASSUME LimitAssumption ==
  /\ MaxMeddles \in [{"Linux", "Windows"} -> Nat]
  /\ {MaxLength, MaxVariable, MaxInventory} \subseteq Nat \ {0}
  /\ InitialBuffer \in 1..MaxVariable
  /\ None \notin Ids \cup Nat \cup {"Accepted", "Rejected", "Unknown"}
ASSUME IdsAssumption == Ids \cap {"BootOrder", "BootCurrent", "BootNext"} = {}
ASSUME PrivilegesAssumption == Privileges = {"SystemEnvironment", "Shutdown"}

OSes == {"Linux", "Windows"}
Names == Ids \cup {"BootOrder", "BootCurrent", "BootNext"}
Marks == UNION {0..MaxMeddles[os] : os \in OSes}

\* A read of one variable before its first native call: where it stands, the
\* buffer offered, what the last native call said, the contents met so far
\* and their length, the ids said, the inode and the metadata it started from.
Fresh(name) ==
  [step |-> "start", name |-> name, buffer |-> InitialBuffer, native |-> "none",
   marks |-> {}, count |-> 0, says |-> {}, file |-> 0, before |-> None]

VARIABLES
  host,
  entry,      \* firmware: name -> incarnation of the variable, None if absent
  data,       \* firmware: name, incarnation -> content [mark, len, says]
  dirStamp,   \* metadata of the directory: its last creation or deletion
  clock,      \* writes of the other tool so far
  call,       \* the adapter call under way
  read,       \* locals of read_variable and read_bounded
  dirSeen,    \* directory_before
  listed,     \* ids that BootOrder and BootCurrent refer to
  found,      \* ids discovered in the directory
  todo,       \* ids still to be looked up, then to be read
  total,      \* bytes counted against the inventory limit
  inv,        \* the inventory: id -> contents met while it was read
  reply,      \* RebootOutcome
  dispatched, \* history: the system took the request to restart
  had         \* history: <<name, content>> seen in the firmware since the call began

firmware == <<entry, data, dirStamp, clock>>
walk     == <<dirSeen, listed, found, todo, total, inv>>
power    == <<reply, dispatched>>
vars     == <<scopeVars, host, firmware, call, read, walk, power, had>>

Present ==
  {<<n, IF entry[n] = None THEN None ELSE data[n][entry[n]].mark>> : n \in Names}

Init ==
  /\ host \in OSes
  /\ ScopeInit
  /\ host = "Linux" => \A p \in Privileges : token[p] = "absent"
  /\ entry \in {e \in [Names -> {0, None}] : 0 = e["BootOrder"] /\ 0 = e["BootCurrent"]}
  /\ \E order \in SUBSET Ids, current \in Ids, len \in 1..MaxLength :
       data = [n \in Names |-> [i \in Marks |->
                 [mark |-> 0, len |-> IF n \in Ids THEN len ELSE 1,
                  says |-> CASE n = "BootOrder" -> order
                             [] n = "BootCurrent" -> {current}
                             [] OTHER -> {}]]]
  /\ dirStamp = 0 /\ clock = 0
  /\ call = "env" /\ read = Fresh("BootOrder")
  /\ dirSeen = 0 /\ listed = {} /\ found = {} /\ todo = {} /\ total = 0
  /\ inv = [b \in Ids |-> {}]
  /\ reply = None /\ dispatched = FALSE
  /\ had = Present

(***************************************************************************)
(* From one adapter call to the next, as core::execute chains them.        *)
(***************************************************************************)

\* The locals of a call end with it.
Return ==
  /\ read' = Fresh("BootNext") /\ had' = Present
  /\ dirSeen' = 0 /\ listed' = {} /\ found' = {} /\ todo' = {} /\ total' = 0
  /\ inv' = [b \in Ids |-> {}]

\* `?`: the call and with it the invocation ends in an error.
Fail == call' = "done" /\ Return

\* The call returned Ok; the flow goes on or ends for reasons of its own.
GoOn(next) == call' \in {next, "done"} /\ Return

Stay == UNCHANGED <<call, had>>

Start ==
  /\ call' = "options" /\ had' = Present
  /\ read' = [Fresh("BootOrder") EXCEPT
                !.step = IF host = "Linux" THEN "directory" ELSE "start"]
  /\ UNCHANGED walk

\* check_environment on Linux: the directory of the variables is there and is
\* efivarfs, on every component of its path ...
CheckDirectory ==
  /\ call = "env" /\ host = "Linux" /\ read.step = "start"
  /\ Fail \/ (read' = [read EXCEPT !.step = "probe"] /\ Stay /\ UNCHANGED walk)
  /\ UNCHANGED <<scopeVars, host, firmware, power>>

\* ... and what the bus says of the system and of RebootWithFlags fits.
CheckProbe ==
  /\ call = "env" /\ read.step = "probe"
  /\ Fail \/ Start
  /\ UNCHANGED <<scopeVars, host, firmware, power>>

\* check_environment on Windows.
CheckFirmwareType ==
  /\ call = "env" /\ host = "Windows"
  /\ Fail \/ Start
  /\ UNCHANGED <<scopeVars, host, firmware, power>>

\* read_options adds up what it has read, and turns it into references or an
\* entry.  After BootOrder and BootCurrent, Windows reads what they refer to;
\* Linux first walks the directory.
Collect(marks, count, says) ==
  IF \/ total + count > MaxInventory
     \/ host = "Windows" /\ read.name = "BootOrder" /\ says = {} THEN Fail
  ELSE /\ total' = total + count
       /\ \/ /\ read.name = "BootOrder"
             /\ listed' = says /\ UNCHANGED <<todo, inv>>
             /\ read' = Fresh("BootCurrent")
          \/ /\ read.name = "BootCurrent"
             /\ listed' = listed \cup says /\ UNCHANGED inv
             /\ todo' = IF host = "Linux" THEN Ids ELSE listed'
             /\ read' = [read EXCEPT !.step = IF host = "Linux" THEN "names" ELSE "pick"]
          \/ /\ read.name \in Ids
             /\ inv' = [inv EXCEPT ![read.name] = marks]
             /\ todo' = todo \ {read.name} /\ UNCHANGED listed
             /\ read' = [read EXCEPT !.step = "pick"]
       /\ UNCHANGED <<dirSeen, found>> /\ Stay

\* What a call makes of a variable that it has read, or of the confirmed
\* absence of BootNext: read_next returns it, and the flow goes on with the
\* recheck, the readback and the restart.
Accept(marks, count, says) ==
  \/ call = "options" /\ Collect(marks, count, says)
  \/ /\ call = "original"
     /\ GoOn(IF marks = {None} THEN "recheck" ELSE "readback")
  \/ call = "recheck" /\ GoOn("readback")
  \/ call = "readback" /\ marks # {None} /\ GoOn("reboot")
  \/ call = "readback" /\ marks = {None} /\ Fail
  \/ call = "observe" /\ GoOn("done")

(***************************************************************************)
(* read_options, around its reads.                                         *)
(***************************************************************************)

InOptions(step) == call = "options" /\ read.step = step

\* The metadata of the directory, before anything is read.
DirectoryBefore ==
  /\ InOptions("directory")
  /\ dirSeen' = dirStamp
  /\ read' = [read EXCEPT !.step = "start"]
  /\ call' = call /\ had' = Present
  /\ UNCHANGED <<scopeVars, host, firmware, listed, found, todo, total, inv, power>>

\* One entry of the directory, of a walk that is not atomic.
ReadName(b) ==
  /\ InOptions("names") /\ b \in todo
  /\ todo' = todo \ {b}
  /\ found' = found \cup {x \in {b} : entry[x] # None}
  /\ Stay
  /\ UNCHANGED <<scopeVars, host, firmware, read, dirSeen, listed, total, inv, power>>

\* Everything referred to must have been discovered; everything discovered is
\* read.
Discovered ==
  /\ InOptions("names") /\ todo = {}
  /\ IF listed \subseteq found
       THEN /\ todo' = found /\ read' = [read EXCEPT !.step = "pick"] /\ Stay
            /\ UNCHANGED <<dirSeen, listed, found, total, inv>>
       ELSE Fail
  /\ UNCHANGED <<scopeVars, host, firmware, power>>

\* The next option; in which order makes no difference.
Pick(b) ==
  /\ InOptions("pick") /\ b \in todo
  /\ read' = Fresh(b)
  /\ Stay
  /\ UNCHANGED <<scopeVars, host, firmware, walk, power>>

\* Fault: the directory is not looked at again.
FinishUnchecked ==
  /\ InOptions("pick") /\ todo = {}
  /\ GoOn("original")
  /\ UNCHANGED <<scopeVars, host, firmware, power>>

\* The inventory is complete; on Linux only if no name came or went.
Finish ==
  /\ InOptions("pick") /\ todo = {}
  /\ IF host = "Linux" /\ dirStamp # dirSeen
       THEN Fail
       ELSE GoOn("original")
  /\ UNCHANGED <<scopeVars, host, firmware, power>>

(***************************************************************************)
(* Linux: read_variable.                                                   *)
(***************************************************************************)

Reading(step) ==
  /\ host = "Linux" /\ call \notin {"env", "reboot", "done"}
  /\ read.step = step

\* What fstat tells of an inode.
Metadata(file) == <<file, data[read.name][file].mark, data[read.name][file].len>>

Linked == entry[read.name] # None /\ entry[read.name] = read.file

OpenVariable ==
  /\ Reading("start")
  /\ \/ /\ entry[read.name] # None
        /\ read' = [read EXCEPT !.step = "before", !.file = entry[read.name]]
        /\ Stay /\ UNCHANGED walk
     \/ entry[read.name] = None /\ read.name # "BootNext" /\ Fail
     \/ entry[read.name] = None /\ read.name = "BootNext" /\ Accept({None}, 0, {})
  /\ UNCHANGED <<scopeVars, host, firmware, power>>

StatBefore ==
  /\ Reading("before")
  /\ IF data[read.name][read.file].len > MaxVariable
       THEN Fail
       ELSE /\ read' = [read EXCEPT !.step = "chunk", !.before = Metadata(read.file)]
            /\ Stay /\ UNCHANGED walk
  /\ UNCHANGED <<scopeVars, host, firmware, power>>

\* One read of a buffer; at the end, or in a variable that was deleted, it
\* returns nothing.
ReadChunk ==
  /\ Reading("chunk")
  /\ LET c == data[read.name][read.file]
     IN  IF Linked /\ read.count < c.len
           THEN IF read.count + 1 > MaxVariable THEN Fail
                ELSE /\ read' = [read EXCEPT !.marks = @ \cup {c.mark},
                                             !.count = @ + 1, !.says = c.says]
                     /\ Stay /\ UNCHANGED walk
           ELSE read' = [read EXCEPT !.step = "after"] /\ Stay /\ UNCHANGED walk
  /\ UNCHANGED <<scopeVars, host, firmware, power>>

\* Length and metadata are still those of before.
StatAfter ==
  /\ Reading("after")
  /\ IF read.count = read.before[3] /\ Metadata(read.file) = read.before
       THEN read' = [read EXCEPT !.step = "reopen"] /\ Stay /\ UNCHANGED walk
       ELSE Fail
  /\ UNCHANGED <<scopeVars, host, firmware, power>>

\* The name still leads to the same, unchanged inode.
Reopen ==
  /\ Reading("reopen")
  /\ IF entry[read.name] # None /\ Metadata(entry[read.name]) = read.before
       THEN Accept(read.marks, read.count, read.says)
       ELSE Fail
  /\ UNCHANGED <<scopeVars, host, firmware, power>>

\* Any of these calls may fail, or the deadline of the reads pass.
CallFails ==
  /\ host = "Linux" /\ call \notin {"env", "reboot", "done"}
  /\ Fail
  /\ UNCHANGED <<scopeVars, host, firmware, power>>

(***************************************************************************)
(* Windows: read_bounded, one privilege scope per attempt.                 *)
(***************************************************************************)

Attempting ==
  /\ host = "Windows" /\ call \notin {"env", "reboot", "done"}
  /\ read.step = "scope"

EnterRead ==
  /\ host = "Windows" /\ call \notin {"env", "reboot", "done"}
  /\ read.step = "start"
  /\ Acquire("SystemEnvironment")
  /\ read' = [read EXCEPT !.step = "scope", !.native = "failed"]
  /\ Stay
  /\ UNCHANGED <<host, firmware, walk, power>>

\* GetFirmwareEnvironmentVariableExW: the whole variable, a buffer that is too
\* small, or an error; the code around it may also unwind.
NativeRead ==
  /\ Attempting
  /\ \/ /\ entry[read.name] # None
        /\ LET c == data[read.name][entry[read.name]]
           IN  read' = IF c.len > read.buffer
                         THEN [read EXCEPT !.native = "small"]
                         ELSE [read EXCEPT !.native = "read", !.marks = {c.mark},
                                           !.count = c.len, !.says = c.says]
        /\ Operated("ok")
     \/ UNCHANGED read /\ Operated("ok")
     \/ UNCHANGED read /\ Operated("panic")
  /\ Stay
  /\ UNCHANGED <<host, firmware, walk, power>>

\* The buffer is doubled up to the limit, and asked for once at the limit.
Required ==
  IF read.buffer >= MaxVariable THEN MaxVariable + 1
  ELSE IF 2 * read.buffer > MaxVariable THEN MaxVariable ELSE 2 * read.buffer

\* The scope has ended: its own errors are read errors.
Conclude ==
  /\ Attempting /\ Dispose
  /\ IF Answer # "ok" \/ read.native = "failed" THEN Fail
     ELSE IF read.native = "read" THEN Accept(read.marks, read.count, read.says)
     ELSE IF Required <= read.buffer \/ Required > MaxVariable THEN Fail
     ELSE /\ read' = [read EXCEPT !.step = "start", !.buffer = Required]
          /\ Stay /\ UNCHANGED walk
  /\ UNCHANGED <<host, firmware, power>>

InScope == ScopeStep /\ UNCHANGED <<host, firmware, call, read, walk, power, had>>

(***************************************************************************)
(* The request to restart.                                                 *)
(***************************************************************************)

\* What becomes of the D-Bus call: a return, an error by name, or the loss of
\* the connection; and whether the request was taken.
Messages ==
  {<<"return", TRUE>>, <<"returnOther", TRUE>>, <<"errorOther", FALSE>>}
    \cup ({"noReply", "disconnected", "ioTimedOut", "ioOther"} \X BOOLEAN)

\* reboot_via
ReplyOf(message) ==
  CASE message = "return" -> "Success"
    [] message = "errorOther" -> "ExplicitDenial"
    [] message \in {"noReply", "ioTimedOut"} -> "TimedOutAfterSend"
    [] OTHER -> "DisconnectedAfterSend"

\* LinuxPlatform::reboot, after a successful check_environment.
OutcomeOf(r) ==
  CASE r = "Success" -> "Accepted"
    [] r = "ExplicitDenial" -> "Rejected"
    [] OTHER -> "Unknown"

\* The flow observes BootNext after a rejection, and only then.
Answered(outcome) ==
  /\ reply' = outcome
  /\ call' = IF outcome = "Rejected" THEN "observe" ELSE "done"
  /\ Return

RebootWithFlags ==
  /\ host = "Linux" /\ call = "reboot"
  /\ \E m \in Messages : dispatched' = m[2] /\ Answered(OutcomeOf(ReplyOf(m[1])))
  /\ UNCHANGED <<scopeVars, host, firmware>>

EnterReboot ==
  /\ host = "Windows" /\ call = "reboot" /\ read.step = "start"
  /\ Acquire("Shutdown")
  /\ read' = [read EXCEPT !.step = "scope"]
  /\ Stay
  /\ UNCHANGED <<host, firmware, walk, power>>

\* InitiateSystemShutdownExW
InitiateShutdown ==
  /\ host = "Windows" /\ call = "reboot"
  /\ \/ Operated("ok") /\ dispatched' = TRUE
     \/ Operated("failed") /\ UNCHANGED dispatched
  /\ read' = [read EXCEPT !.native = IF dispatched' THEN "accepted" ELSE "failed"]
  /\ Stay
  /\ UNCHANGED <<host, firmware, walk, reply>>

\* Fault: a request whose scope failed counts as rejected.
ClassifyByScope(accepted, answer) == IF answer = "ok" THEN "Accepted" ELSE "Rejected"

\* classify_reboot_result
Classify(accepted, answer) ==
  IF ~accepted THEN "Rejected" ELSE IF answer = "ok" THEN "Accepted" ELSE "Unknown"

ConcludeReboot ==
  /\ host = "Windows" /\ call = "reboot"
  /\ read.step = "scope" /\ Dispose
  /\ Answered(Classify(read.native = "accepted", Answer))
  /\ UNCHANGED <<host, firmware, dispatched>>

(***************************************************************************)
(* The other firmware tool.                                                *)
(***************************************************************************)

\* The contents it may give a variable.
Written(n) ==
  [mark : {clock + 1}, len : IF n \in Ids THEN 1..MaxVariable ELSE {1},
   says : IF n = "BootOrder" THEN SUBSET Ids ELSE {{}}]

\* It acts on what the call under way reads; before the first call Init stands
\* for what it did, and nothing is decided on what the last one observes.
\* BootCurrent is set by the firmware when it boots.
\* Within a privilege scope only the native call touches the firmware: a write
\* before or after it is one before or after the scope.
Meddles(n) ==
  /\ clock < MaxMeddles[host]
  /\ \/ call = "options" /\ n \notin {"BootCurrent", "BootNext"}
     \/ call \in {"original", "recheck", "readback"} /\ n = "BootNext"
  /\ scope.at = "none"

Meddled ==
  /\ clock' = clock + 1
  /\ had' = had \cup Present'
  /\ UNCHANGED <<scopeVars, host, call, read, walk, power>>

Rewrite(n) ==
  /\ Meddles(n) /\ entry[n] # None
  /\ \E c \in Written(n) : data' = [data EXCEPT ![n][entry[n]] = c]
  /\ UNCHANGED <<entry, dirStamp>>
  /\ Meddled

Create(n) ==
  /\ Meddles(n) /\ entry[n] = None
  /\ entry' = [entry EXCEPT ![n] = clock + 1]
  /\ \E c \in Written(n) : data' = [data EXCEPT ![n][clock + 1] = c]
  /\ dirStamp' = clock + 1
  /\ Meddled

Delete(n) ==
  /\ Meddles(n) /\ entry[n] # None
  /\ entry' = [entry EXCEPT ![n] = None]
  /\ dirStamp' = clock + 1
  /\ UNCHANGED data
  /\ Meddled

Next ==
  \/ CheckDirectory \/ CheckProbe \/ CheckFirmwareType
  \/ DirectoryBefore \/ Discovered \/ Finish
  \/ \E b \in Ids : ReadName(b) \/ Pick(b)
  \/ OpenVariable \/ StatBefore \/ ReadChunk \/ StatAfter \/ Reopen \/ CallFails
  \/ EnterRead \/ NativeRead \/ Conclude \/ InScope
  \/ RebootWithFlags \/ EnterReboot \/ InitiateShutdown \/ ConcludeReboot
  \/ \E n \in Names : Rewrite(n) \/ Create(n) \/ Delete(n)

Spec == Init /\ [][Next]_vars

(***************************************************************************)
(* Properties.                                                             *)
(***************************************************************************)

\* One content that the firmware held under this name during the call.
Genuine(n, marks) == \E k \in Marks : marks = {k} /\ <<n, k>> \in had

\* Throughout the call the name was there, or was not.
Constant(n, there) ==
  IF there THEN <<n, None>> \notin had ELSE had \cap ({n} \X Marks) = {}

\* Every option of an inventory that read_options accepts is one content the
\* firmware held at some moment of the walk and not a mixture of two, whatever
\* BootOrder and BootCurrent refer to is in it, and on Linux its names are
\* those that existed throughout.  Contents of different options may come from
\* different moments (linux/firmware.rs: the comparisons of metadata;
\* windows/firmware.rs: TargetMissing).
InventoryIsWhole ==
  /\ \A b \in Ids : inv[b] # {} => Genuine(b, inv[b])
  /\ \A b \in listed : inv[b] # {}
  /\ host = "Linux" => \A b \in Ids : Constant(b, inv[b] # {})

\* A value of BootNext that read_next returns was in the firmware during the
\* call, and so was an absence; on Windows it never returns an absence.
NextIsGenuine ==
  \/ Genuine("BootNext", read.marks)
  \/ /\ host = "Linux" /\ call \in {"original", "recheck"}
     /\ <<"BootNext", None>> \in had

\* Each variable that a call of the adapter returns to the flow has the content
\* the firmware held at some moment of the call, and the names of an inventory
\* are complete, although other tools write between the native calls
\* (read_options and read_next of both hosts).
ReadsAreGenuine ==
  [][/\ call = "options" /\ call' = "original" => InventoryIsWhole
     /\ call # call' /\ call' \in {"recheck", "readback", "reboot"} => NextIsGenuine]_vars

\* A process that may hold a privilege it could not give back sends no restart
\* and reports none as accepted, its flow gets no further, except that it looks
\* at BootNext after a restart that was rejected, and no other native call is
\* given a scope (privilege.rs: restoration failure supersedes the result).
NothingAfterLeak ==
  [][leaky =>
       /\ dispatched' = dispatched /\ reply' # "Accepted"
       /\ call' # call => call' = "done" \/ (call = "reboot" /\ call' = "observe")
       /\ scope.at = "none" /\ scope'.at # "none" => call = "observe"]_vars

\* A reboot reported as accepted was taken, one reported as rejected was not:
\* the observation and rollback that follow a rejection never meet a machine
\* that is going down (classify_reboot_result; reboot_via).
RebootEvidence ==
  /\ reply = "Accepted" => dispatched
  /\ reply = "Rejected" => ~dispatched

=============================================================================
