# BootHop in TLA+

BootHop switches a dual-boot machine to its other operating system once: it
sets the firmware variable `BootNext` to a recorded, identified boot option and
asks the system to reboot. A wrong step boots the wrong thing, overwrites what
another tool has set, or leaves a machine that will boot elsewhere without
anybody knowing. This directory models the parts of the program that decide
those steps, checks them with TLC on small instances, and proves the central
safety properties with TLAPS for every instance.

## 1. Inventory

### Parts, their state and their operations

| Part | Source | State it keeps | Operations |
|---|---|---|---|
| Operation flow | `crates/core/src/flow.rs` | locals of one invocation (record, inventory, original `BootNext`, `wrote`, stages) | `execute` for Inspect, Configure, Switch |
| Linux adapter | `crates/platform/src/linux.rs`, `linux/firmware.rs`, `linux/reboot.rs` | `reboot_ready`; works on efivarfs and the login manager | read options, read / write `BootNext`, reboot, (no) rollback |
| Linux store | `crates/platform/src/linux/store.rs` | `targets.json`, `operation.lock`, temporary files | acquire, load, save, clean up |
| Helper process | `crates/helper/src/{main,dispatch,pipe,lock}.rs` | one request, a 30 s deadline, the operation lock | hello, receive, operate, one response, exit status |
| Helper client | `crates/gui/src/helper_client.rs`, `helper_client/linux.rs` | one child process, two deadlines | spawn through pkexec, hello, send, collect, stop |
| GUI controller | `crates/gui/src/controller.rs` | `UiState`, latched recovery state, candidates, selection, confirmation | inspect, configure, switch, select, confirm, poll |
| GUI window | `crates/gui/src/main.rs`, `ui/main.slint` | widgets | forwards clicks, polls on wake-up |
| Display cache | `crates/gui/src/cache*` | last target shown | load, save |
| Identity and parsers | `crates/core/src/{identity,load_option,device_path}.rs` | none | canonicalize, parse |
| Record codec | `crates/core/src/record.rs` | none | encode, decode |
| Wire protocol | `crates/protocol/src/lib.rs` | none | framing, strict JSON, response budget |
| Windows adapter | `crates/platform/src/windows*`, privilege, reboot | token privilege | as on Linux, absence never confirmed |
| Windows store | `crates/platform/src/windows/store.rs` | record with ACL and identity checks | open, load, save |
| Windows helper and client | `crates/helper/src/windows*`, `gui/src/helper_client/windows*` | named mutex, named pipe | as on Linux, authenticated |
| Tools, packaging | `tools/*`, `packaging/*` | none at run time | static audit, evidence collection, installation |

### How they interact

The window calls the controller on the UI thread. The controller hands at most
one request to a worker thread, which runs a client exchange: pkexec starts a
root helper, the helper says hello, the client sends one frame and closes the
pipe, the helper takes the operation lock without waiting, runs
`core::execute` over the platform adapter, answers once, releases the lock and
exits. The client decodes the answer at the exit of the helper. The completion
returns over a channel and the controller decides which intents are open next.
Between invocations only the firmware variables, the protected record and the
lock file remain.

### What is hard

* Firmware variables have no compare-and-swap. Other tools write them between
  any two calls; the helper can only read again, create exclusively and read
  back.
* A client that gives up cannot kill a root helper; it must not report as
  unsent what can still run.
* A write, a reboot request or a directory sync can fail after having worked.
* Power can be lost between any two steps of a save, with write-back in any
  order.
* The window must keep an unresolved result closed across any number of failed
  or timed-out inspections.
* On Windows either process can be ended by its own watchdog at almost any
  point, and the kernel hands the mutex of a dead owner to the next waiter.
* A watchdog and the thread it guards may see the deadline at the same moment;
  a pipe operation may complete while it is being cancelled.
* One adapter call is many native calls. Variables appear, change and vanish
  between them, another administrator exchanges or reprotects a file between
  its check and its use, and a privilege may have been enabled when the call
  that should have restored it fails.
* An entry is recognised by its bytes, a record and an answer are strict JSON
  that is written by one process and read by another, and an answer has to fit
  a frame that may be too small for it.

The individual hazards, each at its line, are listed in `PROJECT.json` with the
properties that would catch them.

### What makes each part correct

* Flow: a reboot only into a verified target; no foreign `BootNext` lost;
  residue always reported; no undo once a reboot may have been obeyed; a record
  is always a live option.
* Store: a record is replaced as a whole or not at all, never when unreadable,
  and is on the medium after Ok.
* Helper and client, on both systems: one operation at a time; what is reported
  as unsent never runs; an answer is final; nobody waits for ever. On Windows
  also: nobody who waited runs over an operation that was cut off.
* Watchdog and pipe operation: an overrun ends in exactly one abort, a disarmed
  watchdog is silent, no buffer is released while the kernel may use it.
* Controller: one request at a time; nothing unresolved is covered; nothing is
  configured without a fresh, explicit consent.
* Adapters: each variable a call returns was in the firmware at some moment of
  the call; no privilege outlives its scope unreported, and nothing but an
  observation follows one that did; "rejected" means that no restart was
  set in motion.
* Access to the Windows store: the objects it hands on were plain, guarded and
  in their places, by the system's own rule of access.
* Identity and codecs: the recorded entry is accepted exactly if nothing that
  identifies it has changed; the window hears what the helper said, whole or cut
  down without loss of what it decides by, or nothing.

## 2. Modules

| Module | Models | Notes |
|---|---|---|
| `BootFlow` | `core::execute` over an adapter | one action per adapter call |
| `CoreProofs` | | theorems about `BootFlow` and `RecordedIdentity` |
| `Exchange` | the promise of an exchange to the window and the machine | abstract specification |
| `HelperSession` | Linux client, helper and operation lock | implements `Exchange` |
| `HelperSessionProofs` | | safety and the refinement, proved |
| `WindowsSession` | Windows client, helper, pipe and named mutex | implements `Exchange` |
| `WindowsSessionProofs` | | safety and the refinement, proved |
| `Watchdog` | the deadline watchdogs of a Windows process | two at a time |
| `OverlappedIo` | one overlapped pipe operation, of either side | its cancellation and its audit |
| `PipeIoProofs` | | theorems about `Watchdog`, `OverlappedIo` and `ResponseExchange` |
| `AtomicRecord` | the promise of `ProtectedStore` | abstract specification |
| `FileSystem` | a file system with power loss | shared by the two stores |
| `LinuxStore` | `LockedStore` | implements `AtomicRecord` |
| `LinuxStoreProofs` | | the refinement and its invariant, proved |
| `WindowsStore` | `WindowsProtectedStore` | promises less than `AtomicRecord` |
| `StoreAccess` | the native calls and checks inside the operations of that store | against another administrator |
| `WindowsStoreProofs` | | the properties of both, proved |
| `GuiController` | the controller | with `validate_report` |
| `GuiControllerProofs` | | theorems about `GuiController` |
| `PrivilegeScope` | `with_privilege` over the process token | |
| `FirmwareAccess` | the native calls behind the adapter calls of a Switch, on either host | extends `PrivilegeScope` |
| `FirmwareAccessProofs` | | the properties of both, proved |
| `Partial` | results that may be missing | shared by the codecs |
| `Serde` | what is relied on of serde and serde_json | external |
| `LoadOptions` | load option and device path parsers, `canonicalize` | operators over bytes |
| `Records` | the record codec | extends `LoadOptions` |
| `RecordedIdentity` | Configure, changes by others, Switch | over `LoadOptions`, any codec of records |
| `Wire` | `crates/protocol`: frame, decoding, budget | operators over any codec |
| `WireDocuments` | `crates/protocol`: types, scanner | the codec of `Wire`, on `Serde` |
| `ResponseExchange` | hello, request and response as documents | over `Wire`, any codec |
| `MC*` | | instances for TLC |

Every module with a state machine also defines, next to some actions, a variant
marked *Fault*: the same step with a plausible mistake. They are used in no
specification; `PROJECT.json` pairs each with the property that detects it.

### BootFlow

The firmware is `bootNext` and `options`, the protected file is `record`. The
locals of `execute` are `rec` (the loaded record), `inv` (the inventory),
`original`, `wrote` and `stages`; `ready` is `reboot_ready` of the Linux
adapter; `host` is the system the helper runs on. `pc` stands between two
adapter calls:

    load -> env -> options -> save | original -> recheck -> create -> write
         -> readback -> reboot -> observe -> rollback

`load` to `options` are shared by the three requests; Inspect ends at
`options`, Configure at `save`. `write_next` on Linux is two steps, exclusive
creation and write, because a crash or a foreign writer can come between them;
in between the object exists without decoding (`Empty`). Every adapter call can
fail. A failed write may have taken effect. `Rollbacks` is what the adapter may
answer to `rollback_next`. The Linux adapter only ever answers `Unsafe`; the run
lets it answer anything within the contract of the `Platform` trait, which
covers that and says what the flow makes of an adapter that can undo. On a
Windows host `read_next` never answers that `BootNext` is absent, as in
`windows/firmware.rs`.

The environment may crash the helper, restart the machine (which consumes
`BootNext`), or write `BootNext` and load options, at any time. `read_options`
is taken as a snapshot. The flow uses of the inventory what it says of single
options, and `FirmwareAccess` shows that each of these was true while the call
ran.

Four history variables state the properties: `mine` (the present `BootNext` was
put there by the running invocation), `raced` (a foreign write fell between the
creation and the write), `quiet` (no foreign write of a load option since the
options were read) and `settled` (no foreign write of `BootNext` since the
invocation last read or wrote it). They mark the windows the code leaves open:
`raced` the one in which a foreign value can be lost, `settled` and `quiet` those
in which a change goes unnoticed. `BootNext` is read again before the write and
before the reboot, so `RebootIsVerified` holds of it whatever was written up to
the readback; the load options are read once, and a change after that is seen by
no call of this invocation. `NextIsKnown` says what each step takes `BootNext`
for; it is what an object that a crash left empty (`Empty`) would break, if it
were read as an absent variable. `EvidenceHolds`, which the run checks, is the two
together.

### HelperSession

Each session is one exchange with its client and its helper. Deadlines are
steps that may be taken at any time, so no property depends on their lengths.
The kill that `stop` attempts may or may not succeed, so `Die` is a separate
step. Stdin is `none`, `part` or `full`; the helper decodes only after the end
of the stream. `Execute` stands for all of `BootFlow`.

### Exchange

The specification both session modules implement. `op` is how far the operation
of an exchange is, `executed` whether it was carried out, `told` what the window
was told. An operation runs alone from its beginning to the release of the
machine; after `notSent` it does not begin; an answer comes only when it is
over, and is a report exactly if it was carried out.

### WindowsSession

The same exchange with the differences that matter: the prompt is a step of its
own, and consent may come when the window is gone; the helper connects and
authenticates before it says hello; the client counts a request as sent by
`committed`, and an error of the clean-up replaces the result (`CleanedUp`). The
mutex is a kernel object with an owner, the handles that keep it alive, and the
session that abandoned it; `Ended` is what the end of a process does to it.
`ClientGuarded` and `HelperGuarded` say where a watchdog is armed; a watchdog
that strikes ends the process where it stands. A helper refuses an abandoned
mutex and closes its handle without releasing what it then owns, as the code
does. Who the peer is (image, session, token, access lists) is one outcome of
the step that checks it. `witness` is a history: the helpers that were already
waiting when an operation was cut off.

### Watchdog

`dog` is what the mutex of a watchdog guards. `Look` is the critical section of
the worker, `Disarm` the first of `disarm`; the hook is called outside the mutex
by the worker (`WorkerHook`) or by the owner (`Settle`). `disarm` runs once by
name and once more in `Drop`. A worker wakes when notified, at the deadline, or
for no reason. The hook may return, as in the tests, or end the process. The
client has its own copy of this code, with the same structure.

### OverlappedIo

The kernel completes a pending operation at any moment, with any of four
results, or never. The thread waits, gives up at the deadline or at an error,
asks for cancellation, joins, and takes the verdict; the two sides differ in the
verdict. `ValidTrace` is the audit that the helper's tests apply to a history,
`Decision` the policy that the client states as a pure function;
`FollowsPolicy` compares the native code with both.

### LinuxStore and AtomicRecord

The file system is the module `FileSystem`. It has a visible and a durable copy
of the directory (`dir`, `disk`) and of each file (`data`, `media`). `SyncFile`
and `SyncDir` copy one to the other, on a call of the saver or by write-back at
any time and in any order; `LosePower` leaves the durable ones.
This covers every write-back order that keeps a rename atomic. Process ids are
reused, so a temporary name can be met again. `AtomicRecord` says what
`core::execute` relies on; the mapping takes what `load` would return from the
visible copy as `value`, from the durable one as `durable`, and the control
point as `phase`. `SaveRecord` of `BootFlow` uses the three answers that
`AtomicRecord` allows.

### WindowsStore

The first save creates the record itself and fills it in place; a later one
fills a temporary file and calls `ReplaceFileW`. The two paths share their
steps, `name` says which file is being filled. A first save that fails leaves a
record that cannot be read and an ordinary error. `ReplaceFileW` may fail having
replaced the record, left it or taken it away; the code turns each into
`StoreDurabilityUnknown` and removes nothing. A failure to close a file is one
of the failures of the step before it. `Repair` is the administrator, who acts
only between operations.

The store does not implement `AtomicRecord`, which allows neither an unreadable
nor a vanished record. What it does promise is stated against `before`, the
record as the save found it. In `BootFlow`, a save on a Windows host may
therefore fail and leave `Wreckage`, an unreadable record or none.

### StoreAccess

`WindowsStore` takes the opening, checking and replacing of files as steps that
work or fail. Here each operation is a script of native calls and checks
(`Scripts`), and between any two of its steps another administrator removes an
object, puts another one in its place, gives a file a second name, or changes a
security descriptor. A held directory cannot be moved: its handle shares no
deletion. Files can. `said` is what the operation answers; after `changed`, a
failed check is `NATIVE_AMBIGUITY` or an unknown outcome and never an ordinary
error.

A security descriptor is an owner, a list of entries and the mark of protection;
`ReduceRoot` and `ReduceProtected` are the two halves of
`reduce_security_descriptor`. All checks of offsets, lengths and alignments in
the native parser are one mark of a descriptor, `garbled`; the kinds of right of
a mask are a set. The reference is `Access`, the system's own walk over the
entries in order, with what the folder above hands down to a list that is not
protected. `met` is a history of what was true of the objects since the
operation began: a check can only speak of the moment it was made, so that is
what an answer can promise.

### GuiController

A completion is any report or error the wire can carry. A candidate list says
for each identifier whether it is absent, supported, unsupported or listed
twice. A stage list is one of the four that `validate_report` tells apart or
another. A domain error is its root cause and whether it carries a stage later
than TargetValidated. `evidence` is a history of what completions have left
unresolved, computed from the completions alone; `clicked` and `agreed` are a
history of what the user did. The properties compare these with what is
submitted. `Reopen` closes the window at any moment and opens it again: threads
and channel die with the process, the new controller remembers nothing, and the
helper of a request under way goes on alone. What keeps that safe is on the
other side of the exchange: `ImplementsExchange` (one operation at a time,
whoever asked for it) and `ForeignNextSurvives` (a later Switch leaves the value
that an earlier one put into `BootNext`). That the forgotten result is shown
again is promised nowhere and not claimed here.

### PrivilegeScope and FirmwareAccess

`PrivilegeScope` is one process token and one scope after another: look up,
enable, operate, restore, close. Every call may fail; the state that
`AdjustTokenPrivileges` says was there before may be empty or unusable; the
operation may succeed, fail or unwind. `leaky` is a history: the restoration
failed, which is the one case in which the token may differ.

`FirmwareAccess` takes a Switch apart into its native calls. On Linux,
`read_options` lists the directory between two looks at its metadata, and a
variable is read between two looks at its own; on Windows a variable is read in
a privilege scope, into a buffer that grows until the variable fits. Another
tool creates, rewrites and deletes variables between any two of these calls, as
often as `MaxMeddles` allows. Lengths and limits are counted in buffers. A
content is a number nobody has written before, so that `ReadsAreGenuine` can
speak of which content was read; `had` is a history of what the firmware
contained while the call ran. The restart is asked for in a privilege scope on
Windows, over the bus on Linux, and `dispatched` says whether the system took
the request. What lies between the calls is `BootFlow`'s.

Assumed of the outside: the metadata of a variable and of the directory change
with every write, creation and deletion; an error reply of the login manager
means that nothing was set in motion; and what another tool writes within a
privilege scope commutes with the scope's calls other than the read.

### LoadOptions, Records and RecordedIdentity

`LoadOptions` works on the bytes of a variable, with the sizes of the code:
`parse_load_option`, `parse_device_path`, `canonicalize`. A loop of the code
over offsets is a recursive function on offsets. `Records` writes and
reads the stored document, with its versions, its markers and its checks; JSON
text is a tree (`Serde`), and a digest is taken as injective.
In `RecordedIdentity`, Configure reads a variable and writes a record, somebody
changes a byte of the variable or edits the record, and Switch reads both and
compares. The codec of records is a parameter with the laws of
`RecordAssumption`: the record of an entry is written and read back, and an
edited document is another form of the same record, is refused, or is read as
another record. The run puts `Records` in its place, and TLC evaluates the laws.
`IdentityIsExact` says when the switch accepts, against `Essence`, the bytes
that identify an entry, and which entries can be configured, against
`Supported`, which says it of the bytes without parsing them. The reader of records takes an
operating system's name also as `{"Linux": null}`, as serde does for every unit
variant; `Synonyms` counts that as the same record. The wire protocol refuses
that form.

### Wire and ResponseExchange

`Encode` and `Decode` go through the frame, the scan of the text and the typed
reading, and `BudgetedResponseWithId` takes the first that fits of the whole
answer, the answer cut down (`Compact`: no diagnostics, at most the recorded
candidate without its name, a bounded number of stages, nested causes replaced)
and the plain error `ResourceLimit`. `ResponseExchange` is one exchange of three
frames, one of which may be cut, lengthened, garbled, rewritten as another form
of the same document, or be that of another request. `AnswerIsFaithful` compares
what the window makes of what it hears (`ValidateReport`) with what it would have
made of the whole answer.

What writes a document, reads it, scans it and measures it are operators among
the constants of `Wire`, so that the exchange can be reasoned about for any
codec; `WireDocuments` holds the ones of this program, over the shape of every
type of the protocol, and `MCCodecs.cfg` hands them over. What the exchange needs
to know of codec and results is stated in `ResponseExchange` as assumptions,
which TLC evaluates in the run `codecs`:

* `RequestIdAssumption`: the all-zero id is no request id (`RequestId::parse`);
* `OutcomesAssumption`: `core::execute` answers an inventory that lists an option
  once (the adapters keep a set of what they have listed), a failure whose cause
  is not itself a failure of the flow, and fewer than `MAX_COMPACT_STAGES` (256)
  stages of the ten there are;
* `CodecAssumption`: what is written is read back (`ReadBack`), and a document of
  another shape, of another request or of another version is refused or read as
  what it is (`NotMisread`). This is serde's part;
* `BudgetAssumption`: hello, request, an answer cut down and a plain error fit
  the 64 KiB of `MAX_BYTES`.

## 3. Runs

| Run | Instance | Shows |
|---|---|---|
| `flow` | either host, 2 options, 2 identities, 2 invocations, 2 foreign writes, every rollback answer | `EvidenceHolds`, `ResidualIsReported`, `ForeignNextSurvives`, `MutationNeedsIdentity`, `RecordIsLiveOption`, `NoUndoAfterReboot`, `WindowsNeverWrites` |
| `sessions` | 2 exchanges, a client that may hang and a helper that may hang | `ImplementsExchange`, `HelperEnds`, `ClientReturns` |
| `linux_store` | 2 records, 2 process ids, 4 files | `RecordSurvives`, `OkIsDurable`, `ImplementsAtomicRecord` |
| `windows_store` | 2 records, 2 process ids, 4 files | `OkIsDurable`, `ReplacementPreserves`, `RecordIsKept`, `SomeCopyRemains` |
| `gui` | 2 identifiers, fair threads, windows that close | `OneOutstanding`, `UnresolvedStaysClosed`, `ConfigureNeedsConsent`, `BusyEnds` |
| `watchdog` | 2 watchdogs | `OverrunAborts`, `SilentOnceDisarmed`, `ExpiryIsEnforced`, `DisarmReturns` |
| `windows_calls` | every kind of pipe operation of either side; or the store's operations, 4 objects, 1 act of another administrator, some 200 descriptors | `OutlivesOperation`, `CompletedIsReported`, `FollowsPolicy`, `OperationEnds`, `OutcomesAreTrue` |
| `windows_sessions` | 2 exchanges, only watchdogs fair | `ImplementsExchange`, `WitnessNeverRuns`, `HelperEnds`, `ClientReturns` |
| `firmware_access` | either host, 2 options, 2 privileges, another tool's writes (2 on Linux, 1 on Windows) | `ScopeRestores`, `RebootEvidence`, `ReadsAreGenuine`, `NothingAfterLeak` |
| `codecs` | 14 variables and every byte of them edited; some 60 answers, every frame damaged | `IdentityIsExact`, `AnswerIsFaithful` |
| `windows_release` | 3 exchanges whose windows wait | `ReleasedOnEveryPath` is violated |
| `windows_delivery` | 2 exchanges | `DeliveredIsReported` is violated |

`windows_calls` and `codecs` each hold two machines that share no state: a
behaviour is one of either, and the other is at rest in it.

The last two runs show where the Windows code and the design document disagree.

* `windows_release`. The design (`windows-production-design.md:285`) has the
  mutex released exactly once on every path. A wait that answers
  `WAIT_ABANDONED` makes the waiter the owner, but `lock.rs:219` does not record
  the ownership, so the handle is closed without a release and the mutex is
  abandoned once more when that helper exits. The next helper that has been
  waiting is refused although the helper before it ended in order. The effect is
  on the safe side; it ends when the last handle is closed.
* `windows_delivery`. The design (`:349`) has every failure after complete
  delivery reported as unknown after send. The watchdog of the operation
  (`native.rs:1074`) is armed for the same 30 seconds as, and before, the
  deadline of the exchange, and its hook is `process::abort`: the window may end
  without any report.

Bounds. Two options are the target and one other; two identities are the
recorded one and another; two invocations let the second meet what the first
left behind; two foreign writes let a value change and change back. On Linux the
lock is taken without waiting, so two exchanges show all there is between a
holder and another; on Windows they are an owner and a waiter, and the third one
of `windows_release` waits behind the waiter. Four files are the record, a
leftover, the new file and one more; the file system model has no other bound.
The controller has none besides the identifiers, of which two make "another one
than confirmed" possible. Two watchdogs are those of the authentication and of
the operation; `MaxCalls` is `disarm` by name and by `Drop`. One overlapped
operation is enough because each has its own event and block and its thread
waits for it.

In `firmware_access` a deletion followed by a creation is what can hide from two
looks at the same name, so two writes suffice on Linux; one native read of
Windows is one step, and a single write can fall before or after it. Three
buffers of length are: fits at once, fits after growing, and exceeds the limit.
Long variables are tried where all options are there and listed, and one
privilege at a time is enabled or not held when the process starts.
In `windows_calls` an act that replaces an object is one act, so one act
between the check and the use of each object is what a check can miss; the
descriptors differ from the store's own in one entry, one place, the owner, the
protection or its soundness. In `codecs` one byte of a variable or one part of a
record is changed, because a change is either seen by itself or not at all; a
length counts the members and elements of a document, and the limit lies between
the short answers and the long ones.

Deadlock is checked wherever the system never stops. Exchanges, watchdogs and
pipe operations do stop, so their runs do not check it.

Fairness.

* `HelperSession`: the steps of an authorised helper and of a client that has
  started are weakly fair: they are scheduled, their calls return and their
  deadlines pass. `HungClients` and `HungHelpers` name those that may stop at
  any point; `HelperEnds` is claimed for helpers whose client hangs,
  `ClientReturns` for clients whose helper hangs. Nobody has to click or to
  answer an authorisation prompt.
* `WindowsSession`, `Watched`: only the watchdogs strike, and the few statements
  that no watchdog covers (the end of `stop` before the operation watchdog is
  armed, the change from one watchdog to the other) are executed. No call to the
  firmware, the pipe or the prompt is assumed to return. `ExpiryIsEnforced` of
  `Watchdog` is what justifies that a watchdog strikes.
* `Watchdog`: threads are scheduled while the process lives. The guarded work
  may never end.
* `OverlappedIo`: the issuing thread runs and its deadlines pass. The kernel
  need not do anything.
* `GuiController`: a worker thread ends, which `ClientReturns` justifies, and
  the event loop polls when it is woken.

In `BootFlow` and the stores, calls into the firmware and the file system are
assumed to return; the Linux code sets no deadline for them.

## 4. Proofs

The theorems hold for every value of the constants under the assumptions named
in the modules (special values differ from ordinary ones, the host is one of
the two systems, an object has attributes of the declared kind). Each inductive
invariant was first checked by TLC on the instance of its run.

`CoreProofs`. Those of `BootFlow` are not inductive: that a reboot is verified
depends on what was read at earlier control points. The invariant `IInv` adds,
for each control point, what the invocation knows by then: from `options` on
the inventory it has taken, from `original` on that the record's identity
matched the inventory, what `BootNext` is unless somebody else has written it
since (`NextIsKnown`, and `rec.id` after the readback), and that an object of its
own exists only after `create`. The host is a variable that never changes, so the
theorems hold for both systems. The action properties follow from the invariant
and one case per action.

`HelperSessionProofs`. `LockInv` ties the holder of the lock to the control
points that hold it, `RequestInv` ties a complete request to a client that has
acknowledged it, `ReplyInv` ties the answer to the exit status. Together they
are inductive and give `OneOperation`, `NotSentNeverRuns` and `AnswerIsFinal`,
and with them the refinement: taking the lock maps to `Begin`, releasing it or
the end of the helper to `End`, the return of the client to one of the `Tell`
steps, everything else but `Execute` is a stutter.

`LinuxStoreProofs`. `CleanInv` says that the file behind the record, visible or
durable, has been written back; `FileInv` that the saver's file is never the
record, and what has been written to it at each point of the save;
`ReadableInv` that a record about to be replaced can be read. With
`RecordSurvives` and `OkIsDurable` they are inductive. Without `CleanInv` the
induction fails at the directory's write-back, which can make a rename durable
at any moment. The refinement maps the rename to `Replace`, the directory sync
to `Succeed` or `Doubt`, a write-back of the directory to `Flush`, a crash to
the loss of what is not flushed; creating, writing and syncing the temporary
file, and the write-back of files, are stutters.

`GuiControllerProofs`. `ShapeInv` says where the one outstanding request is,
`EvidenceInv` that what is unresolved keeps the window at inspecting, or is
latched while an inspection is under way, `ConsentInv` that a selection is on
the list and the last click, and a confirmation belongs to it. The last two are
needed because the action properties speak of the step that submits and the
facts that close it date from completions long before.

`WindowsSessionProofs`. `MutexInv` says that the owner of the mutex, the helpers
that run and the handles of the object describe each other: who runs owns the
mutex and holds a handle, and an abandoned mutex has no owner. `RequestInv` and
`ReplyInv` are as on Linux, with `committed` in the place of the acknowledgement.
`WitnessInv` is what `WitnessNeverRuns` needs to be inductive: as long as a
helper waits that saw an operation cut off, the mutex is `Tainted`, either
abandoned or owned by a helper that was refused and has closed its handle
without releasing it. When that helper exits, the mutex is abandoned once more;
the waiter keeps its own handle, so the object does not vanish in between. This
is the behaviour that `windows_release` finds at odds with the design: the
property holds because of it. In the refinement, acquiring the mutex maps to
`Begin`, its release, a panic or the end of the owner to `End`, the end of
`stop` to one of the `Tell` steps.

`PipeIoProofs`. In `Watchdog`, `issued` is a token handed out once under the
mutex. `TokenInv` follows it to the call of the hook: either it was spent, or
exactly one of the worker and `disarm` owes the call. `StateInv` ties it to the
state and to what the first `disarm` decided, `JoinInv` says that nobody is left
to call once `disarm` has joined the worker. In `OverlappedIo`, `PointInv` ties
the control point to what the kernel can have done by then (past the join the
operation is over; `CancelIoEx` finds nothing to cancel only when it is) and to
the history logged, which is a function of the point, the reason and the answer
of `CancelIoEx`. The audit (`ValidTrace`) is then a lemma about histories
(`AcceptedHistory`), applied to each way out. In `ResponseExchange`,
`ExchangeInv` follows the frame under way: by `RequestInv` it is the window's
own request, or that with one change; by `ResponseInv` it is an answer to what
the window asked, whole or cut down, for this exchange or, the request having
been changed, for another, or that with one change. What the reader makes of it
then follows from the assumptions, one kind of change at a time (`RequestIsRead`,
`ResponseIsHeard`): the helper runs nothing but what was asked, and the window
hears the answer or nothing. That a cut answer is worth as much as the whole is a fact about
`Compact` (`EvidenceKept`): `ValidateReport` counts the candidates that the
record names, so leaving out all others, and of an inventory without duplicates
no second one, changes no verdict.

`WindowsStoreProofs`. For `WindowsStore`, `FileInv` says where the saver's file
is and what has been written to it, `WholeInv` that a safe record is whole in
memory and on the medium, for which `DataInv` is needed: a write-back never tears
what a power loss would have spared. `KeepInv` says that what was there stays
until it is replaced, and that only a save that found no record fills the record
in place.

For `StoreAccess`, each passed step of an operation has established a fact of
the object its handle held: that it was in its place, of its kind, or guarded
(`Established`). The history `met` only grows, so the fact stays; but it is a
fact of what the handle holds now only as long as the name has not been opened
again (`Lasts`). `MetInv` says this for every step passed, whatever the other
administrator did in between, and is inductive for any script; `HeldInv` adds
that the directory, once held, keeps its place, and `ChangeInv` that a change of
the directory is the work of a step that has passed, or the outcome is called
open. What remains is to read off the five scripts that the last opening of the
name is followed by both checks (`Ensured`), and that a descriptor the store
accepts denies users and grants the administrators by the rule of the system,
whatever `ProgramData` hands down (`AcceptedIsGuarded`, for every list of
entries). The proof assumes of an object only that its attributes are of the
declared kind (`AttributesAssumption`).

`FirmwareAccessProofs`. `ScopeInv` says that while a scope is open, replaying
what it remembers gives the token the process started with (`Undoable`), that
exactly one handle is open from the acquisition to the close, and that at the
close the token is as it was or the scope is bound to report that it is not.
With it, `ScopeRestores` holds after any number of scopes over any set of
privileges. For the calls around the scope, `ControlInv` gives the points a call
can be at, and `PowerInv` relates the answer to a request to restart to what was
dispatched, and a leak to the end of the call: the scope that leaked has ended
and its answer is no longer `ok` (`LeakedWhere`), so the call fails, or reports
the restart as unknown or rejected (`LeakedCall`). With it, `NothingAfterLeak`
says all that can follow: no restart, none reported as accepted, and no other
scope than that of the observation after a rejection. That a read is genuine rests on
what two equal observations exclude: by `ReadInv` (`Snapshot`), metadata that are
at the end of a read what they were at its beginning mean that every part of it
came from one content; by `StampInv`, a directory that still has the stamp seen
before the walk has neither lost nor gained a name since. `WalkInv` says that the
options read so far and those still to be read share out the list the walk goes
by. `ReadsAreGenuine` follows for any set of options and any number of foreign
changes. It speaks of each variable by itself: contents of two options may have
been read at different moments, and on Windows so may their presence; neither
adapter compares the inventory with a second one.

For `RecordedIdentity`, the work is in what the parsers compute. Each is a
recursive function on the offsets of a byte string, and nothing is known of such
a function until it is shown to exist: `Recursion` extends a solution from the
end of the bytes, one offset at a time, for any step whose value depends on
greater offsets only; both it and `BackwardInduction`, by which something is
shown of every offset, rest on the least element of a set of numbers, which the
library's well-founded induction gives without a predicate as parameter. So each
parser is what its body says (`DescriptionUnrolls`, `LengthUnrolls`,
`InstancesUnroll`, `PathsUnroll`). From there: the description ends at the first
zero unit (`DescriptionExact`); a list read as one path of three nodes has a
drive of 42 bytes, a file and an end, one after the other, and nothing else
(`ThreeNodesRead`), and every such list is read so (`ThreeNodesParsed`);
`canonicalize` takes exactly the lists that name a file on a GPT partition
(`ListTaken`), and so an entry has an identity exactly if it is `Supported`
(`Identified`). That nothing is lost on the way is shown by rebuilding the list
from its three nodes (`ListOfNodes`), with which identities are equal exactly if
essences are (`IdentityIsEssence`). The invariant `IdentityInv` then says only
which document was written, that the variable or the document was changed and
not both, and that the switch compared what it says; the rest is
`RecordAssumption`.

Only model-checked:

* all liveness properties (`HelperEnds`, `ClientReturns`, `BusyEnds`,
  `ExpiryIsEnforced`, `DisarmReturns`, `OperationEnds`), which are outside this
  prover;
* what `ResponseExchange` and `RecordedIdentity` assume of their codecs: that the
  documents of `WireDocuments` and `Records` have these laws is evaluated by TLC,
  for the results and records of the run. `Serde` defines their documents by
  recursion over trees (with recursive operators, out of the prover's reach).

## 5. What is not modelled

* Rendering, texts and callback wiring of the window. Its only control, one poll
  for each wake-up, is the fairness of `GuiController`.
* The display cache: what it shows authorises nothing, every Switch loads and
  validates the protected record again.
* The static audit tool, the evidence collector and the installers: they take no
  part in the running program. What the installers create is the initial state
  of the stores.
* Who the peer of a Windows pipe is (image path, session, token, access list of
  the pipe): one outcome of the step that checks it, in `WindowsSession`.
* JSON text below its trees, UTF-16 and UTF-8 text of names and messages,
  `SHA-256` (an injective function), the formatting of errors.
* The native write of `BootNext` on Windows: the flow fails closed before it
  (`WindowsNeverWrites`).
* Several windows over time are not composed with the flow in one module:
  `Exchange` says what one window can rely on whatever the others do, and both
  session modules implement it for any number of exchanges.
