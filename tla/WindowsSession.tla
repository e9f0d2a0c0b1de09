---------------------------- MODULE WindowsSession ----------------------------
(***************************************************************************)
(* One-shot exchanges on Windows: the client (WindowsClient over its       *)
(* native boundary), the helper that ShellExecuteExW elevates for it       *)
(* (run and serve_windows), the named pipe between the two, and the named  *)
(* mutex all helpers of a machine share.                                   *)
(*                                                                         *)
(* The mutex is a kernel object: it lives while some process has a handle  *)
(* of it, belongs to the thread that waited for it, and when a process     *)
(* ends that owns it the next wait succeeds with WAIT_ABANDONED and owns   *)
(* it in turn.                                                             *)
(*                                                                         *)
(* Both processes are watched: a deadline that passes while a watchdog is  *)
(* armed ends the process (Watchdog).  Deadlines are steps that may be     *)
(* taken at any time, and what an operation does is the step Execute.      *)
(***************************************************************************)
EXTENDS Naturals

CONSTANTS
  Sessions,   \* exchanges
  None        \* nobody

ASSUME NoneAssumption == None \notin Sessions

\* launch: inside ShellExecuteExW; connect: waiting for the helper to open the
\* pipe; stop: run_exchange has returned and the handles are being closed;
\* aborted: the process of the window was ended by its own watchdog.
ClientPCs == {"idle", "launch", "connect", "hello", "send", "await", "stop",
              "done", "aborted"}

Outcomes == {"none", "cancelled", "beforeSend", "unknownAfterSend", "answer"}

\* The results that tell the user nothing was asked for.
NotSent == {"cancelled", "beforeSend"}

\* prompt: the elevation prompt is open; start: connecting and authenticating;
\* rearm: between the two watchdogs; then serve_windows and the clean-up.
HelperPCs == {"absent", "prompt", "start", "rearm", "hello", "receive",
              "create", "wait", "run", "respond", "release", "close", "exit",
              "gone"}

\* failed: run returned an error or panicked; aborted: the process was ended
\* where it stood.
Statuses == {"none", "ok", "failed", "aborted"}

\* refused: an error from before the operation.
Responses == {"none", "refused", "report"}

VARIABLES
  client,     \* [Sessions -> ClientPCs]
  outcome,    \* [Sessions -> Outcomes]: what the client returns
  decoded,    \* [Sessions -> Responses]: what an answer contained
  committed,  \* sessions whose request was written in full
  watched,    \* sessions whose client has armed the operation watchdog
  helper,     \* [Sessions -> HelperPCs]
  status,     \* [Sessions -> Statuses]
  reply,      \* [Sessions -> Responses]: response the helper holds or sent
  executed,   \* sessions whose operation ran
  connected,  \* sessions whose helper has opened the pipe
  greeted,    \* sessions whose hello is in the pipe
  request,    \* [Sessions -> {"none", "part", "full"}]: request in the pipe
  sent,       \* sessions whose complete response is in the pipe
  ends,       \* sessions whose client end of the pipe is closed
  mutex,      \* the named mutex
  witness     \* history: waiting when an operation was cut off

clientVars == <<client, outcome, decoded, committed, watched>>
helperVars == <<helper, status, reply, executed>>
pipeVars   == <<connected, greeted, request, sent, ends>>
mutexVars  == <<mutex, witness>>
vars       == <<clientVars, helperVars, pipeVars, mutexVars>>

\* abandoned: the session whose process ended owning it.
Mutexes == [owner : Sessions \cup {None}, abandoned : Sessions \cup {None},
            handles : SUBSET Sessions]

NoMutex == [owner |-> None, abandoned |-> None, handles |-> {}]

Init ==
  /\ client = [s \in Sessions |-> "idle"]
  /\ outcome = [s \in Sessions |-> "none"]
  /\ decoded = [s \in Sessions |-> "none"]
  /\ helper = [s \in Sessions |-> "absent"]
  /\ status = [s \in Sessions |-> "none"]
  /\ reply = [s \in Sessions |-> "none"]
  /\ request = [s \in Sessions |-> "none"]
  /\ committed = {} /\ watched = {} /\ executed = {} /\ connected = {}
  /\ greeted = {} /\ sent = {} /\ ends = {}
  /\ mutex = NoMutex /\ witness = {}

(***************************************************************************)
(* The mutex.                                                              *)
(***************************************************************************)

\* The last handle takes the object with it, whoever owns it.
Handles(m, hs) == IF hs = {} THEN NoMutex ELSE [m EXCEPT !.handles = hs]

Opened(m, s) == Handles(m, m.handles \cup {s})
Closed(m, s) == Handles(m, m.handles \ {s})
Owned(m, s)  == [m EXCEPT !.owner = s, !.abandoned = None]
Released(m)  == [m EXCEPT !.owner = None]

\* The process of s ends.
Ended(m, s) ==
  Closed(IF m.owner = s THEN [m EXCEPT !.owner = None, !.abandoned = s] ELSE m, s)

(***************************************************************************)
(* The client.                                                             *)
(***************************************************************************)

ClientTo(s, pc) == client' = [client EXCEPT ![s] = pc]

\* run_exchange returns.
Return(s, o, r) ==
  /\ ClientTo(s, "stop")
  /\ outcome' = [outcome EXCEPT ![s] = o]
  /\ decoded' = [decoded EXCEPT ![s] = r]
  /\ UNCHANGED <<committed, watched>>

ClientOnly(s, from, pc) ==
  /\ client[s] = from /\ ClientTo(s, pc)
  /\ UNCHANGED <<outcome, decoded, committed>>

\* start_inner up to ShellExecuteExW, which asks the user.
Launch(s) ==
  /\ ClientOnly(s, "idle", "launch") /\ UNCHANGED watched
  /\ helper' = [helper EXCEPT ![s] = "prompt"]
  /\ UNCHANGED <<status, reply, executed, pipeVars, mutexVars>>

\* The installed helper, the identity of the user or the pipe fails before it.
LaunchFails(s) ==
  /\ client[s] = "idle" /\ Return(s, "beforeSend", "none")
  /\ UNCHANGED <<helperVars, pipeVars, mutexVars>>

\* The user consents: the helper starts, even if the window is gone by now.
Consent(s) ==
  /\ helper[s] = "prompt"
  /\ helper' = [helper EXCEPT ![s] = "start"]
  /\ IF client[s] = "launch" THEN ClientTo(s, "connect") ELSE UNCHANGED client
  /\ UNCHANGED <<outcome, decoded, committed, watched, status, reply, executed,
                 pipeVars, mutexVars>>

\* The prompt is cancelled, or the launch fails.
Refuse(s) ==
  /\ helper[s] = "prompt"
  /\ helper' = [helper EXCEPT ![s] = "absent"]
  /\ IF client[s] = "launch"
     THEN \E o \in NotSent : Return(s, o, "none")
     ELSE UNCHANGED clientVars
  /\ UNCHANGED <<status, reply, executed, pipeVars, mutexVars>>

\* The helper has opened the pipe and is the process that was launched.
Accept(s) ==
  /\ ClientOnly(s, "connect", "hello") /\ s \in connected
  /\ watched' = watched \cup {s}
  /\ UNCHANGED <<helperVars, pipeVars, mutexVars>>

AcceptFails(s) ==
  /\ client[s] = "connect" /\ Return(s, "beforeSend", "none")
  /\ UNCHANGED <<helperVars, pipeVars, mutexVars>>

SeeHello(s) ==
  /\ ClientOnly(s, "hello", "send") /\ s \in greeted /\ UNCHANGED watched
  /\ UNCHANGED <<helperVars, pipeVars, mutexVars>>

\* The exit of the helper, a transport or authentication error, the deadline.
GiveUpHello(s) ==
  /\ client[s] = "hello" /\ Return(s, "beforeSend", "none")
  /\ UNCHANGED <<helperVars, pipeVars, mutexVars>>

\* The write completes, perhaps while it is being cancelled (OverlappedIo).
Send(s) ==
  /\ client[s] = "send" /\ helper[s] \notin {"exit", "gone"}
  /\ ClientTo(s, "await") /\ committed' = committed \cup {s}
  /\ request' = [request EXCEPT ![s] = "full"]
  /\ UNCHANGED <<outcome, decoded, watched, helperVars, connected, greeted,
                 sent, ends, mutexVars>>

SendFails(s) ==
  /\ client[s] = "send" /\ Return(s, "beforeSend", "none")
  /\ \E d \in {"none", "part"} : request' = [request EXCEPT ![s] = d]
  /\ UNCHANGED <<helperVars, connected, greeted, sent, ends, mutexVars>>

\* The pipe is closed, the helper has exited with zero, and the response
\* decodes for this request.
SeeAnswer(s) ==
  /\ client[s] = "await" /\ status[s] = "ok" /\ Return(s, "answer", reply[s])
  /\ UNCHANGED <<helperVars, pipeVars, mutexVars>>

\* Any other exit, a transport or authentication error, the deadline.
GiveUpAnswer(s) ==
  /\ client[s] = "await" /\ Return(s, "unknownAfterSend", "none")
  /\ UNCHANGED <<helperVars, pipeVars, mutexVars>>

\* Fault: the clean-up error is reported without regard to the request.
CleanedUpBlindly(s, o) == IF o = "cancelled" THEN o ELSE "beforeSend"

\* What an error of the clean-up makes of the result.
CleanedUp(s, o) ==
  IF s \in committed THEN "unknownAfterSend"
  ELSE IF o = "cancelled" THEN o ELSE "beforeSend"

\* stop closes the pipe and the handles of the helper, and disarms.
Stop(s) ==
  /\ client[s] = "stop" /\ ClientTo(s, "done")
  /\ outcome' \in {outcome, [outcome EXCEPT ![s] = CleanedUp(s, @)]}
  /\ ends' = ends \cup {s}
  /\ UNCHANGED <<decoded, committed, watched, helperVars, connected, greeted,
                 request, sent, mutexVars>>

Client(s) ==
  \/ LaunchFails(s) \/ Accept(s) \/ AcceptFails(s) \/ SeeHello(s)
  \/ GiveUpHello(s) \/ Send(s) \/ SendFails(s) \/ SeeAnswer(s)
  \/ GiveUpAnswer(s) \/ Stop(s)

\* Fault: the start of the helper is not watched.
ClientGuardedLate(s) ==
  client[s] \in {"hello", "send", "await"} \/ (client[s] = "stop" /\ s \in watched)

\* Where a watchdog of the client is armed: around the start of the helper, and
\* from there to the end of stop.
ClientGuarded(s) ==
  \/ client[s] \in {"launch", "connect", "hello", "send", "await"}
  \/ client[s] = "stop" /\ s \in watched

\* A watchdog of the client ends the window.
ClientOverrun(s) ==
  /\ ClientGuarded(s) /\ ClientTo(s, "aborted")
  /\ outcome' = [outcome EXCEPT ![s] = "none"]
  /\ decoded' = [decoded EXCEPT ![s] = "none"]
  /\ ends' = ends \cup {s}
  /\ UNCHANGED <<committed, watched, helperVars, connected, greeted, request,
                 sent, mutexVars>>

(***************************************************************************)
(* The helper.                                                             *)
(***************************************************************************)

HelperTo(s, from, pc) == helper[s] = from /\ helper' = [helper EXCEPT ![s] = pc]

\* The guard of the operation is alive.
Guarded(s) == mutex.owner = s /\ s \in mutex.handles

\* From the construction of the platform to the end of the one response.
InOperation(s) == helper[s] \in {"run", "respond"} /\ Guarded(s)

\* The process ends with what it holds.
Gone(s, code, m) ==
  /\ helper' = [helper EXCEPT ![s] = "gone"]
  /\ status' = [status EXCEPT ![s] = code]
  /\ mutex' = Ended(m, s)

\* The process ends where it stands.
Killed(s) ==
  /\ Gone(s, "aborted", mutex)
  /\ witness' = IF InOperation(s)
                THEN witness \cup {t \in Sessions : helper[t] = "wait"} ELSE witness
  /\ UNCHANGED <<clientVars, reply, executed, pipeVars>>

\* The pipe is there, and the process at its other end is the window, with the
\* image, the session and the token it should have.
Connect(s) ==
  /\ HelperTo(s, "start", "rearm") /\ s \notin ends
  /\ connected' = connected \cup {s}
  /\ UNCHANGED <<clientVars, status, reply, executed, greeted, request, sent,
                 ends, mutexVars>>

ConnectFails(s) ==
  /\ helper[s] = "start" /\ Gone(s, "failed", mutex)
  /\ UNCHANGED <<clientVars, reply, executed, pipeVars, witness>>

\* The watchdog of the authentication is disarmed, that of the operation armed.
Rearm(s) ==
  /\ HelperTo(s, "rearm", "hello")
  /\ UNCHANGED <<clientVars, status, reply, executed, pipeVars, mutexVars>>

\* The same window is still at the other end.
PeerThere(s) == s \notin ends

Greet(s) ==
  /\ HelperTo(s, "hello", "receive") /\ PeerThere(s)
  /\ greeted' = greeted \cup {s}
  /\ UNCHANGED <<clientVars, status, reply, executed, connected, request, sent,
                 ends, mutexVars>>

GreetFails(s) ==
  /\ HelperTo(s, "hello", "close")
  /\ UNCHANGED <<clientVars, status, reply, executed, pipeVars, mutexVars>>

\* The frame is complete, nothing follows it, and it carries the request id of
\* the command line; PeekNamedPipe fails on a closed pipe.
Receive(s) ==
  /\ HelperTo(s, "receive", "create") /\ request[s] = "full" /\ PeerThere(s)
  /\ UNCHANGED <<clientVars, status, reply, executed, pipeVars, mutexVars>>

ReceiveFails(s) ==
  /\ HelperTo(s, "receive", "close")
  /\ UNCHANGED <<clientVars, status, reply, executed, pipeVars, mutexVars>>

\* The handle of the mutex.
Create(s) ==
  /\ HelperTo(s, "create", "wait") /\ mutex' = Opened(mutex, s)
  /\ UNCHANGED <<clientVars, status, reply, executed, pipeVars, witness>>

Refusing(s, from) ==
  /\ HelperTo(s, from, "respond") /\ reply' = [reply EXCEPT ![s] = "refused"]
  /\ UNCHANGED <<clientVars, status, executed, pipeVars, witness>>

\* The object cannot be created, or an existing one has a foreign access list.
CreateFails(s) == Refusing(s, "create") /\ UNCHANGED mutex

\* WAIT_OBJECT_0
Acquire(s) ==
  /\ HelperTo(s, "wait", "run")
  /\ mutex.owner = None /\ mutex.abandoned = None
  /\ mutex' = Owned(mutex, s)
  /\ UNCHANGED <<clientVars, status, reply, executed, pipeVars, witness>>

\* Fault: an abandoned mutex is as good as a free one.
AcquireAbandonedAnyway(s) ==
  /\ HelperTo(s, "wait", "run") /\ mutex.abandoned # None
  /\ mutex' = Owned(mutex, s)
  /\ UNCHANGED <<clientVars, status, reply, executed, pipeVars, witness>>

\* WAIT_ABANDONED: the helper owns the mutex and closes its handle unreleased.
AcquireAbandoned(s) ==
  /\ mutex.abandoned # None
  /\ Refusing(s, "wait") /\ mutex' = Closed(Owned(mutex, s), s)

\* WAIT_TIMEOUT, which is Busy, or a wait that fails.
WaitFails(s) == Refusing(s, "wait") /\ mutex' = Closed(mutex, s)

\* The platform cannot be constructed.
ConstructFails(s) == Refusing(s, "run") /\ UNCHANGED mutex

\* run_windows
Execute(s) ==
  /\ HelperTo(s, "run", "respond")
  /\ executed' = executed \cup {s}
  /\ reply' = [reply EXCEPT ![s] = "report"]
  /\ UNCHANGED <<clientVars, status, pipeVars, mutexVars>>

\* The one response is written, if the same window is still there.
Respond(s) ==
  /\ HelperTo(s, "respond", IF Guarded(s) THEN "release" ELSE "close")
  /\ \/ PeerThere(s) /\ sent' = sent \cup {s}
     \/ UNCHANGED sent
  /\ UNCHANGED <<clientVars, status, reply, executed, connected, greeted,
                 request, ends, mutexVars>>

\* guard.finish; ReleaseMutex does not fail for the thread that owns it.
Release(s) ==
  /\ HelperTo(s, "release", "close")
  /\ mutex' = Closed(Released(mutex), s)
  /\ UNCHANGED <<clientVars, status, reply, executed, pipeVars, witness>>

\* The lease on the window is released and the pipe closed.
Close(s) ==
  /\ HelperTo(s, "close", "exit")
  /\ UNCHANGED <<clientVars, status, reply, executed, pipeVars, mutexVars>>

\* The watchdog is disarmed and main exits, with zero only if all was well.
Exit(s) ==
  /\ helper[s] = "exit"
  /\ \E code \in {"ok", "failed"} :
       /\ code = "ok" => s \in sent
       /\ Gone(s, code, mutex)
  /\ UNCHANGED <<clientVars, reply, executed, pipeVars, witness>>

\* A panic of the operation unwinds and drops the guard, which releases.
Panic(s) ==
  /\ InOperation(s) /\ Gone(s, "failed", Released(mutex))
  /\ UNCHANGED <<clientVars, reply, executed, pipeVars, witness>>

\* A transfer that is pending when the window closes the pipe ends the process
\* (OverlappedIo).
Barrier(s) ==
  /\ helper[s] \in {"hello", "receive", "respond"} /\ s \in ends /\ Killed(s)

\* Fault: the watchdog of the operation is disarmed when dispatch returns.
HelperGuardedEarly(s) ==
  helper[s] \in {"start", "hello", "receive", "create", "wait", "run",
                 "respond", "release"}

\* Where a watchdog of the helper is armed.
HelperGuarded(s) == helper[s] \notin {"absent", "prompt", "rearm", "gone"}

HelperOverrun(s) == HelperGuarded(s) /\ Killed(s)

\* A signal from outside.
Die(s) == helper[s] \notin {"absent", "prompt", "gone"} /\ Killed(s)

Serve(s) ==
  \/ Connect(s) \/ ConnectFails(s) \/ Rearm(s) \/ Greet(s) \/ GreetFails(s)
  \/ Receive(s) \/ ReceiveFails(s) \/ Create(s) \/ CreateFails(s)
  \/ Acquire(s) \/ AcquireAbandoned(s) \/ WaitFails(s) \/ ConstructFails(s)
  \/ Execute(s) \/ Respond(s) \/ Release(s) \/ Close(s) \/ Exit(s)

Next ==
  \E s \in Sessions :
    \/ Launch(s) \/ Consent(s) \/ Refuse(s) \/ Client(s) \/ ClientOverrun(s)
    \/ Serve(s) \/ Panic(s) \/ Barrier(s) \/ HelperOverrun(s) \/ Die(s)

Spec == Init /\ [][Next]_vars

\* Deadlines pass, and the few statements no watchdog covers are executed.
\* Nothing else is assumed to end: no call to the firmware, to the pipe or to
\* the prompt.
Watched ==
  /\ Spec
  /\ \A s \in Sessions :
       /\ WF_vars(ClientOverrun(s)) /\ WF_vars(Stop(s))
       /\ WF_vars(HelperOverrun(s)) /\ WF_vars(Rearm(s))

(***************************************************************************)
(* Properties.                                                             *)
(***************************************************************************)

\* Type invariant.
TypeOK ==
  /\ client \in [Sessions -> ClientPCs]
  /\ outcome \in [Sessions -> Outcomes]
  /\ decoded \in [Sessions -> Responses]
  /\ helper \in [Sessions -> HelperPCs]
  /\ status \in [Sessions -> Statuses]
  /\ reply \in [Sessions -> Responses]
  /\ request \in [Sessions -> {"none", "part", "full"}]
  /\ committed \subseteq Sessions /\ watched \subseteq Sessions
  /\ executed \subseteq Sessions /\ connected \subseteq Sessions
  /\ greeted \subseteq Sessions /\ sent \subseteq Sessions
  /\ ends \subseteq Sessions /\ witness \subseteq Sessions
  /\ mutex \in Mutexes

\* How far the operation of an exchange is.
Phase(s) ==
  IF helper[s] \in {"absent", "prompt", "start", "rearm", "hello", "receive",
                    "create", "wait"} THEN "pending"
  ELSE IF \/ helper[s] = "run"
          \/ helper[s] \in {"respond", "release"} /\ reply[s] = "report"
  THEN "running" ELSE "over"

\* What its window has been told: nothing until its boundary is cleaned up.
Told(s) ==
  IF client[s] # "done" THEN "none"
  ELSE IF outcome[s] \in NotSent THEN "notSent"
  ELSE IF outcome[s] = "answer" THEN decoded[s] ELSE outcome[s]

\* What the window and the machine are promised of overlapping exchanges.
Exchanges == INSTANCE Exchange WITH
  op <- [s \in Sessions |-> Phase(s)], told <- [s \in Sessions |-> Told(s)]

\* The exchanges exclude each other, what is reported as not sent never runs,
\* late consent and clean-up errors included, and an answer is final and true,
\* whatever ends the processes (windows-production-design.md: the helper holds
\* the mutex through terminal response transmission; helper_client.rs:
\* BeforeSend).
ImplementsExchange == Exchanges!Spec

\* A helper that was already waiting when an operation was cut off does not run
\* over what it left (windows.rs: abandonment is always treated as a fail-closed
\* platform error).
WitnessNeverRuns == witness \cap executed = {}

\* An operation that was cut off is the only thing that leaves the mutex
\* abandoned: a helper that ends on a path of its own has released it
\* (windows-production-design.md: released exactly once on every
\* normal/error/unwind path).
ReleasedOnEveryPath == mutex.abandoned # None => status[mutex.abandoned] = "aborted"

\* After complete delivery the client reports an answer or an unknown outcome
\* (windows-production-design.md: timeout maps to unknown-after-send).
DeliveredIsReported == \A s \in committed : client[s] # "aborted"

\* An elevated helper ends, whichever of its calls never returns, and leaves
\* the mutex to others.
HelperEnds ==
  \A s \in Sessions : helper[s] = "start" ~> helper[s] = "gone" /\ mutex.owner # s

\* The window is never stuck in an exchange: it has a result, or it is over.
ClientReturns ==
  \A s \in Sessions : client[s] = "launch" ~> client[s] \in {"done", "aborted"}

=============================================================================
