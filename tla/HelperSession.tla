---------------------------- MODULE HelperSession ----------------------------
(***************************************************************************)
(* One-shot exchanges between an unprivileged client (run_exchange over    *)
(* SystemProcess) and the pkexec-launched helper it spawns (serve over     *)
(* PipeSession), and the operation lock all helpers of a machine share.    *)
(*                                                                         *)
(* Every exchange has a client and a helper process of its own; exchanges  *)
(* overlap freely, because a client that gives up leaves its helper        *)
(* running and because several clients may exist.  What an operation does  *)
(* to the firmware is BootFlow; here it is the step Execute.               *)
(*                                                                         *)
(* Deadlines are steps that may be taken at any time: nothing below relies *)
(* on which of two deadlines is the shorter.                               *)
(***************************************************************************)
EXTENDS Naturals

CONSTANTS
  Sessions,      \* exchanges
  HungClients,   \* exchanges whose client may stop running at any point
  HungHelpers,   \* exchanges whose helper may stop running at any point
  None           \* the lock is free

ASSUME NoneAssumption == None \notin Sessions
ASSUME HungAssumption == HungClients \subseteq Sessions /\ HungHelpers \subseteq Sessions

\* Where a client is: idle, waiting for the hello, about to send, waiting for
\* the exit of the helper, finished.
ClientPCs == {"idle", "hello", "send", "await", "done"}

\* What run_exchange returned.
Outcomes == {"none", "cancelled", "launchFailed", "beforeSend",
             "unknownAfterSend", "answer"}

\* The ClientError classes that tell the user nothing was asked for.
NotSent == {"cancelled", "launchFailed", "beforeSend"}

\* Where a helper is: not started, pkexec authorising, then serve.
HelperPCs == {"absent", "auth", "hello", "receive", "acquire", "run",
              "respond", "release", "exit", "gone"}

\* Exit status of the helper process; "other" is any other non-zero status or
\* a signal.
Statuses == {"none", "ok", "126", "127", "other"}

\* What the helper writes as its response: nothing complete, a Busy or store
\* error from before the operation, or the report or error of the operation.
Responses == {"none", "refused", "report"}

VARIABLES
  client,     \* [Sessions -> ClientPCs]
  outcome,    \* [Sessions -> Outcomes]
  decoded,    \* [Sessions -> Responses]: what an answer contained
  helper,     \* [Sessions -> HelperPCs]
  status,     \* [Sessions -> Statuses]
  request,    \* [Sessions -> {"none", "part", "full"}]: bytes in stdin
  ends,       \* sessions whose stdin has been closed by the client
  greeted,    \* sessions whose hello is in stdout
  reply,      \* [Sessions -> Responses]: response the helper holds or sent
  sent,       \* sessions whose complete response is in stdout
  executed,   \* sessions whose operation ran
  lock        \* holder of the operation lock

clientVars == <<client, outcome, decoded>>
helperVars == <<helper, status, reply, executed>>
pipeVars   == <<request, ends, greeted, sent>>
vars       == <<clientVars, helperVars, pipeVars, lock>>

Init ==
  /\ client = [s \in Sessions |-> "idle"]
  /\ outcome = [s \in Sessions |-> "none"]
  /\ decoded = [s \in Sessions |-> "none"]
  /\ helper = [s \in Sessions |-> "absent"]
  /\ status = [s \in Sessions |-> "none"]
  /\ request = [s \in Sessions |-> "none"]
  /\ reply = [s \in Sessions |-> "none"]
  /\ ends = {} /\ greeted = {} /\ sent = {} /\ executed = {}
  /\ lock = None

(***************************************************************************)
(* The client.                                                             *)
(***************************************************************************)

\* run_exchange returns and HelperClient::run stops the boundary, which
\* closes the pipes.  The kill it tries may be refused once the helper is
\* root, so the death of the helper is a step of its own.
Return(s, o, r) ==
  /\ client' = [client EXCEPT ![s] = "done"]
  /\ outcome' = [outcome EXCEPT ![s] = o]
  /\ decoded' = [decoded EXCEPT ![s] = r]
  /\ ends' = ends \cup {s}

\* boundary.spawn
Spawn(s) ==
  /\ client[s] = "idle"
  /\ client' = [client EXCEPT ![s] = "hello"]
  /\ helper' = [helper EXCEPT ![s] = "auth"]
  /\ UNCHANGED <<outcome, decoded, status, reply, executed, pipeVars, lock>>

SpawnFails(s) ==
  /\ client[s] = "idle"
  /\ Return(s, "beforeSend", "none")
  /\ UNCHANGED <<helperVars, request, greeted, sent, lock>>

\* The hello arrives and decodes.
SeeHello(s) ==
  /\ client[s] = "hello" /\ s \in greeted
  /\ client' = [client EXCEPT ![s] = "send"]
  /\ UNCHANGED <<outcome, decoded, helperVars, pipeVars, lock>>

\* How an exit before the hello is classified.
EarlyOutcome(code) ==
  IF code = "126" THEN "cancelled"
  ELSE IF code = "127" THEN "launchFailed" ELSE "beforeSend"

\* The process exits without a hello; both streams are drained before an exit
\* is reported.
SeeEarlyExit(s) ==
  /\ client[s] = "hello" /\ s \notin greeted
  /\ status[s] # "none"
  /\ Return(s, EarlyOutcome(status[s]), "none")
  /\ UNCHANGED <<helperVars, request, greeted, sent, lock>>

\* The hello deadline, or a transport error before the hello.
GiveUpHello(s) ==
  /\ client[s] = "hello"
  /\ Return(s, "beforeSend", "none")
  /\ UNCHANGED <<helperVars, request, greeted, sent, lock>>

\* boundary.send wrote the whole frame and closed stdin.
Send(s) ==
  /\ client[s] = "send" /\ helper[s] # "gone"
  /\ request' = [request EXCEPT ![s] = "full"]
  /\ ends' = ends \cup {s}
  /\ client' = [client EXCEPT ![s] = "await"]
  /\ UNCHANGED <<outcome, decoded, helperVars, greeted, sent, lock>>

\* boundary.send failed: at most a proper prefix was written, and stdin is
\* closed with it.
SendFails(s) ==
  /\ client[s] = "send"
  /\ \E d \in {"none", "part"} : request' = [request EXCEPT ![s] = d]
  /\ Return(s, "beforeSend", "none")
  /\ UNCHANGED <<helperVars, greeted, sent, lock>>

\* Event::Exit(0) with a response that decodes for this request.
SeeAnswer(s) ==
  /\ client[s] = "await" /\ status[s] = "ok" /\ s \in sent
  /\ Return(s, "answer", reply[s])
  /\ UNCHANGED <<helperVars, request, greeted, sent, lock>>

\* Any other exit after the request was sent.
SeeFailedExit(s) ==
  /\ client[s] = "await" /\ status[s] # "none"
  /\ status[s] # "ok" \/ s \notin sent
  /\ Return(s, "unknownAfterSend", "none")
  /\ UNCHANGED <<helperVars, request, greeted, sent, lock>>

\* Fault: the wait for the exit has no deadline of its own.
GiveUpAnswerNever(s) == SeeFailedExit(s)

\* The operation deadline, or a transport error after the request was sent.
GiveUpAnswer(s) ==
  /\ client[s] = "await"
  /\ Return(s, "unknownAfterSend", "none")
  /\ UNCHANGED <<helperVars, request, greeted, sent, lock>>

Client(s) ==
  \/ SeeHello(s) \/ SeeEarlyExit(s) \/ GiveUpHello(s) \/ Send(s)
  \/ SendFails(s) \/ SeeAnswer(s) \/ SeeFailedExit(s) \/ GiveUpAnswer(s)

(***************************************************************************)
(* The helper.                                                             *)
(***************************************************************************)

\* The process is over; its descriptors close, and with them the lock.
Gone(s, code) ==
  /\ helper' = [helper EXCEPT ![s] = "gone"]
  /\ status' = [status EXCEPT ![s] = code]
  /\ lock' = IF lock = s THEN None ELSE lock

\* pkexec authorises and becomes the helper, or exits.
Authorize(s) ==
  /\ helper[s] = "auth"
  /\ helper' = [helper EXCEPT ![s] = "hello"]
  /\ UNCHANGED <<clientVars, status, reply, executed, pipeVars, lock>>

AuthorizeFails(s) ==
  /\ helper[s] = "auth"
  /\ \E code \in {"126", "127", "other"} : Gone(s, code)
  /\ UNCHANGED <<clientVars, reply, executed, pipeVars>>

\* serve sends the hello; it fails on a closed pipe or at the deadline.
Greet(s) ==
  /\ helper[s] = "hello" /\ client[s] # "done"
  /\ greeted' = greeted \cup {s}
  /\ helper' = [helper EXCEPT ![s] = "receive"]
  /\ UNCHANGED <<clientVars, status, reply, executed, request, ends, sent, lock>>

GreetFails(s) ==
  /\ helper[s] = "hello"
  /\ Gone(s, "other")
  /\ UNCHANGED <<clientVars, reply, executed, pipeVars>>

\* Fault: any input before the end of the stream is taken for a request.
DecodesPrefix(input) == input # "none"

\* Which input decodes as a request.
Decodes(input) == input = "full"

\* io.receive reads to the end of stdin; only a complete frame decodes.
Receive(s) ==
  /\ helper[s] = "receive" /\ s \in ends /\ Decodes(request[s])
  /\ helper' = [helper EXCEPT ![s] = "acquire"]
  /\ UNCHANGED <<clientVars, status, reply, executed, pipeVars, lock>>

\* Fault: the helper waits for the end of its input without a deadline.
ReceiveFailsAtEnd(s) ==
  /\ helper[s] = "receive" /\ s \in ends
  /\ Gone(s, "other")
  /\ UNCHANGED <<clientVars, reply, executed, pipeVars>>

\* A malformed or incomplete frame, or the deadline of the session.
ReceiveFails(s) ==
  /\ helper[s] = "receive"
  /\ Gone(s, "other")
  /\ UNCHANGED <<clientVars, reply, executed, pipeVars>>

\* LockedStore::acquire takes the exclusive lock without waiting.
Acquire(s) ==
  /\ helper[s] = "acquire" /\ lock = None
  /\ lock' = s
  /\ helper' = [helper EXCEPT ![s] = "run"]
  /\ UNCHANGED <<clientVars, status, reply, executed, pipeVars>>

\* Busy, or a store that fails validation: an error response without a lock.
AcquireFails(s) ==
  /\ helper[s] = "acquire"
  /\ reply' = [reply EXCEPT ![s] = "refused"]
  /\ helper' = [helper EXCEPT ![s] = "respond"]
  /\ UNCHANGED <<clientVars, status, executed, pipeVars, lock>>

\* run_linux: execute, whose result goes to the one-shot send.
Execute(s) ==
  /\ helper[s] = "run"
  /\ executed' = executed \cup {s}
  /\ reply' = [reply EXCEPT ![s] = "report"]
  /\ helper' = [helper EXCEPT ![s] = "respond"]
  /\ UNCHANGED <<clientVars, status, pipeVars, lock>>

\* The response is written once; a failure is not retried.
Respond(s) ==
  /\ helper[s] = "respond"
  /\ \/ client[s] # "done" /\ sent' = sent \cup {s}
     \/ UNCHANGED sent
  /\ helper' = [helper EXCEPT ![s] = "release"]
  /\ UNCHANGED <<clientVars, status, reply, executed, request, ends, greeted, lock>>

\* with_operation returns: the store is dropped and its lock released.
Release(s) ==
  /\ helper[s] = "release"
  /\ lock' = IF lock = s THEN None ELSE lock
  /\ helper' = [helper EXCEPT ![s] = "exit"]
  /\ UNCHANGED <<clientVars, status, reply, executed, pipeVars>>

\* main exits zero only if serve returned Ok.
Exit(s) ==
  /\ helper[s] = "exit"
  /\ Gone(s, IF s \in sent THEN "ok" ELSE "other")
  /\ UNCHANGED <<clientVars, reply, executed, pipeVars>>

\* A panic, a signal, or the kill of the client.
Die(s) ==
  /\ helper[s] \notin {"absent", "gone"}
  /\ Gone(s, "other")
  /\ UNCHANGED <<clientVars, reply, executed, pipeVars>>

Serve(s) ==
  \/ Greet(s) \/ GreetFails(s) \/ Receive(s) \/ ReceiveFails(s)
  \/ Acquire(s) \/ AcquireFails(s) \/ Execute(s) \/ Respond(s)
  \/ Release(s) \/ Exit(s)

Next ==
  \E s \in Sessions :
    \/ Spawn(s) \/ SpawnFails(s) \/ Client(s)
    \/ Authorize(s) \/ AuthorizeFails(s) \/ Serve(s) \/ Die(s)

Spec == Init /\ [][Next]_vars

\* An authorised helper runs, its calls return and its deadlines pass, and so
\* for a client that has started, except where they hang.  Nobody has to click
\* or to answer the prompt.
FairSpec ==
  /\ Spec
  /\ \A s \in Sessions \ HungHelpers : WF_vars(Serve(s))
  /\ \A s \in Sessions \ HungClients : WF_vars(Client(s))

(***************************************************************************)
(* Properties.                                                             *)
(***************************************************************************)

\* Type invariant.
TypeOK ==
  /\ client \in [Sessions -> ClientPCs]
  /\ outcome \in [Sessions -> Outcomes]
  /\ decoded \in [Sessions -> Responses]
  /\ helper \in [Sessions -> HelperPCs]
  /\ status \in [Sessions -> Statuses]
  /\ request \in [Sessions -> {"none", "part", "full"}]
  /\ reply \in [Sessions -> Responses]
  /\ ends \subseteq Sessions /\ greeted \subseteq Sessions
  /\ sent \subseteq Sessions /\ executed \subseteq Sessions
  /\ lock \in Sessions \cup {None}

\* The helper has the machine for itself: from the first read of the record
\* until it has written its report and let go of the lock.
HoldsMachine(s) ==
  helper[s] = "run" \/ (helper[s] \in {"respond", "release"} /\ reply[s] = "report")

\* At most one helper is between loading the record and the release of the
\* lock, whatever the clients do (lock.rs: the callback includes the full
\* operation and its reporting).
OneOperation ==
  \A s, t \in Sessions : HoldsMachine(s) /\ HoldsMachine(t) => s = t

\* An exchange reported as cancelled, not launched or not sent never ran and
\* never will: neither a late authorisation, nor a helper left behind, nor a
\* prefix of the request can make it run (helper_client.rs: BeforeSend).
NotSentNeverRuns ==
  \A s \in Sessions : outcome[s] \in NotSent => s \notin executed

\* When a client has an answer, the helper that gave it is gone and holds
\* nothing, and the answer is a report exactly if the operation ran: a Busy
\* can be retried, and the next exchange is not Busy because of this one
\* (helper_client.rs: the answer is decoded at Event::Exit(0)).
AnswerIsFinal ==
  \A s \in Sessions : outcome[s] = "answer" =>
    /\ helper[s] = "gone" /\ lock # s
    /\ decoded[s] # "none"
    /\ decoded[s] = "report" <=> s \in executed

\* How far the operation of an exchange is.
Phase(s) ==
  IF helper[s] \in {"absent", "auth", "hello", "receive", "acquire"} THEN "pending"
  ELSE IF HoldsMachine(s) THEN "running" ELSE "over"

\* What its window has been told.
Told(s) ==
  IF outcome[s] \in NotSent THEN "notSent"
  ELSE IF outcome[s] = "answer" THEN decoded[s] ELSE outcome[s]

\* What the window and the machine are promised of overlapping exchanges.
Exchanges == INSTANCE Exchange WITH
  op <- [s \in Sessions |-> Phase(s)], told <- [s \in Sessions |-> Told(s)]

\* The exchanges exclude each other, what is reported as not sent never runs,
\* and an answer is final and true, whatever clients and helpers do to each
\* other (lock.rs: the callback includes the full operation and its reporting;
\* helper_client.rs: the answer is decoded at Event::Exit(0)).
ImplementsExchange == Exchanges!Spec

\* Every started exchange returns, even if its own helper hangs
\* (helper_client.rs: one deadline before the hello, one after).
ClientReturns ==
  \A s \in Sessions \ HungClients : client[s] = "hello" ~> client[s] = "done"

\* Every authorised helper ends and lets go of the lock, even if its own client
\* hangs with its pipes open (pipe.rs: one deadline for receive and send).
HelperEnds ==
  \A s \in Sessions \ HungHelpers :
    helper[s] = "hello" ~> helper[s] = "gone" /\ lock # s

=============================================================================
