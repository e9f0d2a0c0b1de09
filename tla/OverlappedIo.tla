----------------------------- MODULE OverlappedIo -----------------------------
(***************************************************************************)
(* One overlapped operation on a pipe: transfer and cancel_and_join of the *)
(* helper (helper/src/windows/pipe.rs), wait_io and cancel_and_join of the *)
(* client (gui/src/helper_client/windows/native.rs), against the kernel    *)
(* that may use the buffer, the event and the OVERLAPPED block until the   *)
(* operation is over.                                                      *)
(*                                                                         *)
(* A pipe operation that completes has transferred what was asked for.     *)
(***************************************************************************)
EXTENDS Sequences, SequencesExt

VARIABLES
  side,     \* whose operation it is
  kind,     \* OverlappedOperation
  kernel,   \* what the kernel has done with the operation
  pc,       \* control point of the thread that issued it
  why,      \* the error that led to cancellation
  cancel,   \* what CancelIoEx answered
  returned, \* what the caller is told
  trace     \* OverlappedEvents so far

ioVars == <<side, kind, kernel, pc, why, cancel, returned, trace>>

Sides == {"helper", "client"}
Kinds == {"Connect", "Read", "Write"}

\* idle: never accepted as pending.  The last four are the terminal results:
\* complete, cancelled, closed by the peer, or another error.
Terminal == {"Completed", "OperationAborted", "PipeClosed", "Other"}
Kernels == {"idle", "pending"} \cup Terminal

\* freed: the function has returned; dead: the process has been aborted.
PCs == {"issue", "wait", "cancel", "join", "verdict", "freed", "dead"}
Cancels == {"none", "Succeeded", "AlreadyComplete", "Failed"}
Results == {"none", "ok", "timeout", "error", "closed"}

\* The helper accepts no connections: accept is unused.
IoInit ==
  /\ side \in Sides
  /\ kind \in IF side = "helper" THEN {"Read", "Write"} ELSE Kinds
  /\ kernel = "idle" /\ pc = "issue" /\ why = "none" /\ cancel = "none"
  /\ returned = "none" /\ trace = <<>>

(***************************************************************************)
(* The kernel.                                                             *)
(***************************************************************************)

\* The operation ends; it is cancelled only if it was asked to.
KernelEnds(r) ==
  /\ kernel = "pending" /\ kernel' = r
  /\ r = "OperationAborted" => cancel = "Succeeded"
  /\ UNCHANGED <<side, kind, pc, why, cancel, returned, trace>>

(***************************************************************************)
(* The issuing thread.                                                     *)
(***************************************************************************)

Log(events) == trace' = trace \o events

\* The event is closed and the function returns r.
Return(r) == pc' = "freed" /\ returned' = r

\* The call that starts the operation.
Issue ==
  /\ pc = "issue"
  /\ \/ kernel' = "Completed" /\ Return("ok") /\ UNCHANGED trace
     \/ kernel' = "idle" /\ Return("error") /\ UNCHANGED trace
     \/ /\ side = "client" /\ kind = "Read"
        /\ kernel' = "idle" /\ Return("closed") /\ UNCHANGED trace
     \/ kernel' = "pending" /\ pc' = "wait" /\ Log(<<"Pending">>) /\ UNCHANGED returned
  /\ UNCHANGED <<side, kind, why, cancel>>

\* GetOverlappedResultEx sees the operation complete.
WaitCompletes ==
  /\ pc = "wait" /\ kernel = "Completed"
  /\ Return("ok") /\ Log(<<"Completed", "Closed">>)
  /\ UNCHANGED <<side, kind, kernel, why, cancel>>

\* Fault: there is no deadline.
WaitFailsUntimed ==
  /\ pc = "wait" /\ kernel \in Terminal \ {"Completed"}
  /\ pc' = "cancel" /\ why' = "error" /\ UNCHANGED trace
  /\ UNCHANGED <<side, kind, kernel, cancel, returned>>

\* The deadline has passed before or during the wait, or the wait reports an
\* error, be it of the operation or its own.
WaitFails ==
  /\ pc = "wait" /\ pc' = "cancel"
  /\ \/ why' = "timeout" /\ Log(<<"TimedOut">>)
     \/ why' = "error" /\ kernel # "Completed" /\ UNCHANGED trace
  /\ UNCHANGED <<side, kind, kernel, cancel, returned>>

\* Fault: CancelIoEx is taken for the end of the operation.
CancelUnjoined ==
  /\ pc = "cancel"
  /\ cancel' = IF kernel = "pending" THEN "Succeeded" ELSE "AlreadyComplete"
  /\ Return(why) /\ Log(<<"CancelIssued", "Closed">>)
  /\ UNCHANGED <<side, kind, kernel, why>>

\* CancelIoEx: accepted, nothing left to cancel, or a failure that ends the
\* process.
Cancel ==
  /\ pc = "cancel"
  /\ \/ /\ kernel = "pending" /\ cancel' = "Succeeded"
        /\ pc' = "join" /\ Log(<<"CancelIssued">>)
     \/ /\ kernel \in Terminal /\ cancel' = "AlreadyComplete"
        /\ pc' = "join" /\ Log(<<"CancelFailed">>)
     \/ cancel' = "Failed" /\ pc' = "dead" /\ UNCHANGED trace
  /\ UNCHANGED <<side, kind, kernel, why, returned>>

\* The bounded wait for the event; an event that is not signalled in time ends
\* the process.
JoinIo ==
  /\ pc = "join"
  /\ pc' = IF kernel \in Terminal THEN "verdict" ELSE "dead"
  /\ UNCHANGED <<side, kind, kernel, why, cancel, returned, trace>>

\* The event is over for the audit: a terminal observation, then the close.
Closing ==
  Log(<<IF cancel = "AlreadyComplete" THEN "AlreadyComplete"
        ELSE IF kernel = "Completed" THEN "Completed" ELSE "Aborted", "Closed">>)

Abort == pc' = "dead" /\ UNCHANGED <<returned, trace>>

\* Fault: the client reports a completed operation as failed.
VerdictPessimistic ==
  /\ pc = "verdict"
  /\ IF kernel \in {"Completed", "OperationAborted"} THEN Return(why) /\ Closing
     ELSE IF side = "client" /\ kind = "Read" /\ kernel = "PipeClosed"
     THEN Return("closed") /\ Closing
     ELSE Abort
  /\ UNCHANGED <<side, kind, kernel, why, cancel>>

\* Fault: the peer's closing is taken for an ordinary end of any operation.
VerdictTolerant ==
  /\ pc = "verdict"
  /\ IF kernel = "Completed" /\ side = "client" THEN Return("ok") /\ Closing
     ELSE IF kernel = "PipeClosed" THEN Return("closed") /\ Closing
     ELSE IF kernel = "Other" THEN Abort ELSE Return(why) /\ Closing
  /\ UNCHANGED <<side, kind, kernel, why, cancel>>

\* GetOverlappedResult and what follows.  The client takes a completed
\* operation for a success after all and a closed pipe for the end of a read;
\* the helper keeps its error and ends the process on a closed pipe.
Verdict ==
  /\ pc = "verdict"
  /\ \/ /\ kernel = "Completed"
        /\ Return(IF side = "client" THEN "ok" ELSE why) /\ Closing
     \/ kernel = "OperationAborted" /\ Return(why) /\ Closing
     \/ /\ kernel = "PipeClosed"
        /\ IF side = "client" /\ kind = "Read" THEN Return("closed") /\ Closing
           ELSE Abort
     \/ kernel = "Other" /\ Abort
  /\ UNCHANGED <<side, kind, kernel, why, cancel>>

Thread == Issue \/ WaitCompletes \/ WaitFails \/ Cancel \/ JoinIo \/ Verdict

IoNext == Thread \/ \E r \in Terminal : KernelEnds(r)

IoSpec == IoInit /\ [][IoNext]_ioVars

\* The thread runs and its deadline passes; the kernel need not do anything.
FairIoSpec == IoSpec /\ WF_ioVars(Thread)

(***************************************************************************)
(* Properties.                                                             *)
(***************************************************************************)

\* validate_overlapped_trace: what the helper's tests accept as a history of
\* one operation.
Ends == {"Completed", "Aborted", "AlreadyComplete"}

ValidTrace(t) ==
  LET body == Front(t)
      ends == {i \in DOMAIN body : body[i] \in Ends} IN
  /\ t # <<>> /\ Head(t) = "Pending"
  /\ Last(t) = "Closed" /\ ~Contains(body, "Closed")
  /\ \E at \in ends :
       /\ ends = {at} /\ at = Len(body)
       /\ Contains(t, "TimedOut") =>
            \E i \in 1..(at - 1) : body[i] \in {"CancelIssued", "CancelFailed"}

\* overlapped_cancel_decision: the client's stated policy.
Decision(operation, answer, signalled, outcome) ==
  IF \/ answer = "Failed" \/ ~signalled \/ outcome = "Other"
     \/ outcome = "PipeClosed" /\ operation # "Read"
  THEN "AbortProcess" ELSE outcome

\* Type invariant.
IoTypeOK ==
  /\ side \in Sides /\ kind \in Kinds /\ kernel \in Kernels /\ pc \in PCs
  /\ why \in {"none", "timeout", "error"} /\ cancel \in Cancels
  /\ returned \in Results

\* The buffer, the event and the OVERLAPPED block outlive the operation: the
\* function returns only once the kernel is done with them (pipe.rs:
\* cancel_and_join observes completion before any of them can leave scope).
OutlivesOperation == pc = "freed" => kernel # "pending"

\* A write of the client that has completed is never reported as unsent, not
\* even at the deadline (native.rs: wait_io returns the completion).
CompletedIsReported ==
  side = "client" /\ pc = "freed" /\ kernel = "Completed" => returned = "ok"

\* The native code is what the host tests check in its place: no function
\* returns with a history that the helper's audit rejects, and the client's
\* cancellation decides as its stated policy does (pipe.rs:
\* validate_overlapped_trace; overlapped_cancel_decision).
FollowsPolicy ==
  [][pc # pc' /\ pc' \in {"freed", "dead"} =>
       /\ pc' = "freed" /\ trace' # <<>> => ValidTrace(trace')
       /\ side = "client" /\ cancel' # "none" =>
            LET d == Decision(kind, cancel', kernel \in Terminal, kernel)
            IN  /\ pc' = "dead" <=> d = "AbortProcess"
                /\ returned' = "ok" <=> d = "Completed"
                /\ returned' = "closed" <=> d = "PipeClosed"]_ioVars

\* Every operation ends, even if the kernel never completes or cancels it.
OperationEnds == pc = "wait" ~> pc \in {"freed", "dead"}

=============================================================================
