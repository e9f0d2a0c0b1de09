------------------------------- MODULE Watchdog -------------------------------
(***************************************************************************)
(* The deadline watchdogs of a Windows process (helper/src/windows/pipe.rs *)
(* and the copy in native.rs of the client).  Each has a worker thread     *)
(* that sleeps on a condition variable until the deadline and then calls   *)
(* the abort hook, unless its owner disarms it first.  A process has two,  *)
(* whose lives overlap.                                                    *)
(*                                                                         *)
(* Every step holds the mutex of its watchdog for its whole length, or     *)
(* needs nothing of it.  A notification reaches a thread only if it is     *)
(* asleep; a worker may also wake for no reason.  The hook of production   *)
(* ends the process, the hook of a test returns; both are allowed here.    *)
(***************************************************************************)
EXTENDS Naturals

CONSTANT Watchdogs

VARIABLES
  dog,     \* [Watchdogs -> what the mutex guards]
  worker,  \* [Watchdogs -> control point of the worker]
  owner,   \* [Watchdogs -> control point of the owner]
  call,    \* [Watchdogs -> what the owner keeps between its steps]
  late,    \* the watchdogs whose deadline has passed
  aborts,  \* [Watchdogs -> times the hook was called]
  dead     \* the process is over

vars == <<dog, worker, owner, call, late, aborts, dead>>

\* WatchdogShared; signalled says that a notification has reached the sleeping
\* worker.
WatchdogState == {"Armed", "Disarmed", "Expired"}
WatchdogShared == [state : WatchdogState, started : BOOLEAN, finished : BOOLEAN,
                   issued : BOOLEAN, signalled : BOOLEAN]

WorkerPCs == {"start", "asleep", "hook", "hooked", "over"}

\* arming: arm_with_abort waits for the worker; busy: the guarded work; await,
\* join, settle: inside disarm; returned: disarm has returned.
OwnerPCs == {"arming", "busy", "await", "join", "settle", "returned"}

\* disarm is called once by name and once more by Drop.
MaxCalls == 2

\* attached: the handle of the worker has not been taken; should: should_abort
\* of the call in progress; begun: calls of disarm; overran: history, the
\* deadline had passed when the first call decided.
Calls == [attached : BOOLEAN, should : BOOLEAN, begun : 0..MaxCalls,
          overran : BOOLEAN]

Init ==
  /\ dog = [d \in Watchdogs |->
       [state |-> "Armed", started |-> FALSE, finished |-> FALSE,
        issued |-> FALSE, signalled |-> FALSE]]
  /\ worker = [d \in Watchdogs |-> "start"]
  /\ owner = [d \in Watchdogs |-> "arming"]
  /\ call = [d \in Watchdogs |->
       [attached |-> TRUE, should |-> FALSE, begun |-> 0, overran |-> FALSE]]
  /\ late = {} /\ aborts = [d \in Watchdogs |-> 0] /\ dead = FALSE

Tick(d) ==
  /\ d \notin late /\ late' = late \cup {d}
  /\ UNCHANGED <<dog, worker, owner, call, aborts, dead>>

\* The abort hook.
Hook(d) == aborts' = [aborts EXCEPT ![d] = @ + 1] /\ dead' \in BOOLEAN

(***************************************************************************)
(* The worker.                                                             *)
(***************************************************************************)

Seen(g) == [g EXCEPT !.started = TRUE, !.signalled = FALSE]

\* The worker holds the mutex: it leaves, expires, or sleeps again.
Look(d) ==
  /\ \/ /\ dog[d].state # "Armed"
        /\ worker' = [worker EXCEPT ![d] = "over"]
        /\ dog' = [dog EXCEPT ![d] = [Seen(@) EXCEPT !.finished = TRUE]]
     \/ /\ dog[d].state = "Armed" /\ d \in late
        /\ worker' = [worker EXCEPT ![d] = "hook"]
        /\ dog' = [dog EXCEPT ![d] = [Seen(@) EXCEPT !.state = "Expired", !.issued = TRUE]]
     \/ /\ dog[d].state = "Armed" /\ d \notin late
        /\ worker' = [worker EXCEPT ![d] = "asleep"]
        /\ dog' = [dog EXCEPT ![d] = Seen(@)]
  /\ UNCHANGED <<owner, call, late, aborts, dead>>

WorkerStart(d) == worker[d] = "start" /\ Look(d)

\* Fault: the wait has no timeout.
WorkerWakeUntimed(d) == worker[d] = "asleep" /\ dog[d].signalled /\ Look(d)

\* wait_timeout returns, notified or at the deadline.
WorkerWake(d) ==
  /\ worker[d] = "asleep" /\ (dog[d].signalled \/ d \in late)
  /\ Look(d)

WorkerWakeSpuriously(d) == worker[d] = "asleep" /\ Look(d)

\* The hook is called without the mutex.
WorkerHook(d) ==
  /\ worker[d] = "hook"
  /\ worker' = [worker EXCEPT ![d] = "hooked"]
  /\ Hook(d)
  /\ UNCHANGED <<dog, owner, call, late>>

WorkerFinish(d) ==
  /\ worker[d] = "hooked"
  /\ worker' = [worker EXCEPT ![d] = "over"]
  /\ dog' = [dog EXCEPT ![d].finished = TRUE]
  /\ UNCHANGED <<owner, call, late, aborts, dead>>

Worker(d) == WorkerStart(d) \/ WorkerWake(d) \/ WorkerHook(d) \/ WorkerFinish(d)

(***************************************************************************)
(* The owner.                                                              *)
(***************************************************************************)

OwnerAt(d, from, to) == owner[d] = from /\ owner' = [owner EXCEPT ![d] = to]

\* arm_with_abort returns once the worker has looked at the state.
ArmReturns(d) ==
  /\ OwnerAt(d, "arming", "busy") /\ dog[d].started
  /\ UNCHANGED <<dog, worker, call, late, aborts, dead>>

\* Fault: an armed watchdog can always be disarmed.
DisarmStateLenient(s, overdue) == IF s = "Expired" THEN s ELSE "Disarmed"

\* watchdog_disarm_state
DisarmState(s, overdue) ==
  IF s = "Expired" \/ (s = "Armed" /\ overdue) THEN "Expired" ELSE "Disarmed"

\* Fault: nobody is notified.
DecidedSilently(g, next, should, asleep) ==
  [g EXCEPT !.state = next, !.issued = @ \/ should]

\* The writes of the first critical section of disarm.
Decided(g, next, should, asleep) ==
  [g EXCEPT !.state = next, !.issued = @ \/ should, !.signalled = asleep]

ShouldAbort(d, next) == next = "Expired" /\ ~dog[d].issued

Begun(c, should, overdue) ==
  [c EXCEPT !.begun = @ + 1, !.should = should,
            !.overran = @ \/ (c.begun = 0 /\ overdue)]

Disarm(d) ==
  LET next   == DisarmState(dog[d].state, d \in late)
      should == ShouldAbort(d, next) IN
  /\ owner[d] \in {"busy", "returned"} /\ call[d].begun < MaxCalls
  /\ dog' = [dog EXCEPT ![d] = Decided(@, next, should, worker[d] = "asleep")]
  /\ call' = [call EXCEPT ![d] = Begun(@, should, d \in late)]
  /\ owner' = [owner EXCEPT ![d] = IF call[d].attached THEN "await" ELSE "settle"]
  /\ UNCHANGED <<worker, late, aborts, dead>>

\* Fault: the worker is left to itself.
AwaitDetached(d) ==
  /\ OwnerAt(d, "await", "settle")
  /\ UNCHANGED <<dog, worker, call, late, aborts, dead>>

\* wait_timeout_while sees the worker finished.
Await(d) ==
  /\ OwnerAt(d, "await", "join") /\ dog[d].finished
  /\ UNCHANGED <<dog, worker, call, late, aborts, dead>>

\* It gives up after 100 ms and ends the process.
AwaitGivesUp(d) ==
  /\ owner[d] = "await" /\ ~dog[d].finished /\ dead' = TRUE
  /\ UNCHANGED <<dog, worker, owner, call, late, aborts>>

Join(d) ==
  /\ OwnerAt(d, "join", "settle") /\ worker[d] = "over"
  /\ call' = [call EXCEPT ![d].attached = FALSE]
  /\ UNCHANGED <<dog, worker, late, aborts, dead>>

\* The end of disarm.
Settle(d) ==
  /\ OwnerAt(d, "settle", "returned")
  /\ IF call[d].should THEN Hook(d) ELSE UNCHANGED <<aborts, dead>>
  /\ UNCHANGED <<dog, worker, call, late>>

Owner(d) == ArmReturns(d) \/ Await(d) \/ Join(d) \/ Settle(d)

Next ==
  /\ ~dead
  /\ \E d \in Watchdogs :
       \/ Worker(d) \/ WorkerWakeSpuriously(d)
       \/ Owner(d) \/ Disarm(d) \/ AwaitGivesUp(d)
       \/ Tick(d)

Spec == Init /\ [][Next]_vars

\* Threads are scheduled while the process lives.  The guarded work may never
\* end, time may stand still, and the 100 ms may never pass.
FairSpec ==
  /\ Spec
  /\ \A d \in Watchdogs :
       WF_vars(~dead /\ Worker(d)) /\ WF_vars(~dead /\ Owner(d))

(***************************************************************************)
(* Properties.                                                             *)
(***************************************************************************)

\* Type invariant.
TypeOK ==
  /\ dog \in [Watchdogs -> WatchdogShared]
  /\ worker \in [Watchdogs -> WorkerPCs]
  /\ owner \in [Watchdogs -> OwnerPCs]
  /\ call \in [Watchdogs -> Calls]
  /\ late \subseteq Watchdogs
  /\ aborts \in [Watchdogs -> Nat] /\ dead \in BOOLEAN

\* The hook is never called twice, and once disarm has returned it has been
\* called if the deadline had passed when disarm decided and not otherwise,
\* whichever of worker, disarm and Drop saw it first (pipe.rs: the lock race
\* fails closed whichever side acquires the state lock first, and invokes the
\* injected hook exactly once).
OverrunAborts ==
  \A d \in Watchdogs :
    /\ aborts[d] <= 1
    /\ owner[d] = "returned" => (aborts[d] = 1 <=> call[d].overran)

\* A watchdog that has been disarmed is silent, so the deadline of the
\* authentication never ends an operation (pipe.rs: run disarms it before the
\* hello).
SilentOnceDisarmed ==
  [][\A d \in Watchdogs : owner[d] = "returned" => aborts'[d] = aborts[d]]_vars

\* A deadline that passes while armed ends in the hook even if the guarded work
\* hangs (pipe.rs: the worker-start handshake completes before arm returns).
ExpiryIsEnforced ==
  \A d \in Watchdogs : d \in late /\ dog[d].state = "Armed" ~> aborts[d] = 1 \/ dead

\* disarm returns, or the process is over.
DisarmReturns ==
  \A d \in Watchdogs : owner[d] = "await" ~> owner[d] = "returned" \/ dead

=============================================================================
