---------------------------- MODULE PipeIoProofs ----------------------------
(***************************************************************************)
(* What bounds the work on a pipe of Windows: the watchdog around it       *)
(* (Watchdog), for any number of watchdogs in one process, and the end of  *)
(* one overlapped operation (OverlappedIo).                                *)
(*                                                                         *)
(* Watchdog.  The hook has three possible callers: the worker, disarm by   *)
(* name and disarm in Drop.  issued is the token that is handed out once,  *)
(* under the mutex; the invariant follows it from there to the call of the *)
(* hook.                                                                   *)
(*                                                                         *)
(* OverlappedIo.  The thread is past the point where it waits only when it *)
(* has seen the operation complete or has asked for its cancellation, and  *)
(* past the join only when the operation is over; the history logged so    *)
(* far is a function of the point reached.                                 *)
(*                                                                         *)
(* ResponseExchange.  What travels over the pipe, for any results of the   *)
(* operations, any limits and any codec with the laws ResponseExchange     *)
(* assumes: a document that is not refused is the one its author wrote,    *)
(* and a response that is not sent whole tells the same in fewer words.    *)
(***************************************************************************)
EXTENDS Watchdog, OverlappedIo, ResponseExchange, SequenceTheorems, TLAPS

\* Who has the token of d and has not called the hook yet.
WorkerOwes(d) == worker[d] = "hook"
OwnerOwes(d)  == owner[d] \in {"await", "join", "settle"} /\ call[d].should

\* The token is spent at most once, and nobody owes without it.
TokenInv ==
  \A d \in Watchdogs :
    IF dog[d].issued
    THEN \/ aborts[d] = 1 /\ ~WorkerOwes(d) /\ ~OwnerOwes(d)
         \/ aborts[d] = 0 /\ WorkerOwes(d) /\ ~OwnerOwes(d)
         \/ aborts[d] = 0 /\ ~WorkerOwes(d) /\ OwnerOwes(d)
    ELSE aborts[d] = 0 /\ ~WorkerOwes(d) /\ ~OwnerOwes(d)

\* The token is out exactly when the watchdog has expired, which needs the
\* deadline; disarm leaves no watchdog armed, and expires it if it is late.
StateInv ==
  \A d \in Watchdogs :
    /\ dog[d].state = "Expired" <=> dog[d].issued
    /\ dog[d].issued => d \in late
    /\ IF call[d].begun = 0
       THEN /\ dog[d].state # "Disarmed" /\ ~call[d].overran
            /\ owner[d] \in {"arming", "busy"}
       ELSE /\ dog[d].state # "Armed" /\ owner[d] \notin {"arming", "busy"}
            /\ call[d].overran <=> dog[d].state = "Expired"

\* Past the join there is no worker.
JoinInv ==
  \A d \in Watchdogs :
    /\ ~call[d].attached => worker[d] = "over"
    /\ owner[d] \in {"settle", "returned"} => worker[d] = "over"

IInv == TypeOK /\ TokenInv /\ StateInv /\ JoinInv

-----------------------------------------------------------------------------

\* What the updates of a WatchdogShared leave behind.
LEMMA SeenFields ==
  ASSUME NEW g \in WatchdogShared
  PROVE  /\ Seen(g) \in WatchdogShared
         /\ Seen(g).state = g.state /\ Seen(g).issued = g.issued
  BY DEF Seen, WatchdogShared

LEMMA FinishedFields ==
  ASSUME NEW g \in WatchdogShared
  PROVE  /\ [g EXCEPT !.finished = TRUE] \in WatchdogShared
         /\ [g EXCEPT !.finished = TRUE].state = g.state
         /\ [g EXCEPT !.finished = TRUE].issued = g.issued
  BY DEF WatchdogShared

LEMMA ExpiredFields ==
  ASSUME NEW g \in WatchdogShared
  PROVE  /\ [g EXCEPT !.state = "Expired", !.issued = TRUE] \in WatchdogShared
         /\ [g EXCEPT !.state = "Expired", !.issued = TRUE].state = "Expired"
         /\ [g EXCEPT !.state = "Expired", !.issued = TRUE].issued = TRUE
  BY DEF WatchdogShared, WatchdogState

LEMMA DecidedFields ==
  ASSUME NEW g \in WatchdogShared, NEW n \in WatchdogState, NEW a \in BOOLEAN,
         NEW w \in BOOLEAN
  PROVE  /\ Decided(g, n, a, w) \in WatchdogShared
         /\ Decided(g, n, a, w).state = n
         /\ Decided(g, n, a, w).issued = (g.issued \/ a)
  BY DEF Decided, WatchdogShared

\* ... and of the locals of disarm.
LEMMA BegunFields ==
  ASSUME NEW c \in Calls, c.begun < MaxCalls, NEW a \in BOOLEAN, NEW l \in BOOLEAN
  PROVE  /\ Begun(c, a, l) \in Calls
         /\ Begun(c, a, l).begun = c.begun + 1
         /\ Begun(c, a, l).should = a
         /\ Begun(c, a, l).overran = (c.overran \/ (c.begun = 0 /\ l))
         /\ Begun(c, a, l).attached = c.attached
  <1> DEFINE o == c.overran \/ (c.begun = 0 /\ l)
             b == c.begun + 1
  <1>1. b \in 0..MaxCalls
    BY DEF Calls, MaxCalls
  <1>2. o \in BOOLEAN
    BY DEF Calls
  <1>3. Begun(c, a, l) = [c EXCEPT !.begun = b, !.should = a, !.overran = o]
    BY DEF Begun
  <1> HIDE DEF o, b
  <1>4. /\ Begun(c, a, l) \in Calls /\ Begun(c, a, l).begun = b
        /\ Begun(c, a, l).should = a /\ Begun(c, a, l).overran = o
        /\ Begun(c, a, l).attached = c.attached
    BY <1>1, <1>2, <1>3 DEF Calls
  <1> QED
    BY <1>4 DEF o, b

-----------------------------------------------------------------------------

LEMMA InvInit == Init => IInv
  <1> SUFFICES ASSUME Init PROVE IInv
    OBVIOUS
  <1>1. TypeOK
    <2>1. /\ [state |-> "Armed", started |-> FALSE, finished |-> FALSE, issued |-> FALSE,
             signalled |-> FALSE] \in WatchdogShared
          /\ [attached |-> TRUE, should |-> FALSE, begun |-> 0, overran |-> FALSE] \in Calls
      BY DEF WatchdogShared, WatchdogState, Calls, MaxCalls
    <2>2. dog \in [Watchdogs -> WatchdogShared] /\ call \in [Watchdogs -> Calls]
      BY <2>1 DEF Init
    <2> QED
      BY <2>2 DEF Init, TypeOK, WorkerPCs, OwnerPCs
  <1>2. TokenInv /\ StateInv /\ JoinInv
    BY DEF Init, TokenInv, StateInv, JoinInv, WorkerOwes, OwnerOwes
  <1> QED
    BY <1>1, <1>2 DEF IInv

LEMMA InvStep == IInv /\ [Next]_vars => IInv'
  <1> SUFFICES ASSUME IInv, [Next]_vars PROVE IInv'
    OBVIOUS
  <1> USE DEF IInv
  <1>0. CASE UNCHANGED vars
    BY <1>0 DEF vars, TypeOK, TokenInv, StateInv, JoinInv, WorkerOwes, OwnerOwes
  <1>1. ASSUME NEW d \in Watchdogs, worker[d] \in {"start", "asleep"}, Look(d) PROVE IInv'
    <2>0. dog[d] \in WatchdogShared
      BY DEF TypeOK
    <2>1. CASE dog[d].state # "Armed"
      <3> DEFINE h == [Seen(dog[d]) EXCEPT !.finished = TRUE]
      <3>1. h \in WatchdogShared /\ h.state = dog[d].state /\ h.issued = dog[d].issued
        BY <2>0, SeenFields, FinishedFields
      <3> HIDE DEF h
      <3>2. /\ dog' = [dog EXCEPT ![d] = h] /\ worker' = [worker EXCEPT ![d] = "over"]
            /\ UNCHANGED <<owner, call, late, aborts, dead>>
        BY <1>1, <2>0, <2>1 DEF Look, h
      <3>3. TypeOK'
        BY <3>1, <3>2 DEF TypeOK, WorkerPCs
      <3>4. TokenInv' /\ StateInv' /\ JoinInv'
        BY <1>1, <2>0, <2>1, <3>1, <3>2 DEF TypeOK, TokenInv, StateInv, JoinInv, WorkerOwes, OwnerOwes
      <3> QED
        BY <3>3, <3>4
    <2>2. CASE dog[d].state = "Armed" /\ d \in late
      <3> DEFINE h == [Seen(dog[d]) EXCEPT !.state = "Expired", !.issued = TRUE]
      <3>1. h \in WatchdogShared /\ h.state = "Expired" /\ h.issued = TRUE
        BY <2>0, SeenFields, ExpiredFields
      <3> HIDE DEF h
      <3>2. /\ dog' = [dog EXCEPT ![d] = h] /\ worker' = [worker EXCEPT ![d] = "hook"]
            /\ UNCHANGED <<owner, call, late, aborts, dead>>
        BY <1>1, <2>0, <2>2 DEF Look, h
      <3>3. TypeOK'
        BY <3>1, <3>2 DEF TypeOK, WorkerPCs
      <3>4. TokenInv' /\ StateInv' /\ JoinInv'
        BY <1>1, <2>0, <2>2, <3>1, <3>2 DEF TypeOK, TokenInv, StateInv, JoinInv, WorkerOwes, OwnerOwes
      <3> QED
        BY <3>3, <3>4
    <2>3. CASE dog[d].state = "Armed" /\ d \notin late
      <3> DEFINE h == Seen(dog[d])
      <3>1. h \in WatchdogShared /\ h.state = dog[d].state /\ h.issued = dog[d].issued
        BY <2>0, SeenFields
      <3> HIDE DEF h
      <3>2. /\ dog' = [dog EXCEPT ![d] = h] /\ worker' = [worker EXCEPT ![d] = "asleep"]
            /\ UNCHANGED <<owner, call, late, aborts, dead>>
        BY <1>1, <2>0, <2>3 DEF Look, h
      <3>3. TypeOK'
        BY <3>1, <3>2 DEF TypeOK, WorkerPCs
      <3>4. TokenInv' /\ StateInv' /\ JoinInv'
        BY <1>1, <2>0, <2>3, <3>1, <3>2 DEF TypeOK, TokenInv, StateInv, JoinInv, WorkerOwes, OwnerOwes
      <3> QED
        BY <3>3, <3>4
    <2> QED
      BY <2>1, <2>2, <2>3
  <1>2. ASSUME NEW d \in Watchdogs, WorkerHook(d) PROVE IInv'
    <2>1. TypeOK'
      BY <1>2 DEF WorkerHook, Hook, TypeOK, WatchdogShared, WorkerPCs, OwnerPCs, Calls
    <2>2. TokenInv'
      BY <1>2 DEF WorkerHook, Hook, TypeOK, WatchdogShared, Calls, TokenInv, StateInv, JoinInv,
         WorkerOwes, OwnerOwes
    <2>3. StateInv'
      BY <1>2 DEF WorkerHook, Hook, TypeOK, WatchdogShared, Calls, StateInv
    <2>4. JoinInv'
      BY <1>2 DEF WorkerHook, Hook, TypeOK, Calls, JoinInv
    <2> QED
      BY <2>1, <2>2, <2>3, <2>4
  <1>3. ASSUME NEW d \in Watchdogs, WorkerFinish(d) PROVE IInv'
    <2>0. dog[d] \in WatchdogShared
      BY DEF TypeOK
    <2> DEFINE h == [dog[d] EXCEPT !.finished = TRUE]
    <2>1. h \in WatchdogShared /\ h.state = dog[d].state /\ h.issued = dog[d].issued
      BY <2>0, FinishedFields
    <2> HIDE DEF h
    <2>2. /\ dog' = [dog EXCEPT ![d] = h]
          /\ worker[d] = "hooked" /\ worker' = [worker EXCEPT ![d] = "over"]
          /\ UNCHANGED <<owner, call, late, aborts, dead>>
      BY <1>3 DEF WorkerFinish, h
    <2>3. TypeOK'
      BY <2>1, <2>2 DEF TypeOK, WorkerPCs
    <2>4. TokenInv' /\ StateInv' /\ JoinInv'
      BY <2>0, <2>1, <2>2 DEF TypeOK, TokenInv, StateInv, JoinInv, WorkerOwes, OwnerOwes
    <2> QED
      BY <2>3, <2>4
  <1>4. ASSUME NEW d \in Watchdogs, ArmReturns(d) PROVE IInv'
    <2>1. TypeOK'
      BY <1>4 DEF ArmReturns, OwnerAt, TypeOK, WatchdogShared, WorkerPCs, OwnerPCs, Calls
    <2>2. TokenInv'
      BY <1>4 DEF ArmReturns, OwnerAt, TypeOK, WatchdogShared, Calls, TokenInv, StateInv, JoinInv,
         WorkerOwes, OwnerOwes
    <2>3. StateInv'
      BY <1>4 DEF ArmReturns, OwnerAt, TypeOK, WatchdogShared, Calls, StateInv
    <2>4. JoinInv'
      BY <1>4 DEF ArmReturns, OwnerAt, TypeOK, Calls, JoinInv
    <2> QED
      BY <2>1, <2>2, <2>3, <2>4
  <1>5. ASSUME NEW d \in Watchdogs, Disarm(d) PROVE IInv'
    <2> DEFINE n == DisarmState(dog[d].state, d \in late)
               a == ShouldAbort(d, n)
               w == (worker[d] = "asleep")
               l == (d \in late)
               h == Decided(dog[d], n, a, w)
               c == Begun(call[d], a, l)
    <2>1. /\ dog[d] \in WatchdogShared /\ call[d] \in Calls
          /\ owner[d] \in {"busy", "returned"} /\ call[d].begun < MaxCalls
      BY <1>5 DEF TypeOK, Disarm
    <2>2. /\ n \in WatchdogState /\ n # "Armed"
          /\ n = "Expired" <=> dog[d].state = "Expired" \/ (dog[d].state = "Armed" /\ d \in late)
      BY DEF DisarmState, WatchdogState
    <2>3. a \in BOOLEAN /\ w \in BOOLEAN /\ l \in BOOLEAN
      BY DEF ShouldAbort
    <2>4. dog' = [dog EXCEPT ![d] = h] /\ call' = [call EXCEPT ![d] = c]
      BY <1>5 DEF Disarm
    <2>5. /\ owner' = [owner EXCEPT ![d] = IF call[d].attached THEN "await" ELSE "settle"]
          /\ UNCHANGED <<worker, late, aborts, dead>>
      BY <1>5 DEF Disarm
    <2>6. a <=> (n = "Expired" /\ ~dog[d].issued)
      BY DEF ShouldAbort
    <2>7. l <=> d \in late
      OBVIOUS
    <2> HIDE DEF n, a, w, l
    <2>8. h \in WatchdogShared /\ h.state = n /\ h.issued = (dog[d].issued \/ a)
      BY <2>1, <2>2, <2>3, DecidedFields
    <2>9. /\ c \in Calls /\ c.begun = call[d].begun + 1 /\ c.should = a
          /\ c.overran = (call[d].overran \/ (call[d].begun = 0 /\ l))
          /\ c.attached = call[d].attached
      BY <2>1, <2>3, BegunFields
    <2>10. h.issued <=> n = "Expired"
      BY <2>2, <2>6, <2>8 DEF StateInv
    <2>11. c.overran <=> call[d].overran \/ (call[d].begun = 0 /\ d \in late)
      BY <2>7, <2>9
    <2>12. c.should <=> n = "Expired" /\ ~dog[d].issued
      BY <2>6, <2>9
    <2>13. c.begun \in Nat /\ c.begun # 0
      BY <2>1, <2>9 DEF Calls
    <2> HIDE DEF h, c
    <2>14. TypeOK'
      BY <2>4, <2>5, <2>8, <2>9 DEF TypeOK, OwnerPCs
    <2>15. TokenInv'
      BY <2>1, <2>2, <2>4, <2>5, <2>8, <2>10, <2>12
         DEF TypeOK, TokenInv, StateInv, WorkerOwes, OwnerOwes
    <2>16. StateInv'
      <3>1. /\ dog'[d] = h /\ call'[d] = c /\ owner'[d] \in {"await", "settle"}
            /\ \A e \in Watchdogs \ {d} :
                 dog'[e] = dog[e] /\ call'[e] = call[e] /\ owner'[e] = owner[e]
        BY <2>4, <2>5 DEF TypeOK
      <3>2. /\ h.state = "Expired" <=> h.issued
            /\ h.issued => d \in late
            /\ h.state # "Armed"
        BY <2>2, <2>8, <2>10 DEF StateInv
      <3>3. dog[d].state \in {"Armed", "Disarmed", "Expired"} /\ call[d].begun \in Nat
        BY <2>1 DEF WatchdogShared, WatchdogState, Calls
      <3>4. c.overran <=> h.state = "Expired"
        <4>1. CASE call[d].begun = 0
          BY <4>1, <2>2, <2>8, <2>11, <3>3 DEF StateInv
        <4>2. CASE call[d].begun # 0
          BY <4>2, <2>2, <2>8, <2>11, <3>3 DEF StateInv
        <4> QED
          BY <4>1, <4>2
      <3> QED
        BY <2>5, <2>13, <3>1, <3>2, <3>4 DEF StateInv
    <2>17. JoinInv'
      BY <2>1, <2>4, <2>5, <2>9 DEF TypeOK, JoinInv
    <2> QED
      BY <2>14, <2>15, <2>16, <2>17
  <1>6. ASSUME NEW d \in Watchdogs, Await(d) PROVE IInv'
    <2>1. TypeOK'
      BY <1>6 DEF Await, OwnerAt, TypeOK, WatchdogShared, WorkerPCs, OwnerPCs, Calls
    <2>2. TokenInv'
      BY <1>6 DEF Await, OwnerAt, TypeOK, WatchdogShared, Calls, TokenInv, StateInv, JoinInv,
         WorkerOwes, OwnerOwes
    <2>3. StateInv'
      BY <1>6 DEF Await, OwnerAt, TypeOK, WatchdogShared, Calls, StateInv
    <2>4. JoinInv'
      BY <1>6 DEF Await, OwnerAt, TypeOK, Calls, JoinInv
    <2> QED
      BY <2>1, <2>2, <2>3, <2>4
  <1>7. ASSUME NEW d \in Watchdogs, AwaitGivesUp(d) PROVE IInv'
    <2>1. TypeOK'
      BY <1>7 DEF AwaitGivesUp, TypeOK, WatchdogShared, WorkerPCs, OwnerPCs, Calls
    <2>2. TokenInv'
      BY <1>7 DEF AwaitGivesUp, TypeOK, WatchdogShared, Calls, TokenInv, StateInv, JoinInv,
         WorkerOwes, OwnerOwes
    <2>3. StateInv'
      BY <1>7 DEF AwaitGivesUp, TypeOK, WatchdogShared, Calls, StateInv
    <2>4. JoinInv'
      BY <1>7 DEF AwaitGivesUp, TypeOK, Calls, JoinInv
    <2> QED
      BY <2>1, <2>2, <2>3, <2>4
  <1>8. ASSUME NEW d \in Watchdogs, Join(d) PROVE IInv'
    <2>1. TypeOK'
      BY <1>8 DEF Join, OwnerAt, TypeOK, WatchdogShared, WorkerPCs, OwnerPCs, Calls
    <2>2. TokenInv'
      BY <1>8 DEF Join, OwnerAt, TypeOK, WatchdogShared, Calls, TokenInv, StateInv, JoinInv,
         WorkerOwes, OwnerOwes
    <2>3. StateInv'
      BY <1>8 DEF Join, OwnerAt, TypeOK, WatchdogShared, Calls, StateInv
    <2>4. JoinInv'
      BY <1>8 DEF Join, OwnerAt, TypeOK, Calls, JoinInv
    <2> QED
      BY <2>1, <2>2, <2>3, <2>4
  <1>9. ASSUME NEW d \in Watchdogs, Settle(d) PROVE IInv'
    <2>1. TypeOK'
      BY <1>9 DEF Settle, OwnerAt, Hook, TypeOK, WatchdogShared, WorkerPCs, OwnerPCs, Calls
    <2>2. TokenInv'
      BY <1>9 DEF Settle, OwnerAt, Hook, TypeOK, WatchdogShared, Calls, TokenInv, StateInv, JoinInv,
         WorkerOwes, OwnerOwes
    <2>3. StateInv'
      BY <1>9 DEF Settle, OwnerAt, Hook, TypeOK, WatchdogShared, Calls, StateInv
    <2>4. JoinInv'
      BY <1>9 DEF Settle, OwnerAt, Hook, TypeOK, Calls, JoinInv
    <2> QED
      BY <2>1, <2>2, <2>3, <2>4
  <1>10. ASSUME NEW d \in Watchdogs, Tick(d) PROVE IInv'
    <2>1. TypeOK'
      BY <1>10 DEF Tick, TypeOK, WatchdogShared, WorkerPCs, OwnerPCs, Calls
    <2>2. TokenInv'
      BY <1>10 DEF Tick, TypeOK, WatchdogShared, Calls, TokenInv, StateInv, JoinInv,
         WorkerOwes, OwnerOwes
    <2>3. StateInv'
      BY <1>10 DEF Tick, TypeOK, WatchdogShared, Calls, StateInv
    <2>4. JoinInv'
      BY <1>10 DEF Tick, TypeOK, Calls, JoinInv
    <2> QED
      BY <2>1, <2>2, <2>3, <2>4
  <1> QED
    BY <1>0, <1>1, <1>2, <1>3, <1>4, <1>5, <1>6, <1>7, <1>8, <1>9, <1>10
       DEF Next, Worker, WorkerStart, WorkerWake, WorkerWakeSpuriously, Owner

\* The inductive invariant holds in every reachable state.
THEOREM Invariance == Spec => []IInv
  BY InvInit, InvStep, PTL DEF Spec

\* The state stays well typed.
THEOREM TypeCorrect == Spec => []TypeOK
  <1>1. IInv => TypeOK
    BY DEF IInv
  <1> QED
    BY <1>1, Invariance, PTL

\* For any number of watchdogs the hook is called exactly once for an overrun
\* and never otherwise, whoever sees the deadline first.
THEOREM Overrun == Spec => []OverrunAborts
  <1>1. IInv => OverrunAborts
    <2> SUFFICES ASSUME IInv, NEW d \in Watchdogs
                 PROVE  /\ aborts[d] <= 1
                        /\ owner[d] = "returned" => (aborts[d] = 1 <=> call[d].overran)
      BY DEF OverrunAborts
    <2>1. aborts[d] \in {0, 1}
      BY DEF IInv, TokenInv
    <2>2. ASSUME owner[d] = "returned" PROVE aborts[d] = 1 <=> dog[d].issued
      BY <2>2 DEF IInv, TokenInv, JoinInv, WorkerOwes, OwnerOwes
    <2>3. ASSUME owner[d] = "returned" PROVE call[d].overran <=> dog[d].issued
      BY <2>3 DEF IInv, StateInv
    <2> QED
      BY <2>1, <2>2, <2>3
  <1> QED
    BY <1>1, Invariance, PTL

\* No watchdog whose disarm has returned ever calls the hook, until it is
\* disarmed again and then neither.
THEOREM Silence == Spec => SilentOnceDisarmed
  <1>1. IInv /\ [Next]_vars =>
          [\A d \in Watchdogs : owner[d] = "returned" => aborts'[d] = aborts[d]]_vars
    <2> SUFFICES ASSUME IInv, Next, NEW d \in Watchdogs, owner[d] = "returned"
                 PROVE  aborts'[d] = aborts[d]
      OBVIOUS
    <2>1. worker[d] = "over" /\ aborts \in [Watchdogs -> Nat]
      BY DEF IInv, JoinInv, TypeOK
    <2> QED
      BY <2>1 DEF Next, Worker, WorkerStart, WorkerWake, WorkerWakeSpuriously, Look,
         WorkerHook, WorkerFinish, Hook, Owner, OwnerAt, ArmReturns, Await, Join,
         Settle, Disarm, AwaitGivesUp, Tick
  <1> QED
    BY <1>1, Invariance, PTL DEF Spec, SilentOnceDisarmed

-----------------------------------------------------------------------------
(* One overlapped operation. *)

\* OverlappedEvent
Events ==
  {"Pending", "TimedOut", "CancelIssued", "CancelFailed", "Closed"} \cup Ends

\* One and two events with one more.
LEMMA Pair ==
  ASSUME NEW S, NEW a \in S, NEW b \in S
  PROVE  <<a>> \o <<b>> = <<a, b>>
  <1> DEFINE s == <<a>> \o <<b>>
             t == <<a, b>>
  <1>1. /\ s \in Seq(S) /\ t \in Seq(S) /\ Len(s) = 2 /\ Len(t) = 2
        /\ s[1] = a /\ s[2] = b /\ t[1] = a /\ t[2] = b
    OBVIOUS
  <1> HIDE DEF s, t
  <1>2. \A i \in 1..Len(s) : s[i] = t[i]
    BY <1>1
  <1>3. s = t
    BY <1>1, <1>2, SeqEqual
  <1> QED
    BY <1>3 DEF s, t

LEMMA Triple ==
  ASSUME NEW S, NEW a \in S, NEW b \in S, NEW c \in S
  PROVE  <<a, b>> \o <<c>> = <<a, b, c>>
  <1> DEFINE s == <<a, b>> \o <<c>>
             t == <<a, b, c>>
  <1>1. /\ s \in Seq(S) /\ t \in Seq(S) /\ Len(s) = 3 /\ Len(t) = 3
        /\ s[1] = a /\ s[2] = b /\ s[3] = c /\ t[1] = a /\ t[2] = b /\ t[3] = c
    OBVIOUS
  <1> HIDE DEF s, t
  <1>2. \A i \in 1..Len(s) : s[i] = t[i]
    BY <1>1
  <1>3. s = t
    BY <1>1, <1>2, SeqEqual
  <1> QED
    BY <1>3 DEF s, t

\* The events logged before CancelIoEx, and with its answer.
Waited(w) == IF w = "timeout" THEN <<"Pending", "TimedOut">> ELSE <<"Pending">>

Asked(w, answer) ==
  IF w = "timeout"
  THEN <<"Pending", "TimedOut", IF answer = "Succeeded" THEN "CancelIssued" ELSE "CancelFailed">>
  ELSE <<"Pending", IF answer = "Succeeded" THEN "CancelIssued" ELSE "CancelFailed">>

Reasons == {"timeout", "error"}

\* What is known of the operation and of the history at each point.
PointInv ==
  /\ pc = "issue" => trace = <<>> /\ kernel = "idle" /\ why = "none"
  /\ pc = "wait" => trace = <<"Pending">> /\ kernel # "idle" /\ why = "none"
  /\ pc \in {"issue", "wait", "cancel"} => cancel = "none"
  /\ pc = "cancel" => trace = Waited(why) /\ kernel # "idle"
  /\ pc \in {"cancel", "join", "verdict"} => why \in Reasons
  /\ pc \in {"join", "verdict"} =>
        /\ cancel \in {"Succeeded", "AlreadyComplete"} /\ trace = Asked(why, cancel)
        /\ cancel = "AlreadyComplete" => kernel \in Terminal
  /\ pc = "verdict" => kernel \in Terminal
  /\ returned # "none" => pc = "freed"

IoInv == IoTypeOK /\ PointInv /\ OutlivesOperation /\ CompletedIsReported

LEMMA IoInvInit == IoInit => IoInv
  BY DEF IoInit, IoInv, IoTypeOK, PointInv, OutlivesOperation, CompletedIsReported, Sides, Kinds,
     Kernels, Terminal, PCs, Cancels, Results

LEMMA IoInvStep == IoInv /\ [IoNext]_ioVars => IoInv'
  <1> SUFFICES ASSUME IoInv, [IoNext]_ioVars PROVE IoInv'
    OBVIOUS
  <1> USE DEF IoInv, IoTypeOK, PointInv, OutlivesOperation, CompletedIsReported, Sides, Kinds,
        Kernels, Terminal, PCs, Cancels, Results, Reasons
  <1>0. CASE UNCHANGED ioVars
    BY <1>0 DEF ioVars
  <1>1. CASE Issue
    <2>1. <<>> \o <<"Pending">> = <<"Pending">>
      BY ConcatEmptySeq
    <2> QED
      BY <1>1, <2>1 DEF Issue, Return, Log
  <1>2. CASE WaitCompletes
    BY <1>2 DEF WaitCompletes, Return
  <1>3. CASE WaitFails
    <2>1. <<"Pending">> \o <<"TimedOut">> = <<"Pending", "TimedOut">>
      <3>1. "Pending" \in Events /\ "TimedOut" \in Events
        BY DEF Events
      <3> QED
        BY <3>1, Pair
    <2> QED
      BY <1>3, <2>1 DEF WaitFails, Log, Waited
  <1>4. CASE Cancel
    <2>1. ASSUME NEW e \in {"CancelIssued", "CancelFailed"}
          PROVE  /\ <<"Pending">> \o <<e>> = <<"Pending", e>>
                 /\ <<"Pending", "TimedOut">> \o <<e>> = <<"Pending", "TimedOut", e>>
      <3>1. "Pending" \in Events /\ "TimedOut" \in Events /\ e \in Events
        BY <2>1 DEF Events
      <3> QED
        BY <3>1, Pair, Triple
    <2>2. trace = Waited(why) /\ why \in Reasons
      BY <1>4 DEF Cancel
    <2>3. ASSUME NEW e \in {"CancelIssued", "CancelFailed"}, Log(<<e>>)
          PROVE  trace' = IF why = "timeout" THEN <<"Pending", "TimedOut", e>> ELSE <<"Pending", e>>
      BY <2>1, <2>2, <2>3 DEF Log, Waited
    <2>4. CASE cancel' = "Succeeded"
      BY <1>4, <2>2, <2>3, <2>4 DEF Cancel, Asked
    <2>5. CASE cancel' = "AlreadyComplete"
      BY <1>4, <2>2, <2>3, <2>5 DEF Cancel, Asked
    <2>6. CASE cancel' = "Failed"
      BY <1>4, <2>6 DEF Cancel
    <2> QED
      BY <1>4, <2>4, <2>5, <2>6 DEF Cancel
  <1>5. CASE JoinIo
    BY <1>5 DEF JoinIo
  <1>6. CASE Verdict
    BY <1>6 DEF Verdict, Return, Abort
  <1>7. ASSUME NEW r \in Terminal, KernelEnds(r) PROVE IoInv'
    BY <1>7 DEF KernelEnds
  <1> QED
    BY <1>0, <1>1, <1>2, <1>3, <1>4, <1>5, <1>6, <1>7 DEF IoNext, Thread

\* The inductive invariant holds in every reachable state.
THEOREM IoInvariance == IoSpec => []IoInv
  BY IoInvInit, IoInvStep, PTL DEF IoSpec

\* The function returns only once the kernel is done with its buffer, its event
\* and its OVERLAPPED block, however the completion and the cancellation cross.
THEOREM Outlives == IoSpec => []OutlivesOperation
  <1>1. IoInv => OutlivesOperation
    BY DEF IoInv
  <1> QED
    BY <1>1, IoInvariance, PTL

\* A write of the client that has completed is never reported as unsent.
THEOREM CompletionReported == IoSpec => []CompletedIsReported
  <1>1. IoInv => CompletedIsReported
    BY DEF IoInv
  <1> QED
    BY <1>1, IoInvariance, PTL

\* A history the audit accepts: an end just before the close and nowhere else,
\* after a cancellation if the deadline passed.
LEMMA AcceptedHistory ==
  ASSUME NEW t \in Seq(Events), Len(t) >= 3, t[1] = "Pending", t[Len(t)] = "Closed",
         t[Len(t) - 1] \in Ends,
         \A i \in 1..(Len(t) - 2) : t[i] \notin Ends \cup {"Closed"},
         \/ \A i \in 1..(Len(t) - 2) : t[i] # "TimedOut"
         \/ t[Len(t) - 2] \in {"CancelIssued", "CancelFailed"}
  PROVE  ValidTrace(t)
  <1> DEFINE body == Front(t)
             n == Len(t) - 1
             ends == {i \in DOMAIN body : body[i] \in Ends}
  <1>1. /\ body \in Seq(Events) /\ Len(body) = n /\ n \in Nat /\ n >= 2
        /\ \A i \in 1..n : body[i] = t[i]
    BY DEF Front
  <1>2. t # <<>> /\ Head(t) = "Pending" /\ Last(t) = "Closed"
    BY DEF Last
  <1>3. ~Contains(body, "Closed")
    <2> SUFFICES ASSUME NEW i \in 1..n, t[i] = "Closed" PROVE FALSE
      BY <1>1 DEF Contains
    <2> QED
      BY <1>1 DEF Ends
  <1>4. ends = {n}
    BY <1>1
  <1>5. ASSUME Contains(t, "TimedOut")
        PROVE  \E i \in 1..(n - 1) : body[i] \in {"CancelIssued", "CancelFailed"}
    <2>1. PICK i \in 1..Len(t) : t[i] = "TimedOut"
      BY <1>5 DEF Contains
    <2>2. i \in 1..(Len(t) - 2) /\ Len(t) \in Nat
      BY <2>1, <1>1 DEF Ends
    <2>3. t[Len(t) - 2] \in {"CancelIssued", "CancelFailed"} /\ Len(t) - 2 \in 1..(n - 1)
      BY <2>1, <2>2
    <2>4. body[Len(t) - 2] = t[Len(t) - 2]
      BY <1>1, <2>2, <2>3
    <2> QED
      BY <2>3, <2>4
  <1> HIDE DEF body, n
  <1> QED
    BY <1>1, <1>2, <1>3, <1>4, <1>5 DEF ValidTrace, body

\* No function returns with a history that the audit rejects, and the client
\* cancels as its stated policy decides.
THEOREM PolicyFollowed == IoSpec => FollowsPolicy
  <1> DEFINE Policy ==
        pc # pc' /\ pc' \in {"freed", "dead"} =>
          /\ pc' = "freed" /\ trace' # <<>> => ValidTrace(trace')
          /\ side = "client" /\ cancel' # "none" =>
               LET d == Decision(kind, cancel', kernel \in Terminal, kernel)
               IN  /\ pc' = "dead" <=> d = "AbortProcess"
                   /\ returned' = "ok" <=> d = "Completed"
                   /\ returned' = "closed" <=> d = "PipeClosed"
  <1>1. IoInv /\ [IoNext]_ioVars => [Policy]_ioVars
    <2> SUFFICES ASSUME IoInv, IoNext, pc # pc', pc' \in {"freed", "dead"} PROVE Policy
      OBVIOUS
    <2> USE DEF IoInv, PointInv, Reasons
    <2>1. CASE Issue
      BY <2>1 DEF Issue, Return
    <2>2. CASE WaitCompletes
      <3> DEFINE t == <<"Pending">> \o <<"Completed", "Closed">>
      <3>1. trace' = t /\ cancel' = "none"
        BY <2>2 DEF WaitCompletes, Log
      <3>2. /\ "Pending" \in Events /\ "Completed" \in Events /\ "Closed" \in Events
            /\ "Completed" \in Ends
        BY DEF Events, Ends
      <3>3. t \in Seq(Events) /\ Len(t) = 3 /\ t[1] = "Pending" /\ t[2] = "Completed" /\ t[3] = "Closed"
        BY <3>2
      <3> HIDE DEF t
      <3>4. ValidTrace(t)
        <4>1. \A i \in 1..(Len(t) - 2) : t[i] \notin Ends \cup {"Closed"} /\ t[i] # "TimedOut"
          BY <3>3 DEF Ends
        <4>2. Len(t) >= 3 /\ t[Len(t)] = "Closed" /\ t[Len(t) - 1] \in Ends
          BY <3>2, <3>3
        <4> QED
          BY <3>3, <4>1, <4>2, AcceptedHistory
      <3> QED
        BY <3>1, <3>4
    <2>3. CASE WaitFails
      BY <2>3 DEF WaitFails
    <2>4. CASE Cancel
      BY <2>4 DEF Cancel, Decision, Terminal
    <2>5. CASE JoinIo
      BY <2>5 DEF JoinIo, Decision, Terminal
    <2>6. CASE Verdict
      <3>1. ASSUME pc' = "freed" PROVE ValidTrace(trace')
        <4> DEFINE a == IF cancel = "Succeeded" THEN "CancelIssued" ELSE "CancelFailed"
        <4>1. PICK e \in Ends : trace' = Asked(why, cancel) \o <<e, "Closed">>
          BY <2>6, <3>1 DEF Verdict, Closing, Log, Abort, Ends
        <4>2. /\ "Pending" \in Events /\ "TimedOut" \in Events /\ "Closed" \in Events
              /\ a \in Events /\ e \in Events /\ a \in {"CancelIssued", "CancelFailed"}
          BY DEF Events
        <4>3. Asked(why, cancel) = IF why = "timeout" THEN <<"Pending", "TimedOut", a>>
                                   ELSE <<"Pending", a>>
          BY DEF Asked
        <4> HIDE DEF a
        <4>4. CASE why = "timeout"
          <5> DEFINE t == <<"Pending", "TimedOut", a>> \o <<e, "Closed">>
          <5>1. /\ t \in Seq(Events) /\ Len(t) = 5 /\ t[1] = "Pending" /\ t[2] = "TimedOut"
                /\ t[3] = a /\ t[4] = e /\ t[5] = "Closed"
            BY <4>2
          <5> HIDE DEF t
          <5>2. ValidTrace(t)
            <6>1. \A i \in 1..(Len(t) - 2) : t[i] \notin Ends \cup {"Closed"}
              BY <4>2, <5>1 DEF Ends
            <6>2. /\ Len(t) >= 3 /\ t[Len(t)] = "Closed" /\ t[Len(t) - 1] \in Ends
                  /\ t[Len(t) - 2] \in {"CancelIssued", "CancelFailed"}
              BY <4>1, <4>2, <5>1
            <6> QED
              BY <5>1, <6>1, <6>2, AcceptedHistory
          <5> QED
            BY <4>1, <4>3, <4>4, <5>2 DEF t
        <4>5. CASE why = "error"
          <5> DEFINE t == <<"Pending", a>> \o <<e, "Closed">>
          <5>1. /\ t \in Seq(Events) /\ Len(t) = 4 /\ t[1] = "Pending" /\ t[2] = a
                /\ t[3] = e /\ t[4] = "Closed"
            BY <4>2
          <5> HIDE DEF t
          <5>2. ValidTrace(t)
            <6>1. \A i \in 1..(Len(t) - 2) : t[i] \notin Ends \cup {"Closed"}
              BY <4>2, <5>1 DEF Ends
            <6>2. /\ Len(t) >= 3 /\ t[Len(t)] = "Closed" /\ t[Len(t) - 1] \in Ends
                  /\ t[Len(t) - 2] \in {"CancelIssued", "CancelFailed"}
              BY <4>1, <4>2, <5>1
            <6> QED
              BY <5>1, <6>1, <6>2, AcceptedHistory
          <5> QED
            BY <4>1, <4>3, <4>5, <5>2 DEF t
        <4> QED
          BY <2>6, <4>4, <4>5 DEF Verdict
      <3>2. ASSUME side = "client"
            PROVE  LET d == Decision(kind, cancel', kernel \in Terminal, kernel)
                   IN  /\ pc' = "dead" <=> d = "AbortProcess"
                       /\ returned' = "ok" <=> d = "Completed"
                       /\ returned' = "closed" <=> d = "PipeClosed"
        BY <2>6, <3>2 DEF Verdict, Return, Abort, Decision, Terminal
      <3> QED
        BY <3>1, <3>2
    <2>7. ASSUME NEW r \in Terminal, KernelEnds(r) PROVE Policy
      BY <2>7 DEF KernelEnds
    <2> QED
      BY <2>1, <2>2, <2>3, <2>4, <2>5, <2>6, <2>7 DEF IoNext, Thread
  <1> QED
    BY <1>1, IoInvariance, PTL DEF IoSpec, FollowsPolicy

-----------------------------------------------------------------------------
\* A document that fits is written into one frame.
LEMMA Encoded ==
  ASSUME NEW type, NEW value
  PROVE  Encode(type, value) = IF Length(Frame(ToWriter(type, value))) <= MaxBytes
                               THEN <<Frame(ToWriter(type, value))>> ELSE <<>>
  BY DEF Encode, Then, When, Length, Frame

\* A frame is read as what its document is read as, or not at all; what is read
\* is written as the document it was read from.
LEMMA Decoded ==
  ASSUME NEW type, NEW f, NEW v, FromSlice(type, f.doc) = <<v>>
  PROVE  /\ Decode(type, f) \in {<<>>, <<v>>}
         /\ Decode(type, f) = <<v>> =>
              Scanned(f.doc) /\ ValueOf(f.doc) = ValueOf(ToWriter(type, v))
  <1>1. CASE /\ ~(\/ Length(f) > MaxBytes \/ f.held < 0
                  \/ f.said > MaxBytes - Prefix \/ f.said # f.held \/ ~Scanned(f.doc))
             /\ ValueOf(f.doc) = ValueOf(ToWriter(type, v))
    BY <1>1 DEF Decode, Then, When
  <1>2. CASE ~(/\ ~(\/ Length(f) > MaxBytes \/ f.held < 0
                  \/ f.said > MaxBytes - Prefix \/ f.said # f.held \/ ~Scanned(f.doc))
             /\ ValueOf(f.doc) = ValueOf(ToWriter(type, v)))
    BY <1>2 DEF Decode, Then, When
  <1> QED
    BY <1>1, <1>2

\* A document that is read as nothing, or is not scanned, is refused.
LEMMA Refused ==
  ASSUME NEW type, NEW f, FromSlice(type, f.doc) = <<>> \/ ~Scanned(f.doc)
  PROVE  Decode(type, f) = <<>>
  BY DEF Decode, Then

\* What is read is written as the document it was read from.
LEMMA Canonical ==
  ASSUME NEW type, NEW f, NEW v, Decode(type, f) = <<v>>
  PROVE  ValueOf(f.doc) = ValueOf(ToWriter(type, v))
  <1> DEFINE read == FromSlice(type, f.doc)
  <1>1. read # <<>> /\ ValueOf(f.doc) = ValueOf(ToWriter(type, read[1])) /\ <<v>> = <<read[1]>>
    BY DEF Decode, Then, When
  <1>2. v = read[1]
    BY <1>1
  <1> QED
    BY <1>1, <1>2

\* A frame nobody touched is read as what was written.
LEMMA Received ==
  ASSUME NEW type, NEW value, ReadBack(type, value),
         Length(Frame(ToWriter(type, value))) <= MaxBytes
  PROVE  Decode(type, Frame(ToWriter(type, value))) = <<value>>
  BY NumbersAssumption DEF Decode, Then, When, Length, Frame, ReadBack, Prefix

\* What a damaged frame holds.
LEMMA DamagedDocuments ==
  ASSUME NEW doc, NEW f \in DamagedFrames(Frame(doc))
  PROVE  \/ f.doc \in {doc, Garbled} \/ f.doc \in Misshapes(doc)
         \/ \E id \in {Other, NilId} : f.doc = Replaced(doc, "request_id", Text(id))
         \/ f.doc = Replaced(doc, "protocol_version", [num |-> ProtocolVersion + 1])
  <1> DEFINE g == Frame(doc)
  <1>1. g = [said |-> TextLength(doc), held |-> TextLength(doc), doc |-> doc]
    BY DEF Frame
  <1>2. CASE \E d \in Misshapes(doc) : f = Frame(d)
    BY <1>2 DEF Frame
  <1>3. CASE \/ f = [g EXCEPT !.held = @ - 1, !.doc = Garbled]
             \/ f = [g EXCEPT !.held = @ + 1, !.doc = Garbled]
             \/ f = [g EXCEPT !.doc = Garbled]
    BY <1>1, <1>3
  <1>4. CASE \/ f = [g EXCEPT !.said = @ + 1] \/ f = [g EXCEPT !.said = @ - 1]
             \/ f = [g EXCEPT !.said = MaxBytes]
    BY <1>1, <1>4
  <1>5. CASE \/ f = Frame(Replaced(doc, "request_id", Text(Other)))
             \/ f = Frame(Replaced(doc, "request_id", Text(NilId)))
             \/ f = Frame(Replaced(doc, "protocol_version", [num |-> ProtocolVersion + 1]))
    BY <1>5 DEF Frame
  <1>6. g.doc = doc
    BY <1>1
  <1> QED
    BY <1>2, <1>3, <1>4, <1>5, <1>6 DEF DamagedFrames

\* What a damaged frame is read as.
LEMMA DamagedIsRead ==
  ASSUME NEW type, NEW value, ReadBack(type, value), NotMisread(type, value),
         NEW f \in DamagedFrames(Frame(ToWriter(type, value)))
  PROVE  \/ Decode(type, f) \in {<<>>, <<value>>}
         \/ \E id \in {Other, NilId} : Decode(type, f) = << [value EXCEPT !.request_id = Text(id)] >>
         \/ Decode(type, f) = << [value EXCEPT !.protocol_version = ProtocolVersion + 1] >>
  <1> DEFINE doc == ToWriter(type, value)
  <1> HIDE DEF doc
  <1>0. \/ f.doc \in {doc, Garbled} \/ f.doc \in Misshapes(doc)
        \/ \E id \in {Other, NilId} : f.doc = Replaced(doc, "request_id", Text(id))
        \/ f.doc = Replaced(doc, "protocol_version", [num |-> ProtocolVersion + 1])
    BY DamagedDocuments DEF doc
  <1>1. CASE f.doc = Garbled
    BY <1>1, Refused, CodecAssumption
  <1>2. CASE f.doc = doc \/ f.doc \in Misshapes(doc)
    <2>1. FromSlice(type, f.doc) \in {<<>>, <<value>>}
      BY <1>2 DEF ReadBack, NotMisread, doc
    <2> QED
      BY <2>1, Refused, Decoded
  <1>3. ASSUME NEW id \in {Other, NilId}, f.doc = Replaced(doc, "request_id", Text(id))
        PROVE  Decode(type, f) \in {<<>>, << [value EXCEPT !.request_id = Text(id)] >>}
    <2>1. FromSlice(type, f.doc) \in {<<>>, << [value EXCEPT !.request_id = Text(id)] >>}
      BY <1>3 DEF NotMisread, doc
    <2> QED
      BY <2>1, Refused, Decoded
  <1>4. CASE f.doc = Replaced(doc, "protocol_version", [num |-> ProtocolVersion + 1])
    <2>1. FromSlice(type, f.doc)
            \in {<<>>, << [value EXCEPT !.protocol_version = ProtocolVersion + 1] >>}
      BY <1>4 DEF NotMisread, doc
    <2> QED
      BY <2>1, Refused, Decoded
  <1> QED
    BY <1>0, <1>1, <1>2, <1>3, <1>4

-----------------------------------------------------------------------------
\* Cutting a report down keeps its record, its stages and what its candidates
\* say of the target.
LEMMA ReportKept ==
  ASSUME NEW r \in Reports,
         \A i, j \in DOMAIN r.candidates :
           r.candidates[i].boot_id = r.candidates[j].boot_id => i = j
  PROVE  /\ CompactReport(r).record = r.record
         /\ CompactReport(r).stages = r.stages
         /\ TargetSupported(CompactReport(r)) <=> TargetSupported(r)
  <1> DEFINE first == CHOOSE i \in Recorded(r) : \A j \in Recorded(r) : i <= j
             few == When(Recorded(r) # {}, [r.candidates[first] EXCEPT !.description_utf16 = <<>>])
             c == [r EXCEPT !.candidates = few, !.diagnostics = <<>>]
  <1>1. CompactReport(r) = c
    BY DEF CompactReport
  <1> HIDE DEF first
  <1>2. /\ c.record = r.record /\ c.stages = r.stages /\ c.candidates = few
    BY DEF Reports
  <1> HIDE DEF c
  <1>3. CASE r.record.is = "Missing"
    BY <1>1, <1>2, <1>3 DEF TargetSupported
  <1>4. CASE r.record.is # "Missing" /\ Recorded(r) = {}
    <2>1. Recorded(c) = {}
      BY <1>2, <1>4 DEF Recorded, When
    <2> QED
      BY <1>1, <1>2, <1>4, <2>1 DEF TargetSupported
  <1>5. CASE r.record.is # "Missing" /\ Recorded(r) # {}
    <2>1. PICK k \in DOMAIN r.candidates : r.candidates[k].boot_id = r.record.with.boot_id
      BY <1>5 DEF Recorded
    <2>2. Recorded(r) = {k}
      BY <1>5, <2>1 DEF Recorded
    <2>3. r.candidates \in Seq(Candidates)
      BY DEF Reports
    <2>4. DOMAIN r.candidates \subseteq Nat
      BY <2>3, LenProperties
    <2>5. first = k
      BY <2>2, <2>4 DEF first
    <2>6. r.candidates[k] \in Candidates
      BY <2>1, <2>3, ElementOfSeq, LenProperties
    <2> DEFINE kept == [r.candidates[k] EXCEPT !.description_utf16 = <<>>]
    <2>7. /\ kept.boot_id = r.candidates[k].boot_id
          /\ kept.classification = r.candidates[k].classification
      BY <2>6 DEF Candidates
    <2>8. c.candidates = <<kept>>
      BY <1>2, <1>5, <2>5 DEF When
    <2> HIDE DEF kept
    <2>9. DOMAIN c.candidates = {1} /\ c.candidates[1] = kept
      BY <2>8
    <2>10. Recorded(c) = {1}
      BY <1>2, <1>5, <2>1, <2>7, <2>9 DEF Recorded
    <2> QED
      BY <1>1, <1>2, <1>5, <2>2, <2>7, <2>9, <2>10 DEF TargetSupported
  <1> QED
    BY <1>1, <1>2, <1>3, <1>4, <1>5

\* Few stages are kept as they are.
LEMMA StagesKept ==
  ASSUME NEW S, NEW stages \in Seq(S), Len(stages) <= MaxCompactStages
  PROVE  CompactStages(stages) = stages
  <1>1. Len(stages) \in Nat /\ \A i \in 1 .. Len(stages) : stages[i] \in S
    BY LenProperties, ElementOfSeq
  <1>2. CompactStages(stages) = SubSeq(stages, 1, Len(stages))
    BY <1>1, NumbersAssumption DEF CompactStages
  <1>3. /\ SubSeq(stages, 1, Len(stages)) \in Seq(S)
        /\ Len(SubSeq(stages, 1, Len(stages))) = IF 1 <= Len(stages) THEN Len(stages) - 1 + 1 ELSE 0
        /\ \A i \in 1 .. Len(stages) - 1 + 1 : SubSeq(stages, 1, Len(stages))[i] = stages[1 + i - 1]
    BY <1>1, SubSeqProperties
  <1>4. /\ Len(SubSeq(stages, 1, Len(stages))) = Len(stages)
        /\ \A i \in 1 .. Len(stages) : SubSeq(stages, 1, Len(stages))[i] = stages[i]
    BY <1>1, <1>3
  <1> QED
    BY <1>2, <1>3, <1>4, SeqEqual

\* An answer cut down is of the same kind and still the evidence the operator
\* must not lose; one that cannot be cut down has none.
LEMMA EvidenceKept ==
  ASSUME NEW o \in Outcomes, NEW request
  PROVE  \/ Compact(o.result) = <<>> /\ StagesOf(o.result) = <<>>
         \/ /\ StagesOf(o.result) # <<>>
            /\ \E told : /\ Compact(o.result) = <<told>>
                         /\ told.is = o.result.is
                         /\ Evidence(request, told) = Evidence(request, o.result)
  <1> DEFINE real == o.result
  <1>a. /\ real.is \in {"Ok", "Err"}
        /\ real.is = "Ok" =>
             /\ real.with \in Reports
             /\ \A i, j \in DOMAIN real.with.candidates :
                  real.with.candidates[i].boot_id = real.with.candidates[j].boot_id => i = j
        /\ IsFailure(real) =>
             /\ real.with.with.cause.is # "FlowFailure"
             /\ real.with.with.stages \in StageSeqs
             /\ Len(real.with.with.stages) <= MaxCompactStages
    BY OutcomesAssumption
  <1> HIDE DEF real
  <1>1. CASE StagesOf(real) = <<>>
    BY <1>1, <1>a DEF Compact, StagesOf, When, real
  <1>2. CASE StagesOf(real) # <<>> /\ real.is = "Ok"
    <2> DEFINE told == With("Ok", CompactReport(real.with))
    <2>1. Compact(real) = <<told>>
      BY <1>2 DEF Compact, StagesOf, When
    <2>2. /\ CompactReport(real.with).record = real.with.record
          /\ CompactReport(real.with).stages = real.with.stages
          /\ TargetSupported(CompactReport(real.with)) <=> TargetSupported(real.with)
      BY <1>2, <1>a, ReportKept
    <2>3. ValidateReport(request, CompactReport(real.with)) = ValidateReport(request, real.with)
      BY <2>2 DEF ValidateReport
    <2>4. told.is = "Ok" /\ told.with = CompactReport(real.with)
      BY DEF With
    <2> HIDE DEF told
    <2>5. Evidence(request, told) = Evidence(request, real)
      BY <1>2, <2>2, <2>3, <2>4 DEF Evidence, StagesOf
    <2> QED
      BY <1>2, <2>1, <2>4, <2>5 DEF real
  <1>3. CASE StagesOf(real) # <<>> /\ real.is = "Err"
    <2>1. real.with.is = "FlowFailure"
      BY <1>3 DEF StagesOf
    <2> DEFINE failure == real.with.with
               told == With("Err", With("FlowFailure", CompactFailure(failure)))
    <2>2. Compact(real) = <<told>>
      BY <1>3, <2>1 DEF Compact, StagesOf, When
    <2>3. told.is = "Err" /\ told.with.is = "FlowFailure" /\ told.with.with = CompactFailure(failure)
      BY DEF With
    <2>4. /\ failure.cause.is # "FlowFailure"
          /\ CompactStages(failure.stages) = failure.stages
      BY <1>3, <1>a, <2>1, StagesKept DEF IsFailure, StageSeqs
    <2>5. /\ CompactFailure(failure).stages = failure.stages
          /\ CompactFailure(failure).cause = failure.cause
      BY <2>4 DEF CompactFailure, CompactCause
    <2>6. /\ CompactFailure(failure).residual_assessment.is = failure.residual_assessment.is
          /\ failure.residual_assessment.is = "Observed" =>
               CompactFailure(failure).residual_assessment.with = failure.residual_assessment.with
      BY DEF CompactFailure, CompactResidualAssessment, With
    <2>7. CompactFailure(failure).rollback_assessment.is = failure.rollback_assessment.is
      BY DEF CompactFailure, CompactRollbackAssessment, With
    <2> HIDE DEF told, failure
    <2>8. Evidence(request, told) = Evidence(request, real)
      BY <1>3, <2>1, <2>3, <2>5, <2>6, <2>7 DEF Evidence, StagesOf, failure
    <2> QED
      BY <1>3, <2>2, <2>3, <2>8 DEF real
  <1> QED
    BY <1>1, <1>2, <1>3, <1>a DEF real

-----------------------------------------------------------------------------
\* The frames of this exchange.
RequestFrame(id, request) == Frame(ToWriter("WireRequest", WireRequest(id, request)))
ResponseFrame(id, result) == Frame(ToWriter("WireResponse", WireResponse(id, result)))

\* What the window may be told of a result.
Tells(told, real) ==
  \/ told = real
  \/ TooLarge(real) /\ StagesOf(real) = <<>> /\ told = ResourceLimited
  \/ TooLarge(real) /\ StagesOf(real) # <<>> /\ Compact(real) = <<told>>

\* The request is under way, whole or damaged.
RequestInv ==
  \/ frame = RequestFrame(Mine, asked)
  \/ damaged = TRUE /\ frame \in DamagedFrames(RequestFrame(Mine, asked))

\* The answer is under way, whole or damaged; or it is one for another
\* exchange, because the request was damaged.
ResponseInv ==
  /\ understood = <<asked>>
  /\ \E o \in Outcomes, id \in Ids :
       \E told \in Answers(o.result) :
         /\ outcome = <<o.result>>
         /\ Length(ResponseFrame(id, told)) <= MaxBytes
         /\ \/ frame = ResponseFrame(id, told) /\ (id = Mine \/ damaged = TRUE)
            \/ /\ id = Mine /\ damaged = TRUE
               /\ frame \in DamagedFrames(ResponseFrame(id, told))
         /\ id = Mine => Tells(told, o.result)

\* The inductive invariant.
ExchangeInv ==
  /\ damaged \in BOOLEAN
  /\ \E o \in Outcomes : asked = o.request
  /\ phase \in {"start", "hello", "request", "response", "failed"} => heard = <<>>
  /\ phase = "hello" => frame = EncodeHello \/ damaged = TRUE
  /\ phase = "request" => RequestInv
  /\ phase = "response" => ResponseInv
  /\ AnswerIsFaithful

\* The window understands the hello.
LEMMA HelloIsHeard ==
  EncodeHello = Frame(ToWriter("Hello", Hello)) /\ DecodeHello(EncodeHello)
  <1>1. EncodeHello = Frame(ToWriter("Hello", Hello))
    BY Encoded, BudgetAssumption DEF EncodeHello
  <1>2. Decode("Hello", Frame(ToWriter("Hello", Hello))) = <<Hello>>
    BY Received, CodecAssumption, BudgetAssumption
  <1> QED
    BY <1>1, <1>2 DEF DecodeHello

\* A request is one frame.
LEMMA RequestIsSent ==
  ASSUME NEW o \in Outcomes
  PROVE  EncodeRequestWithId(Mine, o.request) = <<RequestFrame(Mine, o.request)>>
  <1>1. Length(RequestFrame(Mine, o.request)) <= MaxBytes
    BY BudgetAssumption DEF Ids, RequestFrame
  <1> QED
    BY <1>1, Encoded, RequestIdAssumption DEF EncodeRequestWithId, RequestFrame, Ids

\* The helper reads what was asked, if it reads anything.
LEMMA RequestIsRead ==
  ASSUME NEW o \in Outcomes, NEW f
  PROVE  /\ f = RequestFrame(Mine, o.request) =>
              DecodeRequestEnvelope(f) = <<WireRequest(Mine, o.request)>>
         /\ f \in DamagedFrames(RequestFrame(Mine, o.request)) =>
              \/ DecodeRequestEnvelope(f) = <<>>
              \/ \E id \in {Mine, Other, NilId} :
                   DecodeRequestEnvelope(f) = <<WireRequest(id, o.request)>>
  <1> DEFINE value == WireRequest(Mine, o.request)
  <1>a. ReadBack("WireRequest", value) /\ NotMisread("WireRequest", value)
    BY CodecAssumption DEF Ids
  <1>b. Length(RequestFrame(Mine, o.request)) <= MaxBytes
    BY BudgetAssumption DEF Ids, RequestFrame
  <1>1. value = [protocol_version |-> ProtocolVersion, request_id |-> Text(Mine),
                 request |-> o.request]
    BY DEF WireRequest
  <1>2. ASSUME NEW id
        PROVE  [value EXCEPT !.request_id = Text(id)] = WireRequest(id, o.request)
    BY <1>1 DEF WireRequest
  <1>3. ASSUME NEW id, Decode("WireRequest", f) = <<WireRequest(id, o.request)>>
        PROVE  DecodeRequestEnvelope(f) = <<WireRequest(id, o.request)>>
    BY <1>3 DEF DecodeRequestEnvelope, Then, When, WireRequest
  <1>4. ASSUME Decode("WireRequest", f) = << [value EXCEPT !.protocol_version = ProtocolVersion + 1] >>
        PROVE  DecodeRequestEnvelope(f) = <<>>
    <2> DEFINE w == [value EXCEPT !.protocol_version = ProtocolVersion + 1]
    <2>1. w.protocol_version # ProtocolVersion
      BY <1>1, NumbersAssumption
    <2>2. Decode("WireRequest", f) = <<w>>
      BY <1>4
    <2> HIDE DEF w
    <2> QED
      BY <2>1, <2>2 DEF DecodeRequestEnvelope, Then, When
  <1>5. ASSUME Decode("WireRequest", f) = <<>>
        PROVE  DecodeRequestEnvelope(f) = <<>>
    BY <1>5 DEF DecodeRequestEnvelope, Then
  <1>6. ASSUME f = RequestFrame(Mine, o.request)
        PROVE  DecodeRequestEnvelope(f) = <<WireRequest(Mine, o.request)>>
    BY <1>6, <1>3, <1>a, <1>b, Received DEF RequestFrame
  <1>7. ASSUME f \in DamagedFrames(RequestFrame(Mine, o.request))
        PROVE  \/ DecodeRequestEnvelope(f) = <<>>
               \/ \E id \in {Mine, Other, NilId} :
                    DecodeRequestEnvelope(f) = <<WireRequest(id, o.request)>>
    <2>1. \/ Decode("WireRequest", f) \in {<<>>, <<value>>}
          \/ \E id \in {Other, NilId} :
               Decode("WireRequest", f) = << [value EXCEPT !.request_id = Text(id)] >>
          \/ Decode("WireRequest", f) = << [value EXCEPT !.protocol_version = ProtocolVersion + 1] >>
      BY <1>7, <1>a, DamagedIsRead DEF RequestFrame
    <2> HIDE DEF value
    <2>2. CASE Decode("WireRequest", f) = <<value>>
      BY <2>2, <1>3 DEF value
    <2>3. ASSUME NEW id \in {Other, NilId},
                 Decode("WireRequest", f) = << [value EXCEPT !.request_id = Text(id)] >>
          PROVE  DecodeRequestEnvelope(f) = <<WireRequest(id, o.request)>>
      BY <2>3, <1>2, <1>3
    <2> QED
      BY <2>1, <2>2, <2>3, <1>4, <1>5
  <1> QED
    BY <1>6, <1>7

\* The window hears what it was told, if it hears anything.
LEMMA ResponseIsHeard ==
  ASSUME NEW o \in Outcomes, NEW told \in Answers(o.result), NEW f,
         Length(ResponseFrame(Mine, told)) <= MaxBytes
  PROVE  /\ f = ResponseFrame(Mine, told) => DecodeResponseFor(f, Mine) = <<told>>
         /\ f \in DamagedFrames(ResponseFrame(Mine, told)) =>
              DecodeResponseFor(f, Mine) \in {<<>>, <<told>>}
         /\ DecodeResponseFor(f, Mine) = <<told>> /\ f \in {ResponseFrame(Mine, told)}
              \union DamagedFrames(ResponseFrame(Mine, told))
              => ValueOf(f.doc) = ValueOf(Whole(told))
  <1> DEFINE value == WireResponse(Mine, told)
  <1>a. ReadBack("WireResponse", value) /\ NotMisread("WireResponse", value)
    BY CodecAssumption DEF Ids
  <1>1. value = [protocol_version |-> ProtocolVersion, request_id |-> Text(Mine), result |-> told]
    BY DEF WireResponse
  <1>2. ASSUME NEW id \in {Other, NilId}
        PROVE  [value EXCEPT !.request_id = Text(id)].request_id # Text(Mine)
    <2>1. Text(id).str = id /\ Text(Mine).str = Mine
      BY DEF Text
    <2>2. id # Mine
      BY RequestIdAssumption DEF Ids
    <2>3. [value EXCEPT !.request_id = Text(id)].request_id = Text(id)
      BY <1>1
    <2> QED
      BY <2>1, <2>2, <2>3
  <1>3. [value EXCEPT !.protocol_version = ProtocolVersion + 1].protocol_version # ProtocolVersion
    BY <1>1, NumbersAssumption
  <1>4. value.protocol_version = ProtocolVersion /\ value.request_id = Text(Mine)
        /\ value.result = told
    BY <1>1
  <1> HIDE DEF value
  <1>5. ASSUME Decode("WireResponse", f) = <<value>>
        PROVE  DecodeResponseFor(f, Mine) = <<told>>
    BY <1>5, <1>4 DEF DecodeResponseFor, Then, When
  <1>6. ASSUME NEW w, Decode("WireResponse", f) = <<w>>,
               w.protocol_version # ProtocolVersion \/ w.request_id # Text(Mine)
        PROVE  DecodeResponseFor(f, Mine) = <<>>
    BY <1>6 DEF DecodeResponseFor, Then, When
  <1>7. ASSUME Decode("WireResponse", f) = <<>>
        PROVE  DecodeResponseFor(f, Mine) = <<>>
    BY <1>7 DEF DecodeResponseFor, Then
  <1>8. ASSUME f = ResponseFrame(Mine, told)
        PROVE  Decode("WireResponse", f) = <<value>>
    BY <1>8, <1>a, Received DEF ResponseFrame, value
  <1>9. ASSUME f \in DamagedFrames(ResponseFrame(Mine, told))
        PROVE  Decode("WireResponse", f) = <<value>> \/ DecodeResponseFor(f, Mine) = <<>>
    <2>1. \/ Decode("WireResponse", f) \in {<<>>, <<value>>}
          \/ \E id \in {Other, NilId} :
               Decode("WireResponse", f) = << [value EXCEPT !.request_id = Text(id)] >>
          \/ Decode("WireResponse", f) = << [value EXCEPT !.protocol_version = ProtocolVersion + 1] >>
      BY <1>9, <1>a, DamagedIsRead DEF ResponseFrame, value
    <2>2. ASSUME NEW id \in {Other, NilId},
                 Decode("WireResponse", f) = << [value EXCEPT !.request_id = Text(id)] >>
          PROVE  DecodeResponseFor(f, Mine) = <<>>
      BY <2>2, <1>2, <1>6
    <2>3. CASE Decode("WireResponse", f) = << [value EXCEPT !.protocol_version = ProtocolVersion + 1] >>
      BY <2>3, <1>3, <1>6
    <2> QED
      BY <2>1, <2>2, <2>3, <1>7
  <1>10. ASSUME Decode("WireResponse", f) = <<value>>
         PROVE  ValueOf(f.doc) = ValueOf(Whole(told))
    BY <1>10, Canonical DEF Whole, value
  <1> QED
    BY <1>5, <1>8, <1>9, <1>10

\* An answer to another exchange is none.
LEMMA ForeignIsUnheard ==
  ASSUME NEW o \in Outcomes, NEW told \in Answers(o.result),
         Length(ResponseFrame(Other, told)) <= MaxBytes
  PROVE  DecodeResponseFor(ResponseFrame(Other, told), Mine) = <<>>
  <1> DEFINE value == WireResponse(Other, told)
  <1>1. Decode("WireResponse", ResponseFrame(Other, told)) = <<value>>
    BY Received, CodecAssumption DEF ResponseFrame, Ids
  <1>2. value.request_id = Text(Other)
    BY DEF WireResponse
  <1>3. Text(Other) # Text(Mine)
    <2>1. Text(Other).str = Other /\ Text(Mine).str = Mine
      BY DEF Text
    <2> QED
      BY <2>1, RequestIdAssumption
  <1> HIDE DEF value
  <1> QED
    BY <1>1, <1>2, <1>3 DEF DecodeResponseFor, Then, When

\* The helper answers with the whole result, or else with what is cut down
\* from it, or else with the plain error.
LEMMA AnswerFits ==
  ASSUME NEW o \in Outcomes, NEW id \in Ids
  PROVE  \E told \in Answers(o.result) :
           /\ BudgetedResponseWithId(id, o.result, Length(EncodeHello)) = <<ResponseFrame(id, told)>>
           /\ Length(ResponseFrame(id, told)) <= MaxBytes
           /\ \/ told = o.result
              \/ /\ Length(ResponseFrame(id, o.result)) + Length(EncodeHello) > MaxBytes
                 /\ IF Compact(o.result) = <<>> THEN told = ResourceLimited
                    ELSE told = Compact(o.result)[1]
  <1> DEFINE used == Length(EncodeHello)
             Response(r) == EncodeResponseWithId(id, r)
             Fitting(response) ==
               When(response # <<>> /\ Length(response[1]) <= MaxBytes - used, response[1])
             compact == Then(Compact(o.result), LAMBDA r : EncodeResponseWithId(id, r))
             fallback == IF compact # <<>> THEN compact ELSE Response(ResourceLimited)
             whole == Fitting(Response(o.result))
             answer == BudgetedResponseWithId(id, o.result, used)
  <1>1. answer = IF whole # <<>> THEN whole ELSE Fitting(fallback)
    BY DEF BudgetedResponseWithId
  <1>2. \A r \in Answers(o.result) : Length(ResponseFrame(id, r)) \in Nat
    BY CodecAssumption DEF ResponseFrame, ReadBack, Length, Frame, Prefix
  <1>3. used \in Nat
    BY HelloIsHeard, CodecAssumption DEF ReadBack, Length, Frame, Prefix
  <1>4. \A r : Response(r) = IF Length(ResponseFrame(id, r)) <= MaxBytes
                            THEN <<ResponseFrame(id, r)>> ELSE <<>>
    BY Encoded, RequestIdAssumption DEF EncodeResponseWithId, ResponseFrame
  <1>5. \A r \in {ResourceLimited} \union ToSet(Compact(o.result)) :
          Length(ResponseFrame(id, r)) + used <= MaxBytes
    BY BudgetAssumption, HelloIsHeard DEF ResponseFrame
  <1>6. \A f : Fitting(<<f>>) = IF Length(f) <= MaxBytes - used THEN <<f>> ELSE <<>>
    BY DEF When
  <1>7. Fitting(<<>>) = <<>>
    BY DEF When
  <1>8. compact = IF Compact(o.result) = <<>> THEN <<>> ELSE Response(Compact(o.result)[1])
    BY DEF Then
  <1>9. \/ Compact(o.result) = <<>>
        \/ Compact(o.result)[1] \in ToSet(Compact(o.result))
    BY DEF Compact, When, ToSet
  <1> HIDE DEF used, Response, Fitting, compact, whole, answer
  <1>10. CASE Length(ResponseFrame(id, o.result)) <= MaxBytes - used
    <2>1. o.result \in Answers(o.result)
      BY DEF Answers
    <2>2. Length(ResponseFrame(id, o.result)) <= MaxBytes
      BY <1>2, <1>3, <1>10, <2>1, NumbersAssumption
    <2>3. whole = <<ResponseFrame(id, o.result)>>
      BY <1>4, <1>6, <1>10, <2>2 DEF whole
    <2> QED
      BY <1>1, <2>1, <2>2, <2>3 DEF answer, used
  <1>11. CASE ~(Length(ResponseFrame(id, o.result)) <= MaxBytes - used)
    <2>1. whole = <<>>
      BY <1>4, <1>6, <1>7, <1>11 DEF whole
    <2>2. Length(ResponseFrame(id, o.result)) + used > MaxBytes
      BY <1>2, <1>3, <1>11, NumbersAssumption DEF Answers
    <2> DEFINE told == IF Compact(o.result) = <<>> THEN ResourceLimited ELSE Compact(o.result)[1]
    <2>3. told \in {ResourceLimited} \union ToSet(Compact(o.result))
      BY <1>9
    <2>4. told \in Answers(o.result)
      BY <2>3 DEF Answers
    <2>5. /\ Length(ResponseFrame(id, told)) <= MaxBytes
          /\ Length(ResponseFrame(id, told)) <= MaxBytes - used
      BY <1>2, <1>3, <1>5, <2>3, <2>4, NumbersAssumption
    <2>6. Response(told) = <<ResponseFrame(id, told)>>
      BY <1>4, <2>5
    <2>7. fallback = Response(told)
      <3>1. CASE Compact(o.result) = <<>>
        BY <1>8, <3>1
      <3>2. CASE Compact(o.result) # <<>>
        <4>1. told = Compact(o.result)[1]
          BY <3>2
        <4> HIDE DEF told
        <4>2. compact = Response(told)
          BY <1>8, <3>2, <4>1
        <4>3. compact # <<>>
          BY <2>6, <4>2
        <4> QED
          BY <4>2, <4>3
      <3> QED
        BY <3>1, <3>2
    <2>8. answer = <<ResponseFrame(id, told)>>
      BY <1>1, <1>6, <2>1, <2>5, <2>6, <2>7
    <2> QED
      BY <2>2, <2>4, <2>5, <2>8 DEF answer, used
  <1> QED
    BY <1>10, <1>11

\* No answer goes out for an id that is none.
LEMMA NilIsUnanswered ==
  ASSUME NEW result, NEW used
  PROVE  BudgetedResponseWithId(NilId, result, used) = <<>>
  <1>1. \A r : EncodeResponseWithId(NilId, r) = <<>>
    BY RequestIdAssumption DEF EncodeResponseWithId
  <1> QED
    BY <1>1 DEF BudgetedResponseWithId, Then, When

-----------------------------------------------------------------------------
\* Every initial state satisfies the invariant.
LEMMA ExchangeInit == ResponseExchangeInit => ExchangeInv
  BY DEF ResponseExchangeInit, ExchangeInv, AnswerIsFaithful

\* Every step preserves it.
LEMMA ExchangeStep == ExchangeInv /\ [ResponseExchangeNext]_exchangeVars => ExchangeInv'
  <1> SUFFICES ASSUME ExchangeInv, [ResponseExchangeNext]_exchangeVars
               PROVE  ExchangeInv'
    OBVIOUS
  <1>a. PICK o \in Outcomes : asked = o.request
    BY DEF ExchangeInv
  <1>b. /\ damaged \in BOOLEAN
        /\ phase \in {"start", "hello", "request", "response", "failed"} => heard = <<>>
        /\ phase = "hello" => frame = EncodeHello \/ damaged = TRUE
        /\ phase = "request" => RequestInv
        /\ phase = "response" => ResponseInv
    BY DEF ExchangeInv
  <1>1. CASE UNCHANGED exchangeVars
    <2>1. UNCHANGED <<phase, asked, frame, damaged, understood, outcome, heard>>
      BY <1>1 DEF exchangeVars
    <2>2. RequestInv' <=> RequestInv
      BY <2>1 DEF RequestInv
    <2>3. ResponseInv => ResponseInv'
      BY <2>1 DEF ResponseInv
    <2>4. AnswerIsFaithful' <=> AnswerIsFaithful
      BY <2>1 DEF AnswerIsFaithful
    <2> QED
      BY <2>1, <2>2, <2>3, <2>4 DEF ExchangeInv
  <1>2. CASE Greet
    <2>1. AnswerIsFaithful'
      BY <1>2, <1>b DEF Greet, AnswerIsFaithful
    <2> QED
      BY <1>2, <1>a, <1>b, <2>1 DEF Greet, ExchangeInv
  <1>3. CASE Ask
    <2>1. UNCHANGED <<asked, damaged, heard>> /\ phase = "hello" /\ heard = <<>>
      BY <1>3, <1>b DEF Ask
    <2>2. CASE DecodeHello(frame)
      <3>1. phase' = "request" /\ frame' = RequestFrame(Mine, asked)
        BY <1>3, <1>a, <2>2, RequestIsSent DEF Ask
      <3>2. RequestInv'
        BY <2>1, <3>1 DEF RequestInv, RequestFrame, WireRequest
      <3>3. AnswerIsFaithful'
        BY <2>1, <3>1 DEF AnswerIsFaithful
      <3> QED
        BY <1>a, <1>b, <2>1, <3>1, <3>2, <3>3 DEF ExchangeInv
    <2>3. CASE ~DecodeHello(frame)
      <3>1. phase' = "failed"
        BY <1>3, <2>3 DEF Ask
      <3>2. damaged = TRUE
        BY <1>b, <2>1, <2>3, HelloIsHeard
      <3>3. AnswerIsFaithful'
        BY <2>1, <3>1, <3>2 DEF AnswerIsFaithful
      <3> QED
        BY <1>a, <1>b, <2>1, <3>1, <3>3 DEF ExchangeInv
    <2> QED
      BY <2>2, <2>3
  <1>4. CASE Answer
    <2>1. UNCHANGED <<asked, damaged, heard>> /\ phase = "request" /\ heard = <<>> /\ RequestInv
      BY <1>4, <1>b DEF Answer
    <2> DEFINE Read == DecodeRequestEnvelope(frame)
    <2>2. \/ Read = <<>> /\ damaged = TRUE
          \/ \E id \in {Mine, Other, NilId} :
               Read = <<WireRequest(id, asked)>> /\ (id = Mine \/ damaged = TRUE)
      BY <1>a, <2>1, RequestIsRead DEF RequestInv
    <2> HIDE DEF Read
    <2>3. CASE phase' = "failed" /\ damaged = TRUE
      <3>1. AnswerIsFaithful'
        BY <2>1, <2>3 DEF AnswerIsFaithful
      <3> QED
        BY <1>a, <1>b, <2>1, <2>3, <3>1 DEF ExchangeInv
    <2>4. CASE Read = <<>>
      BY <1>4, <2>2, <2>3, <2>4 DEF Answer, Read, ToSet
    <2>5. ASSUME NEW id \in {Mine, Other, NilId}, Read = <<WireRequest(id, asked)>>,
                 id = Mine \/ damaged = TRUE
          PROVE  ExchangeInv'
      <3> DEFINE envelope == WireRequest(id, asked)
      <3>1. envelope.request_id.str = id /\ envelope.request = asked
        BY DEF WireRequest, Text
      <3> HIDE DEF envelope
      <3>2. ToSet(Read) = {envelope} /\ Read # <<>>
        BY <2>5 DEF ToSet, envelope
      <3>3. PICK p \in Outcomes :
              /\ p.request = asked
              /\ understood' = <<asked>> /\ outcome' = <<p.result>>
              /\ \E answer \in {BudgetedResponseWithId(id, p.result, Length(EncodeHello))} :
                   /\ phase' = IF answer = <<>> THEN "failed" ELSE "response"
                   /\ frame' = IF answer = <<>> THEN <<>> ELSE answer[1]
        BY <1>4, <3>1, <3>2 DEF Answer, Read
      <3>4. CASE id = NilId
        <4>1. damaged = TRUE
          BY <2>5, <3>4, RequestIdAssumption DEF Ids
        <4> QED
          BY <2>3, <3>3, <3>4, <4>1, NilIsUnanswered
      <3>5. CASE id \in Ids
        <4>1. PICK told \in Answers(p.result) :
                /\ BudgetedResponseWithId(id, p.result, Length(EncodeHello)) = <<ResponseFrame(id, told)>>
                /\ Length(ResponseFrame(id, told)) <= MaxBytes
                /\ \/ told = p.result
                   \/ /\ Length(ResponseFrame(id, p.result)) + Length(EncodeHello) > MaxBytes
                      /\ IF Compact(p.result) = <<>> THEN told = ResourceLimited
                         ELSE told = Compact(p.result)[1]
          BY <3>5, AnswerFits
        <4>2. phase' = "response" /\ frame' = ResponseFrame(id, told)
          BY <3>3, <4>1
        <4>3. ASSUME id = Mine
              PROVE  Tells(told, p.result)
          <5>1. CASE told = p.result
            BY <5>1 DEF Tells
          <5>2. CASE told # p.result
            <6>1. TooLarge(p.result)
              BY <4>1, <4>3, <5>2 DEF TooLarge, Whole, ResponseFrame
            <6>2. CASE Compact(p.result) = <<>> /\ StagesOf(p.result) = <<>>
              BY <4>1, <5>2, <6>1, <6>2 DEF Tells
            <6>3. ASSUME NEW cut, StagesOf(p.result) # <<>>, Compact(p.result) = <<cut>>
                  PROVE  Tells(told, p.result)
              <7>1. told = cut
                BY <4>1, <5>2, <6>3
              <7> QED
                BY <6>1, <6>3, <7>1 DEF Tells
            <6> QED
              BY <6>2, <6>3, EvidenceKept
          <5> QED
            BY <5>1, <5>2
        <4>4. ResponseInv'
          BY <2>1, <2>5, <3>3, <3>5, <4>1, <4>2, <4>3 DEF ResponseInv
        <4>5. AnswerIsFaithful'
          BY <2>1, <4>2 DEF AnswerIsFaithful
        <4> QED
          BY <1>a, <1>b, <2>1, <4>2, <4>4, <4>5 DEF ExchangeInv
      <3> QED
        BY <3>4, <3>5 DEF Ids
    <2> QED
      BY <2>2, <2>4, <2>5
  <1>5. CASE Deliver
    <2>1. /\ UNCHANGED <<asked, frame, damaged, understood, outcome>> /\ phase = "response"
          /\ phase' = "done" /\ heard' = DecodeResponseFor(frame, Mine) /\ ResponseInv
      BY <1>5, <1>b DEF Deliver
    <2>2. PICK p \in Outcomes, id \in Ids : \E told \in Answers(p.result) :
            /\ outcome = <<p.result>>
            /\ Length(ResponseFrame(id, told)) <= MaxBytes
            /\ id = Mine => Tells(told, p.result)
            /\ \/ frame = ResponseFrame(id, told) /\ (id = Mine \/ damaged = TRUE)
               \/ /\ id = Mine /\ damaged = TRUE
                  /\ frame \in DamagedFrames(ResponseFrame(id, told))
      BY <2>1 DEF ResponseInv
    <2>3. PICK told \in Answers(p.result) :
            /\ outcome = <<p.result>>
            /\ Length(ResponseFrame(id, told)) <= MaxBytes
            /\ id = Mine => Tells(told, p.result)
            /\ \/ frame = ResponseFrame(id, told) /\ (id = Mine \/ damaged = TRUE)
               \/ /\ id = Mine /\ damaged = TRUE
                  /\ frame \in DamagedFrames(ResponseFrame(id, told))
      BY <2>2
    <2>4. CASE id = Mine
      <3>1. /\ heard' \in {<<>>, <<told>>}
            /\ heard' = <<>> => damaged = TRUE
            /\ heard' = <<told>> => ValueOf(frame.doc) = ValueOf(Whole(told))
        BY <2>1, <2>3, <2>4, ResponseIsHeard
      <3>2. understood' = <<asked>>' /\ outcome' = <<p.result>>
        BY <2>1, <2>3 DEF ResponseInv
      <3>3. \/ told = p.result
            \/ TooLarge(p.result) /\ StagesOf(p.result) = <<>> /\ told = ResourceLimited
            \/ /\ TooLarge(p.result) /\ StagesOf(p.result) # <<>>
               /\ told.is = p.result.is /\ Evidence(asked, told) = Evidence(asked, p.result)
        <4>1. CASE TooLarge(p.result) /\ StagesOf(p.result) # <<>> /\ Compact(p.result) = <<told>>
          BY <4>1, EvidenceKept
        <4> QED
          BY <2>3, <2>4, <4>1 DEF Tells
      <3>4. AnswerIsFaithful'
        BY <2>1, <3>1, <3>2, <3>3 DEF AnswerIsFaithful
      <3> QED
        BY <1>a, <1>b, <2>1, <3>4 DEF ExchangeInv
    <2>5. CASE id # Mine
      <3>1. heard' = <<>> /\ damaged = TRUE
        BY <2>1, <2>3, <2>5, ForeignIsUnheard DEF Ids
      <3>2. AnswerIsFaithful'
        BY <2>1, <3>1 DEF AnswerIsFaithful
      <3> QED
        BY <1>a, <1>b, <2>1, <3>2 DEF ExchangeInv
    <2> QED
      BY <2>4, <2>5
  <1>6. CASE Damage
    <2>1. /\ UNCHANGED <<phase, asked, understood, outcome, heard>> /\ damaged = FALSE
          /\ phase \in {"hello", "request", "response"} /\ heard = <<>>
          /\ damaged' = TRUE /\ frame' \in DamagedFrames(frame)
      BY <1>6, <1>b DEF Damage
    <2>2. phase = "request" => RequestInv'
      BY <1>b, <2>1 DEF RequestInv, RequestFrame, WireRequest
    <2>3. ASSUME phase = "response" PROVE ResponseInv'
      <3>1. PICK p \in Outcomes, id \in Ids : \E told \in Answers(p.result) :
              /\ outcome = <<p.result>>
              /\ Length(ResponseFrame(id, told)) <= MaxBytes
              /\ id = Mine => Tells(told, p.result)
              /\ frame = ResponseFrame(id, told) /\ id = Mine
        BY <1>b, <2>1, <2>3 DEF ResponseInv
      <3>2. PICK told \in Answers(p.result) :
              /\ outcome = <<p.result>>
              /\ Length(ResponseFrame(id, told)) <= MaxBytes
              /\ Tells(told, p.result)
              /\ frame = ResponseFrame(id, told) /\ id = Mine
        BY <3>1
      <3>3. understood' = <<asked>>'
        BY <1>b, <2>1, <2>3 DEF ResponseInv
      <3> QED
        BY <2>1, <3>2, <3>3 DEF ResponseInv
    <2>4. AnswerIsFaithful'
      BY <2>1 DEF AnswerIsFaithful
    <2> QED
      BY <1>a, <1>b, <2>1, <2>2, <2>3, <2>4 DEF ExchangeInv
  <1> QED
    BY <1>1, <1>2, <1>3, <1>4, <1>5, <1>6 DEF ResponseExchangeNext

\* An exchange nobody disturbs is answered, and whatever one frame was changed
\* to, the window hears nothing or an answer to what it asked that keeps all
\* evidence of the result, for any outcomes, budget and codec that reads back
\* what it writes (decode_response_for, budgeted_response_with_id).
THEOREM FaithfulAnswers == ResponseExchangeSpec => []AnswerIsFaithful
  <1>1. ExchangeInv => AnswerIsFaithful
    BY DEF ExchangeInv
  <1> QED
    BY <1>1, ExchangeInit, ExchangeStep, PTL DEF ResponseExchangeSpec

=============================================================================
