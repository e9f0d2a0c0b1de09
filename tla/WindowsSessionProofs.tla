------------------------ MODULE WindowsSessionProofs ------------------------
(***************************************************************************)
(* Safety of WindowsSession for any number of overlapping exchanges, and   *)
(* that they keep the promises of Exchange.                                *)
(***************************************************************************)
EXTENDS WindowsSession, TLAPS

\* Control points before the operation, and from its first to its last.
Before == {"absent", "prompt", "start", "rearm", "hello", "receive", "create", "wait"}

\* Control points at which the request has been received.
Received == {"create", "wait", "run", "respond", "release"}

\* The owner of the mutex, the helpers that run and the handles of the object
\* describe each other; an abandoned mutex has no owner.
MutexInv ==
  /\ mutex.abandoned # None => mutex.owner = None
  /\ mutex.owner # None =>
       helper[mutex.owner] \in {"run", "respond", "release", "close", "exit"}
  /\ \A s \in Sessions :
       /\ helper[s] = "wait" => s \in mutex.handles
       /\ Phase(s) = "running" \/ helper[s] = "release" => Guarded(s)

\* Only a request that was written in full is received and run, and its client
\* does not forget that it was.
RequestInv ==
  \A s \in Sessions :
    /\ helper[s] \in Received \/ s \in executed => request[s] = "full"
    /\ request[s] = "full" => s \in committed
    /\ client[s] = "idle" => helper[s] = "absent"
    /\ s \in committed =>
         \/ client[s] \in {"await", "aborted"}
         \/ client[s] \in {"stop", "done"} /\ outcome[s] \notin NotSent

\* What the helper answers, and what the exit status and the client make of it.
ReplyInv ==
  \A s \in Sessions :
    /\ reply[s] = "report" <=> s \in executed
    /\ helper[s] \in Before \cup {"run"} => reply[s] = "none"
    /\ s \in sent \/ helper[s] = "respond" => reply[s] # "none"
    /\ status[s] = "ok" => helper[s] = "gone" /\ s \in sent
    /\ outcome[s] = "answer" => status[s] = "ok" /\ decoded[s] = reply[s]

\* The next wait does not simply succeed: the mutex is abandoned, or owned by a
\* helper that was told so and will not release it.
Tainted ==
  \/ mutex.abandoned # None
  \/ mutex.owner # None /\ mutex.owner \notin mutex.handles

\* A helper that saw an operation cut off has not run, and waits for a mutex
\* that will not let it.
WitnessInv ==
  \A s \in witness :
    /\ s \notin executed
    /\ helper[s] \in {"wait", "respond", "release", "close", "exit", "gone"}
    /\ helper[s] = "wait" => Tainted

\* The inductive invariant.
IInv == TypeOK /\ MutexInv /\ RequestInv /\ ReplyInv /\ WitnessInv

USE NoneAssumption

-----------------------------------------------------------------------------

\* Every initial state satisfies the invariant.
LEMMA InvInit == Init => IInv
  BY DEF Init, IInv, TypeOK, MutexInv, RequestInv, ReplyInv, WitnessInv, Phase,
         NoMutex, Mutexes, Guarded, ClientPCs, Outcomes, HelperPCs, Statuses,
         Responses, NotSent, Received, Before

-----------------------------------------------------------------------------

\* What the operations on the mutex make of it.  Closing the last handle leaves
\* no mutex.
LEMMA OpenedMutex ==
  ASSUME NEW m \in Mutexes, NEW s \in Sessions
  PROVE  /\ Opened(m, s) \in Mutexes
         /\ Opened(m, s).owner = m.owner /\ Opened(m, s).abandoned = m.abandoned
         /\ Opened(m, s).handles = m.handles \cup {s}
  BY DEF Mutexes, Opened, Handles

LEMMA OwnedMutex ==
  ASSUME NEW m \in Mutexes, NEW s \in Sessions
  PROVE  /\ Owned(m, s) \in Mutexes
         /\ Owned(m, s).owner = s /\ Owned(m, s).abandoned = None
         /\ Owned(m, s).handles = m.handles
  BY DEF Mutexes, Owned

LEMMA ReleasedMutex ==
  ASSUME NEW m \in Mutexes
  PROVE  /\ Released(m) \in Mutexes
         /\ Released(m).owner = None /\ Released(m).abandoned = m.abandoned
         /\ Released(m).handles = m.handles
  BY DEF Mutexes, Released

LEMMA ClosedMutex ==
  ASSUME NEW m \in Mutexes, NEW s \in Sessions
  PROVE  /\ Closed(m, s) \in Mutexes
         /\ Closed(m, s).handles = m.handles \ {s}
         /\ \/ Closed(m, s).owner = m.owner /\ Closed(m, s).abandoned = m.abandoned
            \/ /\ Closed(m, s).owner = None /\ Closed(m, s).abandoned = None
               /\ \A t \in m.handles : t = s
  <1>1. CASE m.handles \ {s} = {}
    BY <1>1 DEF Mutexes, Closed, Handles, NoMutex
  <1>2. CASE m.handles \ {s} # {}
    BY <1>2 DEF Mutexes, Closed, Handles
  <1> QED
    BY <1>1, <1>2

LEMMA EndedMutex ==
  ASSUME NEW m \in Mutexes, NEW s \in Sessions
  PROVE  /\ Ended(m, s) \in Mutexes
         /\ Ended(m, s).handles = m.handles \ {s}
         /\ \/ m.owner = s /\ Ended(m, s).owner = None /\ Ended(m, s).abandoned = s
            \/ m.owner # s /\ Ended(m, s).owner = m.owner /\ Ended(m, s).abandoned = m.abandoned
            \/ /\ Ended(m, s).owner = None /\ Ended(m, s).abandoned = None
               /\ \A t \in m.handles : t = s
  <1>1. CASE m.owner = s
    <2> DEFINE n == [m EXCEPT !.owner = None, !.abandoned = s]
    <2>1. /\ n \in Mutexes /\ n.owner = None /\ n.abandoned = s
          /\ n.handles = m.handles /\ Ended(m, s) = Closed(n, s)
      BY <1>1 DEF Mutexes, Ended
    <2> HIDE DEF n
    <2> QED
      BY <1>1, <2>1, ClosedMutex
  <1>2. CASE m.owner # s
    BY <1>2, ClosedMutex DEF Ended
  <1> QED
    BY <1>1, <1>2

\* An abandoned mutex that is refused has an owner without a handle.
LEMMA RefusedMutex ==
  ASSUME NEW m \in Mutexes, NEW s \in Sessions
  PROVE  LET c == Closed(Owned(m, s), s) IN
         /\ c.handles = m.handles \ {s}
         /\ \/ c.owner = s /\ c.abandoned = None
            \/ c.owner = None /\ c.abandoned = None /\ \A t \in m.handles : t = s
  <1> DEFINE n == Owned(m, s)
  <1>1. n \in Mutexes /\ n.owner = s /\ n.abandoned = None /\ n.handles = m.handles
    BY OwnedMutex
  <1> HIDE DEF n
  <1>2. /\ Closed(n, s).handles = m.handles \ {s}
        /\ \/ Closed(n, s).owner = s /\ Closed(n, s).abandoned = None
           \/ /\ Closed(n, s).owner = None /\ Closed(n, s).abandoned = None
              /\ \A t \in m.handles : t = s
    BY <1>1, ClosedMutex
  <1> QED
    BY <1>2 DEF n

\* A mutex that is released has no owner, whichever way its handle is closed.
LEMMA FreedMutex ==
  ASSUME NEW m \in Mutexes, NEW s \in Sessions,
         NEW c, c = Closed(Released(m), s) \/ c = Ended(Released(m), s)
  PROVE  /\ c \in Mutexes /\ c.handles = m.handles \ {s}
         /\ c.owner = None /\ c.abandoned \in {m.abandoned, None}
  <1> DEFINE n == Released(m)
  <1>1. /\ n \in Mutexes /\ n.owner = None /\ n.abandoned = m.abandoned
        /\ n.handles = m.handles
    BY ReleasedMutex
  <1>2. c = Closed(n, s) \/ c = Ended(n, s)
    OBVIOUS
  <1> HIDE DEF n
  <1> QED
    BY <1>1, <1>2, ClosedMutex, EndedMutex

\* The helper of s is ended where it stands.
Killing(s) == Barrier(s) \/ HelperOverrun(s) \/ Die(s)

\* Only a helper process that has started and is there can be ended.
LEMMA KilledOnly ==
  ASSUME NEW s \in Sessions, Killing(s)
  PROVE  Killed(s) /\ helper[s] \notin {"absent", "prompt", "gone"}
  BY DEF Killing, Barrier, HelperOverrun, HelperGuarded, Die

\* Every step keeps the state well typed.
LEMMA TypingStep == TypeOK /\ [Next]_vars => TypeOK'
  <1> SUFFICES ASSUME TypeOK, [Next]_vars PROVE TypeOK'
    OBVIOUS
  <1> USE DEF TypeOK, ClientPCs, Outcomes, HelperPCs, Statuses, Responses,
              NotSent, clientVars, helperVars, pipeVars, mutexVars
  <1>1. CASE UNCHANGED vars
    BY <1>1 DEF vars
  <1>2. ASSUME NEW s \in Sessions, Launch(s) \/ Consent(s) \/ Refuse(s)
        PROVE  TypeOK'
    BY <1>2 DEF Launch, ClientOnly, Consent, Refuse, Return, ClientTo
  <1>3. ASSUME NEW s \in Sessions, Client(s) \/ ClientOverrun(s)
        PROVE  TypeOK'
    <2>1. CASE LaunchFails(s) \/ Accept(s) \/ AcceptFails(s) \/ SeeHello(s) \/ GiveUpHello(s)
      BY <2>1 DEF LaunchFails, Accept, AcceptFails, SeeHello, GiveUpHello, ClientOnly,
         Return, ClientTo
    <2>2. CASE Send(s) \/ SendFails(s) \/ SeeAnswer(s) \/ GiveUpAnswer(s)
      BY <2>2 DEF Send, SendFails, SeeAnswer, GiveUpAnswer, Return, ClientTo
    <2>3. CASE Stop(s) \/ ClientOverrun(s)
      BY <2>3 DEF Stop, CleanedUp, ClientOverrun, ClientTo
    <2> QED
      BY <1>3, <2>1, <2>2, <2>3 DEF Client
  <1>4. ASSUME NEW s \in Sessions, Serve(s)
        PROVE  TypeOK'
    <2>1. CASE \/ Connect(s) \/ Rearm(s) \/ Greet(s) \/ GreetFails(s) \/ Receive(s)
               \/ ReceiveFails(s)
      BY <2>1 DEF Connect, Rearm, Greet, GreetFails, Receive, ReceiveFails, HelperTo
    <2>2. CASE Create(s)
      BY <2>2, OpenedMutex DEF Create, HelperTo
    <2>3. CASE CreateFails(s)
      BY <2>3 DEF CreateFails, Refusing, HelperTo
    <2>4. CASE WaitFails(s)
      BY <2>4, ClosedMutex DEF WaitFails, Refusing, HelperTo
    <2>5. CASE ConstructFails(s)
      BY <2>5 DEF ConstructFails, Refusing, HelperTo
    <2>6. CASE Acquire(s)
      BY <2>6, OwnedMutex DEF Acquire, HelperTo
    <2>7. CASE AcquireAbandoned(s)
      BY <2>7, OwnedMutex, ClosedMutex DEF AcquireAbandoned, Refusing, HelperTo
    <2>8. CASE Execute(s)
      BY <2>8 DEF Execute, HelperTo
    <2>9. CASE Respond(s)
      BY <2>9 DEF Respond, HelperTo
    <2>10. CASE Release(s)
      BY <2>10, ReleasedMutex, ClosedMutex DEF Release, HelperTo
    <2>11. CASE Close(s)
      BY <2>11 DEF Close, HelperTo
    <2>12. CASE ConnectFails(s)
      BY <2>12, EndedMutex DEF ConnectFails, Gone
    <2>13. CASE Exit(s)
      BY <2>13, EndedMutex DEF Exit, Gone
    <2> QED
      BY <1>4, <2>1, <2>2, <2>3, <2>4, <2>5, <2>6, <2>7, <2>8, <2>9, <2>10, <2>11, <2>12, <2>13 DEF Serve
  <1>5. ASSUME NEW s \in Sessions, Panic(s)
        PROVE  TypeOK'
    BY <1>5, EndedMutex, ReleasedMutex DEF Panic, Gone
  <1>6. ASSUME NEW s \in Sessions, Killing(s)
        PROVE  TypeOK'
    <2>1. mutex' \in Mutexes
      BY <1>6, KilledOnly, EndedMutex DEF Killed, Gone
    <2>2. witness' \subseteq Sessions
      BY <1>6, KilledOnly DEF Killed
    <2> QED
      BY <1>6, <2>1, <2>2, KilledOnly DEF Killed, Gone
  <1> QED
    BY <1>1, <1>2, <1>3, <1>4, <1>5, <1>6 DEF Next, Killing

\* The owner, the runners and the handles go on describing each other.
LEMMA MutexStep == TypeOK /\ MutexInv /\ RequestInv /\ ReplyInv /\ [Next]_vars => MutexInv'
  <1> SUFFICES ASSUME TypeOK, MutexInv, RequestInv, ReplyInv, [Next]_vars
               PROVE  MutexInv'
    OBVIOUS
  <1> USE DEF TypeOK, MutexInv, ReplyInv, Phase, Guarded, Before, Responses,
             HelperPCs, clientVars, helperVars, pipeVars, mutexVars
  <1>1. CASE UNCHANGED vars
    BY <1>1 DEF vars
  <1>2. ASSUME NEW s \in Sessions, Launch(s) PROVE MutexInv'
    BY <1>2 DEF RequestInv, Launch, ClientOnly, ClientTo
  <1>3. ASSUME NEW s \in Sessions, LaunchFails(s) PROVE MutexInv'
    BY <1>3 DEF LaunchFails, Return, ClientTo
  <1>4. ASSUME NEW s \in Sessions, Consent(s) PROVE MutexInv'
    BY <1>4 DEF Consent, ClientTo
  <1>5. ASSUME NEW s \in Sessions, Refuse(s) PROVE MutexInv'
    BY <1>5 DEF Refuse, Return, ClientTo
  <1>6. ASSUME NEW s \in Sessions, Accept(s) PROVE MutexInv'
    BY <1>6 DEF Accept, ClientOnly, ClientTo
  <1>7. ASSUME NEW s \in Sessions, AcceptFails(s) PROVE MutexInv'
    BY <1>7 DEF AcceptFails, Return, ClientTo
  <1>8. ASSUME NEW s \in Sessions, SeeHello(s) PROVE MutexInv'
    BY <1>8 DEF SeeHello, ClientOnly, ClientTo
  <1>9. ASSUME NEW s \in Sessions, GiveUpHello(s) PROVE MutexInv'
    BY <1>9 DEF GiveUpHello, Return, ClientTo
  <1>10. ASSUME NEW s \in Sessions, Send(s) PROVE MutexInv'
    BY <1>10 DEF Send, ClientTo
  <1>11. ASSUME NEW s \in Sessions, SendFails(s) PROVE MutexInv'
    BY <1>11 DEF SendFails, Return, ClientTo
  <1>12. ASSUME NEW s \in Sessions, SeeAnswer(s) PROVE MutexInv'
    BY <1>12 DEF SeeAnswer, Return, ClientTo
  <1>13. ASSUME NEW s \in Sessions, GiveUpAnswer(s) PROVE MutexInv'
    BY <1>13 DEF GiveUpAnswer, Return, ClientTo
  <1>14. ASSUME NEW s \in Sessions, Stop(s) PROVE MutexInv'
    BY <1>14 DEF Stop, CleanedUp, ClientTo
  <1>15. ASSUME NEW s \in Sessions, ClientOverrun(s) PROVE MutexInv'
    BY <1>15 DEF ClientOverrun, ClientGuarded, ClientTo
  <1>16. ASSUME NEW s \in Sessions, Connect(s) PROVE MutexInv'
    BY <1>16 DEF Connect, HelperTo
  <1>17. ASSUME NEW s \in Sessions, ConnectFails(s) PROVE MutexInv'
    <2>1. /\ mutex'.handles = mutex.handles \ {s}
          /\ \/ mutex.owner = s /\ mutex'.owner = None /\ mutex'.abandoned = s
             \/ mutex.owner # s /\ mutex'.owner = mutex.owner /\ mutex'.abandoned = mutex.abandoned
             \/ mutex'.owner = None /\ mutex'.abandoned = None /\ \A t \in mutex.handles : t = s
      BY <1>17, EndedMutex DEF ConnectFails, Gone
    <2>2. /\ helper[s] = "start" /\ helper' = [helper EXCEPT ![s] = "gone"]
          /\ reply' = reply /\ UNCHANGED executed
      BY <1>17 DEF ConnectFails, Gone
    <2> QED
      BY <2>1, <2>2
  <1>18. ASSUME NEW s \in Sessions, Rearm(s) PROVE MutexInv'
    BY <1>18 DEF Rearm, HelperTo
  <1>19. ASSUME NEW s \in Sessions, Greet(s) PROVE MutexInv'
    BY <1>19 DEF Greet, HelperTo
  <1>20. ASSUME NEW s \in Sessions, GreetFails(s) PROVE MutexInv'
    BY <1>20 DEF GreetFails, HelperTo
  <1>21. ASSUME NEW s \in Sessions, Receive(s) PROVE MutexInv'
    BY <1>21 DEF Receive, HelperTo
  <1>22. ASSUME NEW s \in Sessions, ReceiveFails(s) PROVE MutexInv'
    BY <1>22 DEF ReceiveFails, HelperTo
  <1>23. ASSUME NEW s \in Sessions, Create(s) PROVE MutexInv'
    <2>1. /\ mutex'.handles = mutex.handles \cup {s}
          /\ mutex'.owner = mutex.owner /\ mutex'.abandoned = mutex.abandoned
      BY <1>23, OpenedMutex DEF Create, HelperTo
    <2>2. /\ helper[s] = "create" /\ helper' = [helper EXCEPT ![s] = "wait"]
          /\ reply' = reply /\ UNCHANGED executed
      BY <1>23 DEF Create, HelperTo
    <2> QED
      BY <2>1, <2>2
  <1>24. ASSUME NEW s \in Sessions, CreateFails(s) PROVE MutexInv'
    BY <1>24 DEF CreateFails, Refusing, HelperTo
  <1>25. ASSUME NEW s \in Sessions, Acquire(s) PROVE MutexInv'
    <2>1. /\ mutex'.owner = s /\ mutex'.abandoned = None
          /\ mutex'.handles = mutex.handles
      BY <1>25, OwnedMutex DEF Acquire, HelperTo
    <2>2. /\ helper[s] = "wait" /\ helper' = [helper EXCEPT ![s] = "run"]
          /\ reply' = reply /\ UNCHANGED executed
      BY <1>25 DEF Acquire, HelperTo
    <2> QED
      BY <1>25, <2>1, <2>2 DEF Acquire
  <1>26. ASSUME NEW s \in Sessions, AcquireAbandoned(s) PROVE MutexInv'
    <2>1. /\ mutex'.handles = mutex.handles \ {s}
          /\ \/ mutex'.owner = s /\ mutex'.abandoned = None
             \/ mutex'.owner = None /\ mutex'.abandoned = None /\ \A t \in mutex.handles : t = s
      BY <1>26, RefusedMutex DEF AcquireAbandoned, Refusing, HelperTo
    <2>2. /\ helper[s] = "wait" /\ helper' = [helper EXCEPT ![s] = "respond"]
          /\ reply' = [reply EXCEPT ![s] = "refused"] /\ UNCHANGED executed
      BY <1>26 DEF AcquireAbandoned, Refusing, HelperTo
    <2> QED
      BY <1>26, <2>1, <2>2 DEF AcquireAbandoned
  <1>27. ASSUME NEW s \in Sessions, WaitFails(s) PROVE MutexInv'
    <2>1. /\ mutex'.handles = mutex.handles \ {s}
          /\ \/ mutex'.owner = mutex.owner /\ mutex'.abandoned = mutex.abandoned
             \/ mutex'.owner = None /\ mutex'.abandoned = None /\ \A t \in mutex.handles : t = s
      BY <1>27, ClosedMutex DEF WaitFails, Refusing, HelperTo
    <2>2. /\ helper[s] = "wait" /\ helper' = [helper EXCEPT ![s] = "respond"]
          /\ reply' = [reply EXCEPT ![s] = "refused"] /\ UNCHANGED executed
      BY <1>27 DEF WaitFails, Refusing, HelperTo
    <2> QED
      BY <2>1, <2>2
  <1>28. ASSUME NEW s \in Sessions, ConstructFails(s) PROVE MutexInv'
    BY <1>28 DEF ConstructFails, Refusing, HelperTo
  <1>29. ASSUME NEW s \in Sessions, Execute(s) PROVE MutexInv'
    BY <1>29 DEF Execute, HelperTo
  <1>30. ASSUME NEW s \in Sessions, Respond(s) PROVE MutexInv'
    BY <1>30 DEF Respond, HelperTo
  <1>31. ASSUME NEW s \in Sessions, Release(s) PROVE MutexInv'
    <2>1. /\ mutex'.handles = mutex.handles \ {s}
          /\ mutex'.owner = None /\ mutex'.abandoned \in {mutex.abandoned, None}
      BY <1>31, FreedMutex DEF Release, HelperTo
    <2>2. /\ helper[s] = "release" /\ helper' = [helper EXCEPT ![s] = "close"]
          /\ reply' = reply /\ UNCHANGED executed
      BY <1>31 DEF Release, HelperTo
    <2> QED
      BY <2>1, <2>2
  <1>32. ASSUME NEW s \in Sessions, Close(s) PROVE MutexInv'
    BY <1>32 DEF Close, HelperTo
  <1>33. ASSUME NEW s \in Sessions, Exit(s) PROVE MutexInv'
    <2>1. /\ mutex'.handles = mutex.handles \ {s}
          /\ \/ mutex.owner = s /\ mutex'.owner = None /\ mutex'.abandoned = s
             \/ mutex.owner # s /\ mutex'.owner = mutex.owner /\ mutex'.abandoned = mutex.abandoned
             \/ mutex'.owner = None /\ mutex'.abandoned = None /\ \A t \in mutex.handles : t = s
      BY <1>33, EndedMutex DEF Exit, Gone
    <2>2. /\ helper[s] = "exit" /\ helper' = [helper EXCEPT ![s] = "gone"]
          /\ reply' = reply /\ UNCHANGED executed
      BY <1>33 DEF Exit, Gone
    <2> QED
      BY <2>1, <2>2
  <1>34. ASSUME NEW s \in Sessions, Panic(s) PROVE MutexInv'
    <2>1. /\ mutex'.handles = mutex.handles \ {s}
          /\ mutex'.owner = None /\ mutex'.abandoned \in {mutex.abandoned, None}
      BY <1>34, FreedMutex DEF Panic, Gone
    <2>2. /\ mutex.owner = s /\ helper' = [helper EXCEPT ![s] = "gone"]
          /\ reply' = reply /\ UNCHANGED executed
      BY <1>34 DEF Panic, InOperation, Guarded, Gone
    <2> QED
      BY <2>1, <2>2
  <1>35. ASSUME NEW s \in Sessions, Killing(s) PROVE MutexInv'
    <2>1. /\ mutex'.handles = mutex.handles \ {s}
          /\ \/ mutex.owner = s /\ mutex'.owner = None /\ mutex'.abandoned = s
             \/ mutex.owner # s /\ mutex'.owner = mutex.owner /\ mutex'.abandoned = mutex.abandoned
             \/ mutex'.owner = None /\ mutex'.abandoned = None /\ \A t \in mutex.handles : t = s
      BY <1>35, KilledOnly, EndedMutex DEF Killed, Gone
    <2>2. /\ helper[s] \notin {"absent", "prompt", "gone"} /\ helper' = [helper EXCEPT ![s] = "gone"]
          /\ reply' = reply /\ UNCHANGED executed
      BY <1>35, KilledOnly DEF Killed, Gone
    <2> QED
      BY <2>1, <2>2
  <1> QED
    BY <1>1, <1>2, <1>3, <1>4, <1>5, <1>6, <1>7, <1>8, <1>9, <1>10, <1>11,
       <1>12, <1>13, <1>14, <1>15, <1>16, <1>17, <1>18, <1>19, <1>20, <1>21,
       <1>22, <1>23, <1>24, <1>25, <1>26, <1>27, <1>28, <1>29, <1>30, <1>31,
       <1>32, <1>33, <1>34, <1>35
       DEF Next, Client, Serve, Killing

\* A request that was not written in full is never received.
LEMMA RequestStep == TypeOK /\ RequestInv /\ [Next]_vars => RequestInv'
  <1> SUFFICES ASSUME TypeOK, RequestInv, [Next]_vars PROVE RequestInv'
    OBVIOUS
  <1> USE DEF TypeOK, RequestInv, Received, NotSent, Outcomes, clientVars, helperVars, pipeVars, mutexVars
  <1>1. CASE UNCHANGED vars
    BY <1>1 DEF vars
  <1>2. ASSUME NEW s \in Sessions, Launch(s) PROVE RequestInv'
    BY <1>2 DEF Launch, ClientOnly, ClientTo
  <1>3. ASSUME NEW s \in Sessions, LaunchFails(s) PROVE RequestInv'
    BY <1>3 DEF LaunchFails, Return, ClientTo
  <1>4. ASSUME NEW s \in Sessions, Consent(s) PROVE RequestInv'
    BY <1>4 DEF Consent, ClientTo
  <1>5. ASSUME NEW s \in Sessions, Refuse(s) PROVE RequestInv'
    BY <1>5 DEF Refuse, Return, ClientTo
  <1>6. ASSUME NEW s \in Sessions, Accept(s) PROVE RequestInv'
    BY <1>6 DEF Accept, ClientOnly, ClientTo
  <1>7. ASSUME NEW s \in Sessions, AcceptFails(s) PROVE RequestInv'
    BY <1>7 DEF AcceptFails, Return, ClientTo
  <1>8. ASSUME NEW s \in Sessions, SeeHello(s) PROVE RequestInv'
    BY <1>8 DEF SeeHello, ClientOnly, ClientTo
  <1>9. ASSUME NEW s \in Sessions, GiveUpHello(s) PROVE RequestInv'
    BY <1>9 DEF GiveUpHello, Return, ClientTo
  <1>10. ASSUME NEW s \in Sessions, Send(s) PROVE RequestInv'
    BY <1>10 DEF Send, ClientTo
  <1>11. ASSUME NEW s \in Sessions, SendFails(s) PROVE RequestInv'
    BY <1>11 DEF SendFails, Return, ClientTo
  <1>12. ASSUME NEW s \in Sessions, SeeAnswer(s) PROVE RequestInv'
    BY <1>12 DEF SeeAnswer, Return, ClientTo
  <1>13. ASSUME NEW s \in Sessions, GiveUpAnswer(s) PROVE RequestInv'
    BY <1>13 DEF GiveUpAnswer, Return, ClientTo
  <1>14. ASSUME NEW s \in Sessions, Stop(s) PROVE RequestInv'
    BY <1>14 DEF Stop, CleanedUp, ClientTo
  <1>15. ASSUME NEW s \in Sessions, ClientOverrun(s) PROVE RequestInv'
    BY <1>15 DEF ClientOverrun, ClientGuarded, ClientTo
  <1>16. ASSUME NEW s \in Sessions, Connect(s) PROVE RequestInv'
    BY <1>16 DEF Connect, HelperTo
  <1>17. ASSUME NEW s \in Sessions, ConnectFails(s) PROVE RequestInv'
    BY <1>17 DEF ConnectFails, Gone
  <1>18. ASSUME NEW s \in Sessions, Rearm(s) PROVE RequestInv'
    BY <1>18 DEF Rearm, HelperTo
  <1>19. ASSUME NEW s \in Sessions, Greet(s) PROVE RequestInv'
    BY <1>19 DEF Greet, HelperTo
  <1>20. ASSUME NEW s \in Sessions, GreetFails(s) PROVE RequestInv'
    BY <1>20 DEF GreetFails, HelperTo
  <1>21. ASSUME NEW s \in Sessions, Receive(s) PROVE RequestInv'
    BY <1>21 DEF Receive, HelperTo
  <1>22. ASSUME NEW s \in Sessions, ReceiveFails(s) PROVE RequestInv'
    BY <1>22 DEF ReceiveFails, HelperTo
  <1>23. ASSUME NEW s \in Sessions, Create(s) PROVE RequestInv'
    BY <1>23 DEF Create, HelperTo
  <1>24. ASSUME NEW s \in Sessions, CreateFails(s) PROVE RequestInv'
    BY <1>24 DEF CreateFails, Refusing, HelperTo
  <1>25. ASSUME NEW s \in Sessions, Acquire(s) PROVE RequestInv'
    BY <1>25 DEF Acquire, HelperTo
  <1>26. ASSUME NEW s \in Sessions, AcquireAbandoned(s) PROVE RequestInv'
    BY <1>26 DEF AcquireAbandoned, Refusing, HelperTo
  <1>27. ASSUME NEW s \in Sessions, WaitFails(s) PROVE RequestInv'
    BY <1>27 DEF WaitFails, Refusing, HelperTo
  <1>28. ASSUME NEW s \in Sessions, ConstructFails(s) PROVE RequestInv'
    BY <1>28 DEF ConstructFails, Refusing, HelperTo
  <1>29. ASSUME NEW s \in Sessions, Execute(s) PROVE RequestInv'
    BY <1>29 DEF Execute, HelperTo
  <1>30. ASSUME NEW s \in Sessions, Respond(s) PROVE RequestInv'
    BY <1>30 DEF Respond, HelperTo
  <1>31. ASSUME NEW s \in Sessions, Release(s) PROVE RequestInv'
    BY <1>31 DEF Release, HelperTo
  <1>32. ASSUME NEW s \in Sessions, Close(s) PROVE RequestInv'
    BY <1>32 DEF Close, HelperTo
  <1>33. ASSUME NEW s \in Sessions, Exit(s) PROVE RequestInv'
    BY <1>33 DEF Exit, Gone
  <1>34. ASSUME NEW s \in Sessions, Panic(s) PROVE RequestInv'
    BY <1>34 DEF Panic, InOperation, Gone
  <1>35. ASSUME NEW s \in Sessions, Killing(s) PROVE RequestInv'
    BY <1>35, KilledOnly DEF Killed, InOperation, Gone
  <1> QED
    BY <1>1, <1>2, <1>3, <1>4, <1>5, <1>6, <1>7, <1>8, <1>9, <1>10, <1>11,
       <1>12, <1>13, <1>14, <1>15, <1>16, <1>17, <1>18, <1>19, <1>20, <1>21,
       <1>22, <1>23, <1>24, <1>25, <1>26, <1>27, <1>28, <1>29, <1>30, <1>31,
       <1>32, <1>33, <1>34, <1>35
       DEF Next, Client, Serve, Killing

\* Reply, exit status and answer go on agreeing.
LEMMA ReplyStep == TypeOK /\ RequestInv /\ ReplyInv /\ [Next]_vars => ReplyInv'
  <1> SUFFICES ASSUME TypeOK, RequestInv, ReplyInv, [Next]_vars PROVE ReplyInv'
    OBVIOUS
  <1> USE DEF TypeOK, ReplyInv, Before, Responses, NotSent, clientVars, helperVars, pipeVars, mutexVars
  <1>1. CASE UNCHANGED vars
    BY <1>1 DEF vars
  <1>2. ASSUME NEW s \in Sessions, Launch(s) PROVE ReplyInv'
    BY <1>2 DEF RequestInv, Launch, ClientOnly, ClientTo
  <1>3. ASSUME NEW s \in Sessions, LaunchFails(s) PROVE ReplyInv'
    BY <1>3 DEF LaunchFails, Return, ClientTo
  <1>4. ASSUME NEW s \in Sessions, Consent(s) PROVE ReplyInv'
    BY <1>4 DEF Consent, ClientTo
  <1>5. ASSUME NEW s \in Sessions, Refuse(s) PROVE ReplyInv'
    BY <1>5 DEF Refuse, Return, ClientTo
  <1>6. ASSUME NEW s \in Sessions, Accept(s) PROVE ReplyInv'
    BY <1>6 DEF Accept, ClientOnly, ClientTo
  <1>7. ASSUME NEW s \in Sessions, AcceptFails(s) PROVE ReplyInv'
    BY <1>7 DEF AcceptFails, Return, ClientTo
  <1>8. ASSUME NEW s \in Sessions, SeeHello(s) PROVE ReplyInv'
    BY <1>8 DEF SeeHello, ClientOnly, ClientTo
  <1>9. ASSUME NEW s \in Sessions, GiveUpHello(s) PROVE ReplyInv'
    BY <1>9 DEF GiveUpHello, Return, ClientTo
  <1>10. ASSUME NEW s \in Sessions, Send(s) PROVE ReplyInv'
    BY <1>10 DEF Send, ClientTo
  <1>11. ASSUME NEW s \in Sessions, SendFails(s) PROVE ReplyInv'
    BY <1>11 DEF SendFails, Return, ClientTo
  <1>12. ASSUME NEW s \in Sessions, SeeAnswer(s) PROVE ReplyInv'
    BY <1>12 DEF SeeAnswer, Return, ClientTo
  <1>13. ASSUME NEW s \in Sessions, GiveUpAnswer(s) PROVE ReplyInv'
    BY <1>13 DEF GiveUpAnswer, Return, ClientTo
  <1>14. ASSUME NEW s \in Sessions, Stop(s) PROVE ReplyInv'
    BY <1>14 DEF Stop, CleanedUp, ClientTo
  <1>15. ASSUME NEW s \in Sessions, ClientOverrun(s) PROVE ReplyInv'
    BY <1>15 DEF ClientOverrun, ClientGuarded, ClientTo
  <1>16. ASSUME NEW s \in Sessions, Connect(s) PROVE ReplyInv'
    BY <1>16 DEF Connect, HelperTo
  <1>17. ASSUME NEW s \in Sessions, ConnectFails(s) PROVE ReplyInv'
    BY <1>17 DEF ConnectFails, Gone
  <1>18. ASSUME NEW s \in Sessions, Rearm(s) PROVE ReplyInv'
    BY <1>18 DEF Rearm, HelperTo
  <1>19. ASSUME NEW s \in Sessions, Greet(s) PROVE ReplyInv'
    BY <1>19 DEF Greet, HelperTo
  <1>20. ASSUME NEW s \in Sessions, GreetFails(s) PROVE ReplyInv'
    BY <1>20 DEF GreetFails, HelperTo
  <1>21. ASSUME NEW s \in Sessions, Receive(s) PROVE ReplyInv'
    BY <1>21 DEF Receive, HelperTo
  <1>22. ASSUME NEW s \in Sessions, ReceiveFails(s) PROVE ReplyInv'
    BY <1>22 DEF ReceiveFails, HelperTo
  <1>23. ASSUME NEW s \in Sessions, Create(s) PROVE ReplyInv'
    BY <1>23 DEF Create, HelperTo
  <1>24. ASSUME NEW s \in Sessions, CreateFails(s) PROVE ReplyInv'
    BY <1>24 DEF CreateFails, Refusing, HelperTo
  <1>25. ASSUME NEW s \in Sessions, Acquire(s) PROVE ReplyInv'
    BY <1>25 DEF Acquire, HelperTo
  <1>26. ASSUME NEW s \in Sessions, AcquireAbandoned(s) PROVE ReplyInv'
    BY <1>26 DEF AcquireAbandoned, Refusing, HelperTo
  <1>27. ASSUME NEW s \in Sessions, WaitFails(s) PROVE ReplyInv'
    BY <1>27 DEF WaitFails, Refusing, HelperTo
  <1>28. ASSUME NEW s \in Sessions, ConstructFails(s) PROVE ReplyInv'
    BY <1>28 DEF ConstructFails, Refusing, HelperTo
  <1>29. ASSUME NEW s \in Sessions, Execute(s) PROVE ReplyInv'
    BY <1>29 DEF Execute, HelperTo
  <1>30. ASSUME NEW s \in Sessions, Respond(s) PROVE ReplyInv'
    BY <1>30 DEF Respond, HelperTo
  <1>31. ASSUME NEW s \in Sessions, Release(s) PROVE ReplyInv'
    BY <1>31 DEF Release, HelperTo
  <1>32. ASSUME NEW s \in Sessions, Close(s) PROVE ReplyInv'
    BY <1>32 DEF Close, HelperTo
  <1>33. ASSUME NEW s \in Sessions, Exit(s) PROVE ReplyInv'
    BY <1>33 DEF Exit, Gone
  <1>34. ASSUME NEW s \in Sessions, Panic(s) PROVE ReplyInv'
    BY <1>34 DEF Panic, InOperation, Gone
  <1>35. ASSUME NEW s \in Sessions, Killing(s) PROVE ReplyInv'
    BY <1>35, KilledOnly DEF Killed, InOperation, Gone
  <1> QED
    BY <1>1, <1>2, <1>3, <1>4, <1>5, <1>6, <1>7, <1>8, <1>9, <1>10, <1>11,
       <1>12, <1>13, <1>14, <1>15, <1>16, <1>17, <1>18, <1>19, <1>20, <1>21,
       <1>22, <1>23, <1>24, <1>25, <1>26, <1>27, <1>28, <1>29, <1>30, <1>31,
       <1>32, <1>33, <1>34, <1>35
       DEF Next, Client, Serve, Killing

\* No witness runs.
LEMMA WitnessStep ==
  TypeOK /\ MutexInv /\ RequestInv /\ ReplyInv /\ WitnessInv /\ [Next]_vars => WitnessInv'
  <1> SUFFICES ASSUME TypeOK, MutexInv, RequestInv, ReplyInv, WitnessInv, [Next]_vars
               PROVE  WitnessInv'
    OBVIOUS
  <1> USE DEF TypeOK, MutexInv, ReplyInv, WitnessInv, Tainted, Phase, Guarded, Before,
             clientVars, helperVars, pipeVars, mutexVars
  <1>1. CASE UNCHANGED vars
    BY <1>1 DEF vars
  <1>2. ASSUME NEW s \in Sessions, Launch(s) PROVE WitnessInv'
    BY <1>2 DEF RequestInv, Launch, ClientOnly, ClientTo
  <1>3. ASSUME NEW s \in Sessions, LaunchFails(s) PROVE WitnessInv'
    BY <1>3 DEF LaunchFails, Return, ClientTo
  <1>4. ASSUME NEW s \in Sessions, Consent(s) PROVE WitnessInv'
    BY <1>4 DEF Consent, ClientTo
  <1>5. ASSUME NEW s \in Sessions, Refuse(s) PROVE WitnessInv'
    BY <1>5 DEF Refuse, Return, ClientTo
  <1>6. ASSUME NEW s \in Sessions, Accept(s) PROVE WitnessInv'
    BY <1>6 DEF Accept, ClientOnly, ClientTo
  <1>7. ASSUME NEW s \in Sessions, AcceptFails(s) PROVE WitnessInv'
    BY <1>7 DEF AcceptFails, Return, ClientTo
  <1>8. ASSUME NEW s \in Sessions, SeeHello(s) PROVE WitnessInv'
    BY <1>8 DEF SeeHello, ClientOnly, ClientTo
  <1>9. ASSUME NEW s \in Sessions, GiveUpHello(s) PROVE WitnessInv'
    BY <1>9 DEF GiveUpHello, Return, ClientTo
  <1>10. ASSUME NEW s \in Sessions, Send(s) PROVE WitnessInv'
    BY <1>10 DEF Send, ClientTo
  <1>11. ASSUME NEW s \in Sessions, SendFails(s) PROVE WitnessInv'
    BY <1>11 DEF SendFails, Return, ClientTo
  <1>12. ASSUME NEW s \in Sessions, SeeAnswer(s) PROVE WitnessInv'
    BY <1>12 DEF SeeAnswer, Return, ClientTo
  <1>13. ASSUME NEW s \in Sessions, GiveUpAnswer(s) PROVE WitnessInv'
    BY <1>13 DEF GiveUpAnswer, Return, ClientTo
  <1>14. ASSUME NEW s \in Sessions, Stop(s) PROVE WitnessInv'
    BY <1>14 DEF Stop, CleanedUp, ClientTo
  <1>15. ASSUME NEW s \in Sessions, ClientOverrun(s) PROVE WitnessInv'
    BY <1>15 DEF ClientOverrun, ClientGuarded, ClientTo
  <1>16. ASSUME NEW s \in Sessions, Connect(s) PROVE WitnessInv'
    BY <1>16 DEF Connect, HelperTo
  <1>17. ASSUME NEW s \in Sessions, ConnectFails(s) PROVE WitnessInv'
    <2>1. /\ mutex'.handles = mutex.handles \ {s}
          /\ \/ mutex.owner = s /\ mutex'.owner = None /\ mutex'.abandoned = s
             \/ mutex.owner # s /\ mutex'.owner = mutex.owner /\ mutex'.abandoned = mutex.abandoned
             \/ mutex'.owner = None /\ mutex'.abandoned = None /\ \A t \in mutex.handles : t = s
      BY <1>17, EndedMutex DEF ConnectFails, Gone
    <2>2. /\ helper[s] = "start" /\ helper' = [helper EXCEPT ![s] = "gone"]
          /\ reply' = reply /\ UNCHANGED executed
      BY <1>17 DEF ConnectFails, Gone
    <2>3. witness' = witness
      BY <1>17 DEF ConnectFails, Gone
    <2> QED
      BY <2>1, <2>2, <2>3
  <1>18. ASSUME NEW s \in Sessions, Rearm(s) PROVE WitnessInv'
    BY <1>18 DEF Rearm, HelperTo
  <1>19. ASSUME NEW s \in Sessions, Greet(s) PROVE WitnessInv'
    BY <1>19 DEF Greet, HelperTo
  <1>20. ASSUME NEW s \in Sessions, GreetFails(s) PROVE WitnessInv'
    BY <1>20 DEF GreetFails, HelperTo
  <1>21. ASSUME NEW s \in Sessions, Receive(s) PROVE WitnessInv'
    BY <1>21 DEF Receive, HelperTo
  <1>22. ASSUME NEW s \in Sessions, ReceiveFails(s) PROVE WitnessInv'
    BY <1>22 DEF ReceiveFails, HelperTo
  <1>23. ASSUME NEW s \in Sessions, Create(s) PROVE WitnessInv'
    <2>1. /\ mutex'.handles = mutex.handles \cup {s}
          /\ mutex'.owner = mutex.owner /\ mutex'.abandoned = mutex.abandoned
      BY <1>23, OpenedMutex DEF Create, HelperTo
    <2>2. /\ helper[s] = "create" /\ helper' = [helper EXCEPT ![s] = "wait"]
          /\ reply' = reply /\ UNCHANGED executed
      BY <1>23 DEF Create, HelperTo
    <2>3. witness' = witness
      BY <1>23 DEF Create, HelperTo
    <2> QED
      BY <2>1, <2>2, <2>3
  <1>24. ASSUME NEW s \in Sessions, CreateFails(s) PROVE WitnessInv'
    BY <1>24 DEF CreateFails, Refusing, HelperTo
  <1>25. ASSUME NEW s \in Sessions, Acquire(s) PROVE WitnessInv'
    <2>1. /\ mutex'.owner = s /\ mutex'.abandoned = None
          /\ mutex'.handles = mutex.handles
      BY <1>25, OwnedMutex DEF Acquire, HelperTo
    <2>2. /\ helper[s] = "wait" /\ helper' = [helper EXCEPT ![s] = "run"]
          /\ reply' = reply /\ UNCHANGED executed
      BY <1>25 DEF Acquire, HelperTo
    <2>3. witness' = witness
      BY <1>25 DEF Acquire, HelperTo
    <2> QED
      BY <1>25, <2>1, <2>2, <2>3 DEF Acquire
  <1>26. ASSUME NEW s \in Sessions, AcquireAbandoned(s) PROVE WitnessInv'
    <2>1. /\ mutex'.handles = mutex.handles \ {s}
          /\ \/ mutex'.owner = s /\ mutex'.abandoned = None
             \/ mutex'.owner = None /\ mutex'.abandoned = None /\ \A t \in mutex.handles : t = s
      BY <1>26, RefusedMutex DEF AcquireAbandoned, Refusing, HelperTo
    <2>2. /\ helper[s] = "wait" /\ helper' = [helper EXCEPT ![s] = "respond"]
          /\ reply' = [reply EXCEPT ![s] = "refused"] /\ UNCHANGED executed
      BY <1>26 DEF AcquireAbandoned, Refusing, HelperTo
    <2>3. witness' = witness
      BY <1>26 DEF AcquireAbandoned, Refusing, HelperTo
    <2> QED
      BY <1>26, <2>1, <2>2, <2>3 DEF AcquireAbandoned
  <1>27. ASSUME NEW s \in Sessions, WaitFails(s) PROVE WitnessInv'
    <2>1. /\ mutex'.handles = mutex.handles \ {s}
          /\ \/ mutex'.owner = mutex.owner /\ mutex'.abandoned = mutex.abandoned
             \/ mutex'.owner = None /\ mutex'.abandoned = None /\ \A t \in mutex.handles : t = s
      BY <1>27, ClosedMutex DEF WaitFails, Refusing, HelperTo
    <2>2. /\ helper[s] = "wait" /\ helper' = [helper EXCEPT ![s] = "respond"]
          /\ reply' = [reply EXCEPT ![s] = "refused"] /\ UNCHANGED executed
      BY <1>27 DEF WaitFails, Refusing, HelperTo
    <2>3. witness' = witness
      BY <1>27 DEF WaitFails, Refusing, HelperTo
    <2> QED
      BY <2>1, <2>2, <2>3
  <1>28. ASSUME NEW s \in Sessions, ConstructFails(s) PROVE WitnessInv'
    BY <1>28 DEF ConstructFails, Refusing, HelperTo
  <1>29. ASSUME NEW s \in Sessions, Execute(s) PROVE WitnessInv'
    BY <1>29 DEF Execute, HelperTo
  <1>30. ASSUME NEW s \in Sessions, Respond(s) PROVE WitnessInv'
    BY <1>30 DEF Respond, HelperTo
  <1>31. ASSUME NEW s \in Sessions, Release(s) PROVE WitnessInv'
    <2>1. /\ mutex'.handles = mutex.handles \ {s}
          /\ mutex'.owner = None /\ mutex'.abandoned \in {mutex.abandoned, None}
      BY <1>31, FreedMutex DEF Release, HelperTo
    <2>2. /\ helper[s] = "release" /\ helper' = [helper EXCEPT ![s] = "close"]
          /\ reply' = reply /\ UNCHANGED executed
      BY <1>31 DEF Release, HelperTo
    <2>3. witness' = witness
      BY <1>31 DEF Release, HelperTo
    <2> QED
      BY <2>1, <2>2, <2>3
  <1>32. ASSUME NEW s \in Sessions, Close(s) PROVE WitnessInv'
    BY <1>32 DEF Close, HelperTo
  <1>33. ASSUME NEW s \in Sessions, Exit(s) PROVE WitnessInv'
    <2>1. /\ mutex'.handles = mutex.handles \ {s}
          /\ \/ mutex.owner = s /\ mutex'.owner = None /\ mutex'.abandoned = s
             \/ mutex.owner # s /\ mutex'.owner = mutex.owner /\ mutex'.abandoned = mutex.abandoned
             \/ mutex'.owner = None /\ mutex'.abandoned = None /\ \A t \in mutex.handles : t = s
      BY <1>33, EndedMutex DEF Exit, Gone
    <2>2. /\ helper[s] = "exit" /\ helper' = [helper EXCEPT ![s] = "gone"]
          /\ reply' = reply /\ UNCHANGED executed
      BY <1>33 DEF Exit, Gone
    <2>3. witness' = witness
      BY <1>33 DEF Exit, Gone
    <2> QED
      BY <2>1, <2>2, <2>3
  <1>34. ASSUME NEW s \in Sessions, Panic(s) PROVE WitnessInv'
    <2>1. /\ mutex'.handles = mutex.handles \ {s}
          /\ mutex'.owner = None /\ mutex'.abandoned \in {mutex.abandoned, None}
      BY <1>34, FreedMutex DEF Panic, Gone
    <2>2. /\ mutex.owner = s /\ s \in mutex.handles /\ helper' = [helper EXCEPT ![s] = "gone"]
          /\ reply' = reply /\ UNCHANGED executed
      BY <1>34 DEF Panic, InOperation, Guarded, Gone
    <2>3. witness' = witness
      BY <1>34 DEF Panic, InOperation, Guarded, Gone
    <2> QED
      BY <2>1, <2>2, <2>3
  <1>35. ASSUME NEW s \in Sessions, Killing(s) PROVE WitnessInv'
    <2>1. /\ mutex'.handles = mutex.handles \ {s}
          /\ \/ mutex.owner = s /\ mutex'.owner = None /\ mutex'.abandoned = s
             \/ mutex.owner # s /\ mutex'.owner = mutex.owner /\ mutex'.abandoned = mutex.abandoned
             \/ mutex'.owner = None /\ mutex'.abandoned = None /\ \A t \in mutex.handles : t = s
      BY <1>35, KilledOnly, EndedMutex DEF Killed, Gone
    <2>2. /\ helper[s] \notin {"absent", "prompt", "gone"} /\ helper' = [helper EXCEPT ![s] = "gone"]
          /\ reply' = reply /\ UNCHANGED executed
      BY <1>35, KilledOnly DEF Killed, Gone
    <2>3. witness' = IF InOperation(s) THEN witness \cup {t \in Sessions : helper[t] = "wait"}
                    ELSE witness
      BY <1>35, KilledOnly DEF Killed, InOperation
    <2> QED
      BY <2>1, <2>2, <2>3 DEF InOperation
  <1> QED
    BY <1>1, <1>2, <1>3, <1>4, <1>5, <1>6, <1>7, <1>8, <1>9, <1>10, <1>11,
       <1>12, <1>13, <1>14, <1>15, <1>16, <1>17, <1>18, <1>19, <1>20, <1>21,
       <1>22, <1>23, <1>24, <1>25, <1>26, <1>27, <1>28, <1>29, <1>30, <1>31,
       <1>32, <1>33, <1>34, <1>35
       DEF Next, Client, Serve, Killing

-----------------------------------------------------------------------------

\* The inductive invariant holds in every reachable state.
THEOREM Invariance == Spec => []IInv
  <1>1. IInv /\ [Next]_vars => IInv'
    BY TypingStep, MutexStep, RequestStep, ReplyStep, WitnessStep DEF IInv
  <1> QED
    BY InvInit, <1>1, PTL DEF Spec

\* The state stays well typed: a window only ever returns one of its outcomes.
THEOREM TypeCorrect == Spec => []TypeOK
  <1>1. IInv => TypeOK
    BY DEF IInv
  <1> QED
    BY <1>1, Invariance, PTL

\* A helper that waited while an operation was cut off never runs over it, for
\* any number of helpers, and however often the mutex is abandoned again.
THEOREM NoWitnessRuns == Spec => []WitnessNeverRuns
  <1>1. IInv => WitnessNeverRuns
    BY DEF IInv, WitnessInv, WitnessNeverRuns
  <1> QED
    BY <1>1, Invariance, PTL

-----------------------------------------------------------------------------

\* Initial states of the exchanges are initial states of Exchange.
LEMMA RefinesInit == Init => Exchanges!Init
  BY DEF Init, Exchanges!Init, Phase, Told, NotSent

\* A step that leaves the phase and the word of every exchange is a stutter.
LEMMA Stutters ==
  ASSUME UNCHANGED executed,
         \A t \in Sessions : Phase(t)' = Phase(t) /\ Told(t)' = Told(t)
  PROVE  UNCHANGED Exchanges!vars
  BY DEF Exchanges!vars

\* A step that only takes the operation of s to its end.
LEMMA Ends ==
  ASSUME NEW s \in Sessions, UNCHANGED executed, Phase(s)' = "over",
         \A t \in Sessions \ {s} : Phase(t)' = Phase(t),
         \A t \in Sessions : Told(t)' = Told(t)
  PROVE  [Exchanges!Next]_Exchanges!vars
  <1>1. CASE Phase(s) = "over"
    BY <1>1, Stutters
  <1>2. CASE Phase(s) # "over"
    BY <1>2 DEF Exchanges!Next, Exchanges!End
  <1> QED
    BY <1>1, <1>2

\* A step of a client that is not its last tells nothing.
LEMMA Silent ==
  ASSUME TypeOK, NEW s \in Sessions, UNCHANGED <<executed, reply>>,
         client[s] # "done", client'[s] # "done",
         \A t \in Sessions \ {s} :
           client'[t] = client[t] /\ outcome'[t] = outcome[t] /\ decoded'[t] = decoded[t],
         \A t \in Sessions : Phase(t)' = Phase(t)
  PROVE  UNCHANGED Exchanges!vars
  <1>1. \A t \in Sessions : Told(t)' = Told(t)
    BY DEF Told
  <1> QED
    BY <1>1, Stutters

\* Every step is a step of Exchange or leaves it alone.
LEMMA RefinesStep == IInv /\ [Next]_vars => [Exchanges!Next]_Exchanges!vars
  <1> SUFFICES ASSUME IInv, [Next]_vars PROVE [Exchanges!Next]_Exchanges!vars
    OBVIOUS
  <1>0. TypeOK /\ MutexInv /\ RequestInv /\ ReplyInv
    BY DEF IInv
  <1> USE <1>0 DEF clientVars, helperVars, pipeVars, mutexVars
  <1>1. CASE UNCHANGED vars
    BY <1>1, Stutters DEF vars, Phase, Told
  <1>2. ASSUME NEW s \in Sessions, Launch(s) PROVE UNCHANGED Exchanges!vars
    <2>1. \A t \in Sessions : Phase(t)' = Phase(t)
      BY <1>2 DEF RequestInv, TypeOK, Phase, Launch, ClientOnly, ClientTo
    <2>2. /\ UNCHANGED <<executed, reply>> /\ client[s] # "done" /\ client'[s] # "done"
          /\ \A t \in Sessions \ {s} :
               client'[t] = client[t] /\ outcome'[t] = outcome[t] /\ decoded'[t] = decoded[t]
      BY <1>2 DEF TypeOK, Launch, ClientOnly, ClientTo
    <2> QED
      BY <2>1, <2>2, Silent
  <1>3. ASSUME NEW s \in Sessions, LaunchFails(s) PROVE UNCHANGED Exchanges!vars
    <2>1. \A t \in Sessions : Phase(t)' = Phase(t)
      BY <1>3 DEF Phase, LaunchFails, Return, ClientTo
    <2>2. /\ UNCHANGED <<executed, reply>> /\ client[s] # "done" /\ client'[s] # "done"
          /\ \A t \in Sessions \ {s} :
               client'[t] = client[t] /\ outcome'[t] = outcome[t] /\ decoded'[t] = decoded[t]
      BY <1>3 DEF TypeOK, LaunchFails, Return, ClientTo
    <2> QED
      BY <2>1, <2>2, Silent
  <1>4. ASSUME NEW s \in Sessions, Consent(s) PROVE UNCHANGED Exchanges!vars
    <2>1. \A t \in Sessions : Phase(t)' = Phase(t)
      BY <1>4 DEF TypeOK, Phase, Consent, ClientTo
    <2>2. CASE client[s] = "launch"
      <3>1. /\ UNCHANGED <<executed, reply>> /\ client[s] # "done" /\ client'[s] # "done"
            /\ \A t \in Sessions \ {s} :
                 client'[t] = client[t] /\ outcome'[t] = outcome[t] /\ decoded'[t] = decoded[t]
        BY <1>4, <2>2 DEF TypeOK, Consent, ClientTo
      <3> QED
        BY <2>1, <3>1, Silent
    \* The window is gone: nothing of it changes.
    <2>3. CASE client[s] # "launch"
      BY <1>4, <2>1, <2>3, Stutters DEF Told, Consent
    <2> QED
      BY <2>2, <2>3
  <1>5. ASSUME NEW s \in Sessions, Refuse(s) PROVE UNCHANGED Exchanges!vars
    <2>1. \A t \in Sessions : Phase(t)' = Phase(t)
      BY <1>5 DEF TypeOK, Phase, Refuse, Return, ClientTo
    <2>2. CASE client[s] = "launch"
      <3>1. /\ UNCHANGED <<executed, reply>> /\ client[s] # "done" /\ client'[s] # "done"
            /\ \A t \in Sessions \ {s} :
                 client'[t] = client[t] /\ outcome'[t] = outcome[t] /\ decoded'[t] = decoded[t]
        BY <1>5, <2>2 DEF TypeOK, Refuse, Return, ClientTo
      <3> QED
        BY <2>1, <3>1, Silent
    \* The window is gone: nothing of it changes.
    <2>3. CASE client[s] # "launch"
      BY <1>5, <2>1, <2>3, Stutters DEF Told, Refuse
    <2> QED
      BY <2>2, <2>3
  <1>6. ASSUME NEW s \in Sessions, Accept(s) PROVE UNCHANGED Exchanges!vars
    <2>1. \A t \in Sessions : Phase(t)' = Phase(t)
      BY <1>6 DEF Phase, Accept, ClientOnly, ClientTo
    <2>2. /\ UNCHANGED <<executed, reply>> /\ client[s] # "done" /\ client'[s] # "done"
          /\ \A t \in Sessions \ {s} :
               client'[t] = client[t] /\ outcome'[t] = outcome[t] /\ decoded'[t] = decoded[t]
      BY <1>6 DEF TypeOK, Accept, ClientOnly, ClientTo
    <2> QED
      BY <2>1, <2>2, Silent
  <1>7. ASSUME NEW s \in Sessions, AcceptFails(s) PROVE UNCHANGED Exchanges!vars
    <2>1. \A t \in Sessions : Phase(t)' = Phase(t)
      BY <1>7 DEF Phase, AcceptFails, Return, ClientTo
    <2>2. /\ UNCHANGED <<executed, reply>> /\ client[s] # "done" /\ client'[s] # "done"
          /\ \A t \in Sessions \ {s} :
               client'[t] = client[t] /\ outcome'[t] = outcome[t] /\ decoded'[t] = decoded[t]
      BY <1>7 DEF TypeOK, AcceptFails, Return, ClientTo
    <2> QED
      BY <2>1, <2>2, Silent
  <1>8. ASSUME NEW s \in Sessions, SeeHello(s) PROVE UNCHANGED Exchanges!vars
    <2>1. \A t \in Sessions : Phase(t)' = Phase(t)
      BY <1>8 DEF Phase, SeeHello, ClientOnly, ClientTo
    <2>2. /\ UNCHANGED <<executed, reply>> /\ client[s] # "done" /\ client'[s] # "done"
          /\ \A t \in Sessions \ {s} :
               client'[t] = client[t] /\ outcome'[t] = outcome[t] /\ decoded'[t] = decoded[t]
      BY <1>8 DEF TypeOK, SeeHello, ClientOnly, ClientTo
    <2> QED
      BY <2>1, <2>2, Silent
  <1>9. ASSUME NEW s \in Sessions, GiveUpHello(s) PROVE UNCHANGED Exchanges!vars
    <2>1. \A t \in Sessions : Phase(t)' = Phase(t)
      BY <1>9 DEF Phase, GiveUpHello, Return, ClientTo
    <2>2. /\ UNCHANGED <<executed, reply>> /\ client[s] # "done" /\ client'[s] # "done"
          /\ \A t \in Sessions \ {s} :
               client'[t] = client[t] /\ outcome'[t] = outcome[t] /\ decoded'[t] = decoded[t]
      BY <1>9 DEF TypeOK, GiveUpHello, Return, ClientTo
    <2> QED
      BY <2>1, <2>2, Silent
  <1>10. ASSUME NEW s \in Sessions, Send(s) PROVE UNCHANGED Exchanges!vars
    <2>1. \A t \in Sessions : Phase(t)' = Phase(t)
      BY <1>10 DEF Phase, Send, ClientTo
    <2>2. /\ UNCHANGED <<executed, reply>> /\ client[s] # "done" /\ client'[s] # "done"
          /\ \A t \in Sessions \ {s} :
               client'[t] = client[t] /\ outcome'[t] = outcome[t] /\ decoded'[t] = decoded[t]
      BY <1>10 DEF TypeOK, Send, ClientTo
    <2> QED
      BY <2>1, <2>2, Silent
  <1>11. ASSUME NEW s \in Sessions, SendFails(s) PROVE UNCHANGED Exchanges!vars
    <2>1. \A t \in Sessions : Phase(t)' = Phase(t)
      BY <1>11 DEF Phase, SendFails, Return, ClientTo
    <2>2. /\ UNCHANGED <<executed, reply>> /\ client[s] # "done" /\ client'[s] # "done"
          /\ \A t \in Sessions \ {s} :
               client'[t] = client[t] /\ outcome'[t] = outcome[t] /\ decoded'[t] = decoded[t]
      BY <1>11 DEF TypeOK, SendFails, Return, ClientTo
    <2> QED
      BY <2>1, <2>2, Silent
  <1>12. ASSUME NEW s \in Sessions, SeeAnswer(s) PROVE UNCHANGED Exchanges!vars
    <2>1. \A t \in Sessions : Phase(t)' = Phase(t)
      BY <1>12 DEF Phase, SeeAnswer, Return, ClientTo
    <2>2. /\ UNCHANGED <<executed, reply>> /\ client[s] # "done" /\ client'[s] # "done"
          /\ \A t \in Sessions \ {s} :
               client'[t] = client[t] /\ outcome'[t] = outcome[t] /\ decoded'[t] = decoded[t]
      BY <1>12 DEF TypeOK, SeeAnswer, Return, ClientTo
    <2> QED
      BY <2>1, <2>2, Silent
  <1>13. ASSUME NEW s \in Sessions, GiveUpAnswer(s) PROVE UNCHANGED Exchanges!vars
    <2>1. \A t \in Sessions : Phase(t)' = Phase(t)
      BY <1>13 DEF Phase, GiveUpAnswer, Return, ClientTo
    <2>2. /\ UNCHANGED <<executed, reply>> /\ client[s] # "done" /\ client'[s] # "done"
          /\ \A t \in Sessions \ {s} :
               client'[t] = client[t] /\ outcome'[t] = outcome[t] /\ decoded'[t] = decoded[t]
      BY <1>13 DEF TypeOK, GiveUpAnswer, Return, ClientTo
    <2> QED
      BY <2>1, <2>2, Silent
  <1>14. ASSUME NEW s \in Sessions, ClientOverrun(s) PROVE UNCHANGED Exchanges!vars
    <2>1. \A t \in Sessions : Phase(t)' = Phase(t)
      BY <1>14 DEF Phase, ClientOverrun, ClientGuarded, ClientTo
    <2>2. /\ UNCHANGED <<executed, reply>> /\ client[s] # "done" /\ client'[s] # "done"
          /\ \A t \in Sessions \ {s} :
               client'[t] = client[t] /\ outcome'[t] = outcome[t] /\ decoded'[t] = decoded[t]
      BY <1>14 DEF TypeOK, ClientOverrun, ClientGuarded, ClientTo
    <2> QED
      BY <2>1, <2>2, Silent
  <1>15. ASSUME NEW s \in Sessions, Connect(s) PROVE UNCHANGED Exchanges!vars
    <2>1. \A t \in Sessions : Phase(t)' = Phase(t)
      BY <1>15 DEF TypeOK, Phase, Connect, HelperTo
    <2> QED
      BY <1>15, <2>1, Stutters DEF Told, Connect
  <1>16. ASSUME NEW s \in Sessions, Rearm(s) PROVE UNCHANGED Exchanges!vars
    <2>1. \A t \in Sessions : Phase(t)' = Phase(t)
      BY <1>16 DEF TypeOK, Phase, Rearm, HelperTo
    <2> QED
      BY <1>16, <2>1, Stutters DEF Told, Rearm
  <1>17. ASSUME NEW s \in Sessions, Greet(s) PROVE UNCHANGED Exchanges!vars
    <2>1. \A t \in Sessions : Phase(t)' = Phase(t)
      BY <1>17 DEF TypeOK, Phase, Greet, HelperTo
    <2> QED
      BY <1>17, <2>1, Stutters DEF Told, Greet
  <1>18. ASSUME NEW s \in Sessions, Receive(s) PROVE UNCHANGED Exchanges!vars
    <2>1. \A t \in Sessions : Phase(t)' = Phase(t)
      BY <1>18 DEF TypeOK, Phase, Receive, HelperTo
    <2> QED
      BY <1>18, <2>1, Stutters DEF Told, Receive
  <1>19. ASSUME NEW s \in Sessions, Create(s) PROVE UNCHANGED Exchanges!vars
    <2>1. \A t \in Sessions : Phase(t)' = Phase(t)
      BY <1>19 DEF TypeOK, Phase, Create, HelperTo
    <2> QED
      BY <1>19, <2>1, Stutters DEF Told, Create
  <1>20. ASSUME NEW s \in Sessions, Close(s) PROVE UNCHANGED Exchanges!vars
    <2>1. \A t \in Sessions : Phase(t)' = Phase(t)
      BY <1>20 DEF TypeOK, Phase, Close, HelperTo
    <2> QED
      BY <1>20, <2>1, Stutters DEF Told, Close
  <1>21. ASSUME NEW s \in Sessions, Respond(s) PROVE UNCHANGED Exchanges!vars
    <2>1. \A t \in Sessions : Phase(t)' = Phase(t)
      BY <1>21 DEF TypeOK, Phase, Respond, HelperTo, MutexInv, ReplyInv, Responses, Before
    <2> QED
      BY <1>21, <2>1, Stutters DEF Told, Respond
  <1>22. ASSUME NEW s \in Sessions, ConnectFails(s) PROVE [Exchanges!Next]_Exchanges!vars
    <2>1. Phase(s)' = "over" /\ \A t \in Sessions \ {s} : Phase(t)' = Phase(t)
      BY <1>22 DEF TypeOK, Phase, ConnectFails, Gone
    <2>2. UNCHANGED executed /\ \A t \in Sessions : Told(t)' = Told(t)
      BY <1>22 DEF Told, ConnectFails, Gone
    <2> QED
      BY <2>1, <2>2, Ends
  <1>23. ASSUME NEW s \in Sessions, GreetFails(s) PROVE [Exchanges!Next]_Exchanges!vars
    <2>1. Phase(s)' = "over" /\ \A t \in Sessions \ {s} : Phase(t)' = Phase(t)
      BY <1>23 DEF TypeOK, Phase, GreetFails, HelperTo
    <2>2. UNCHANGED executed /\ \A t \in Sessions : Told(t)' = Told(t)
      BY <1>23 DEF Told, GreetFails, HelperTo
    <2> QED
      BY <2>1, <2>2, Ends
  <1>24. ASSUME NEW s \in Sessions, ReceiveFails(s) PROVE [Exchanges!Next]_Exchanges!vars
    <2>1. Phase(s)' = "over" /\ \A t \in Sessions \ {s} : Phase(t)' = Phase(t)
      BY <1>24 DEF TypeOK, Phase, ReceiveFails, HelperTo
    <2>2. UNCHANGED executed /\ \A t \in Sessions : Told(t)' = Told(t)
      BY <1>24 DEF Told, ReceiveFails, HelperTo
    <2> QED
      BY <2>1, <2>2, Ends
  <1>25. ASSUME NEW s \in Sessions, CreateFails(s) PROVE [Exchanges!Next]_Exchanges!vars
    <2>1. Phase(s)' = "over" /\ \A t \in Sessions \ {s} : Phase(t)' = Phase(t)
      BY <1>25 DEF TypeOK, Phase, CreateFails, Refusing, HelperTo
    <2>2. UNCHANGED executed /\ \A t \in Sessions : Told(t)' = Told(t)
      BY <1>25 DEF Told, CreateFails, Refusing, HelperTo
    <2> QED
      BY <2>1, <2>2, Ends
  <1>26. ASSUME NEW s \in Sessions, WaitFails(s) PROVE [Exchanges!Next]_Exchanges!vars
    <2>1. Phase(s)' = "over" /\ \A t \in Sessions \ {s} : Phase(t)' = Phase(t)
      BY <1>26 DEF TypeOK, Phase, WaitFails, Refusing, HelperTo
    <2>2. UNCHANGED executed /\ \A t \in Sessions : Told(t)' = Told(t)
      BY <1>26 DEF Told, WaitFails, Refusing, HelperTo
    <2> QED
      BY <2>1, <2>2, Ends
  <1>27. ASSUME NEW s \in Sessions, AcquireAbandoned(s) PROVE [Exchanges!Next]_Exchanges!vars
    <2>1. Phase(s)' = "over" /\ \A t \in Sessions \ {s} : Phase(t)' = Phase(t)
      BY <1>27 DEF TypeOK, Phase, AcquireAbandoned, Refusing, HelperTo
    <2>2. UNCHANGED executed /\ \A t \in Sessions : Told(t)' = Told(t)
      BY <1>27 DEF Told, AcquireAbandoned, Refusing, HelperTo
    <2> QED
      BY <2>1, <2>2, Ends
  <1>28. ASSUME NEW s \in Sessions, ConstructFails(s) PROVE [Exchanges!Next]_Exchanges!vars
    <2>1. Phase(s)' = "over" /\ \A t \in Sessions \ {s} : Phase(t)' = Phase(t)
      BY <1>28 DEF TypeOK, Phase, ConstructFails, Refusing, HelperTo
    <2>2. UNCHANGED executed /\ \A t \in Sessions : Told(t)' = Told(t)
      BY <1>28 DEF Told, ConstructFails, Refusing, HelperTo
    <2> QED
      BY <2>1, <2>2, Ends
  <1>29. ASSUME NEW s \in Sessions, Release(s) PROVE [Exchanges!Next]_Exchanges!vars
    <2>1. Phase(s)' = "over" /\ \A t \in Sessions \ {s} : Phase(t)' = Phase(t)
      BY <1>29 DEF TypeOK, Phase, Release, HelperTo
    <2>2. UNCHANGED executed /\ \A t \in Sessions : Told(t)' = Told(t)
      BY <1>29 DEF Told, Release, HelperTo
    <2> QED
      BY <2>1, <2>2, Ends
  <1>30. ASSUME NEW s \in Sessions, Exit(s) PROVE [Exchanges!Next]_Exchanges!vars
    <2>1. Phase(s)' = "over" /\ \A t \in Sessions \ {s} : Phase(t)' = Phase(t)
      BY <1>30 DEF TypeOK, Phase, Exit, Gone
    <2>2. UNCHANGED executed /\ \A t \in Sessions : Told(t)' = Told(t)
      BY <1>30 DEF Told, Exit, Gone
    <2> QED
      BY <2>1, <2>2, Ends
  <1>31. ASSUME NEW s \in Sessions, Panic(s) PROVE [Exchanges!Next]_Exchanges!vars
    <2>1. Phase(s)' = "over" /\ \A t \in Sessions \ {s} : Phase(t)' = Phase(t)
      BY <1>31 DEF TypeOK, Phase, Panic, Gone
    <2>2. UNCHANGED executed /\ \A t \in Sessions : Told(t)' = Told(t)
      BY <1>31 DEF Told, Panic, Gone
    <2> QED
      BY <2>1, <2>2, Ends
  <1>32. ASSUME NEW s \in Sessions, Killing(s) PROVE [Exchanges!Next]_Exchanges!vars
    <2>1. Phase(s)' = "over" /\ \A t \in Sessions \ {s} : Phase(t)' = Phase(t)
      BY <1>32, KilledOnly DEF TypeOK, Phase, Killed, Gone
    <2>2. UNCHANGED executed /\ \A t \in Sessions : Told(t)' = Told(t)
      BY <1>32, KilledOnly DEF Told, Killed, Gone
    <2> QED
      BY <2>1, <2>2, Ends
  <1>33. ASSUME NEW s \in Sessions, Acquire(s) PROVE Exchanges!Begin(s)
    <2>1. /\ Phase(s) = "pending" /\ Phase(s)' = "running"
          /\ \A t \in Sessions \ {s} : Phase(t)' = Phase(t)
      BY <1>33 DEF TypeOK, Phase, Acquire, HelperTo
    <2>2. \A t \in Sessions : Phase(t) # "running"
      BY <1>33 DEF MutexInv, Guarded, Acquire
    <2>3. Told(s) \in {"none", "unknownAfterSend"}
      BY <1>33 DEF TypeOK, RequestInv, ReplyInv, Received, Told, NotSent, Outcomes, Acquire, HelperTo
    <2>4. UNCHANGED executed /\ \A t \in Sessions : Told(t)' = Told(t)
      BY <1>33 DEF Told, Acquire
    <2> QED
      BY <2>1, <2>2, <2>3, <2>4 DEF Exchanges!Begin
  <1>34. ASSUME NEW s \in Sessions, Execute(s) PROVE Exchanges!Execute(s)
    <2>1. Phase(s) = "running" /\ \A t \in Sessions : Phase(t)' = Phase(t)
      BY <1>34 DEF TypeOK, Phase, Execute, HelperTo
    <2>2. executed' = executed \cup {s} /\ \A t \in Sessions : Told(t)' = Told(t)
      BY <1>34 DEF Told, Execute
    <2> QED
      BY <2>1, <2>2 DEF Exchanges!Execute
  <1>35. ASSUME NEW s \in Sessions, Stop(s) PROVE [Exchanges!Next]_Exchanges!vars
    <2>1. UNCHANGED executed /\ \A t \in Sessions : Phase(t)' = Phase(t)
      BY <1>35 DEF Phase, Stop
    <2>2. /\ Told(s) = "none"
          /\ \A t \in Sessions \ {s} : Told(t)' = Told(t)
      BY <1>35 DEF TypeOK, Told, Stop, ClientTo
    <2> DEFINE o == outcome'[s]
    <2>3. /\ o \in {outcome[s], CleanedUp(s, outcome[s])}
          /\ o = outcome'[s] /\ client'[s] = "done" /\ decoded'[s] = decoded[s]
          /\ client[s] = "stop"
      BY <1>35 DEF TypeOK, Stop, ClientTo
    <2>4. o \in Outcomes
      BY <1>35, TypingStep DEF TypeOK
    <2> HIDE DEF o
    <2>5. CASE o \in NotSent
      <3>1. s \notin committed
        BY <2>3, <2>5 DEF RequestInv, CleanedUp, NotSent
      <3>2. Phase(s) # "running" /\ s \notin executed
        BY <3>1 DEF RequestInv, Received, Phase
      <3>3. Told(s)' = "notSent"
        BY <2>3, <2>5 DEF Told
      <3> QED
        BY <2>1, <2>2, <3>2, <3>3 DEF Exchanges!TellNotSent, Exchanges!Tell, Exchanges!Next
    <2>6. CASE o = "unknownAfterSend"
      <3>1. Told(s)' = "unknownAfterSend"
        BY <2>3, <2>6 DEF Told, NotSent
      <3> QED
        BY <2>1, <2>2, <3>1 DEF Exchanges!TellUnknown, Exchanges!Tell, Exchanges!Next
    <2>7. CASE o = "answer"
      <3>1. outcome[s] = "answer"
        BY <2>3, <2>7 DEF CleanedUp
      <3>2. Phase(s) = "over"
        BY <3>1 DEF ReplyInv, Phase
      <3>3. Told(s)' = IF s \in executed THEN "report" ELSE "refused"
        BY <2>3, <2>7, <3>1 DEF TypeOK, ReplyInv, Responses, Told, NotSent
      <3> QED
        BY <2>1, <2>2, <3>2, <3>3 DEF Exchanges!TellAnswer, Exchanges!Tell, Exchanges!Next
    <2>8. CASE o = "none"
      <3>1. Told(s)' = "none"
        BY <2>3, <2>8 DEF Told, NotSent
      <3> QED
        BY <2>1, <2>2, <3>1, Stutters
    <2> QED
      BY <2>4, <2>5, <2>6, <2>7, <2>8 DEF Outcomes, NotSent
  <1> QED
    BY <1>1, <1>2, <1>3, <1>4, <1>5, <1>6, <1>7, <1>8, <1>9, <1>10, <1>11,
       <1>12, <1>13, <1>14, <1>15, <1>16, <1>17, <1>18, <1>19, <1>20, <1>21,
       <1>22, <1>23, <1>24, <1>25, <1>26, <1>27, <1>28, <1>29, <1>30, <1>31,
       <1>32, <1>33, <1>34, <1>35
       DEF Next, Client, Serve, Killing, Exchanges!Next

\* Overlapping exchanges on Windows keep every promise of Exchange, whatever the
\* watchdogs cut off.
THEOREM Refinement == Spec => ImplementsExchange
  BY RefinesInit, RefinesStep, Invariance, PTL
     DEF Spec, ImplementsExchange, Exchanges!Spec

=============================================================================
