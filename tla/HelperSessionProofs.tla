------------------------- MODULE HelperSessionProofs -------------------------
(***************************************************************************)
(* Safety of HelperSession for any number of overlapping exchanges.        *)
(***************************************************************************)
EXTENDS HelperSession, TLAPS

\* Control points at which the request has been received.
Received == {"acquire", "run", "respond", "release", "exit"}

\* The lock and the control points that hold it describe each other.
LockInv ==
  /\ lock # None => helper[lock] \in {"run", "respond", "release"}
  /\ \A s \in Sessions : HoldsMachine(s) => lock = s

\* A helper past its input has a complete request; a complete request was
\* acknowledged by a client that has not reported it as unsent since.
RequestInv ==
  \A s \in Sessions :
    /\ helper[s] \in Received \/ s \in executed => request[s] = "full"
    /\ request[s] = "full" =>
         \/ client[s] = "await"
         \/ client[s] = "done" /\ outcome[s] \notin NotSent
    /\ client[s] # "done" => outcome[s] = "none"
    /\ client[s] = "idle" => helper[s] = "absent"

\* What the helper answers, and what its exit status says about it.
ReplyInv ==
  \A s \in Sessions :
    /\ reply[s] = "report" <=> s \in executed
    /\ status[s] # "none" => helper[s] = "gone"
    /\ s \in sent \/ helper[s] = "respond" => reply[s] # "none"
    /\ helper[s] \in {"absent", "auth", "hello", "receive", "acquire", "run"} =>
         s \notin executed /\ s \notin sent
    /\ outcome[s] = "answer" => status[s] = "ok" /\ s \in sent /\ decoded[s] = reply[s]

\* The inductive invariant.
IInv == TypeOK /\ LockInv /\ RequestInv /\ ReplyInv

USE NoneAssumption

-----------------------------------------------------------------------------

\* Every initial state satisfies the invariant.
LEMMA InvInit == Init => IInv
  BY DEF Init, IInv, TypeOK, LockInv, RequestInv, ReplyInv, HoldsMachine,
         ClientPCs, Outcomes, HelperPCs, Statuses, Responses, NotSent, Received

\* Every step keeps the state well typed.
LEMMA TypingStep == TypeOK /\ [Next]_vars => TypeOK'
  <1> SUFFICES ASSUME TypeOK, [Next]_vars PROVE TypeOK'
    OBVIOUS
  <1> USE DEF TypeOK, ClientPCs, Outcomes, HelperPCs, Statuses, Responses,
              clientVars, helperVars, pipeVars
  <1>1. CASE UNCHANGED vars
    BY <1>1 DEF vars
  <1>2. ASSUME NEW s \in Sessions, Spawn(s) \/ SpawnFails(s) PROVE TypeOK'
    BY <1>2 DEF Spawn, SpawnFails, Return
  <1>3. ASSUME NEW s \in Sessions, Client(s) PROVE TypeOK'
    BY <1>3 DEF Client, SeeHello, SeeEarlyExit, EarlyOutcome, GiveUpHello, Send,
       SendFails, SeeAnswer, SeeFailedExit, GiveUpAnswer, Return
  <1>4. ASSUME NEW s \in Sessions, Authorize(s) \/ AuthorizeFails(s) \/ Die(s)
        PROVE TypeOK'
    BY <1>4 DEF Authorize, AuthorizeFails, Die, Gone
  <1>5. ASSUME NEW s \in Sessions, Serve(s) PROVE TypeOK'
    BY <1>5 DEF Serve, Greet, GreetFails, Receive, ReceiveFails, Acquire,
       AcquireFails, Execute, Respond, Release, Exit, Gone
  <1> QED
    BY <1>1, <1>2, <1>3, <1>4, <1>5 DEF Next

\* Every step preserves the rest of the invariant.
LEMMA InvStep == IInv /\ [Next]_vars => IInv'
  <1> SUFFICES ASSUME IInv, [Next]_vars PROVE (LockInv /\ RequestInv /\ ReplyInv)'
    BY TypingStep DEF IInv
  <1>0. TypeOK /\ TypeOK'
    BY TypingStep DEF IInv
  <1>1. CASE UNCHANGED vars
    BY <1>1 DEF vars, clientVars, helperVars, pipeVars, IInv, LockInv, RequestInv,
       ReplyInv, HoldsMachine
  <1>2. ASSUME NEW s \in Sessions,
               \/ Spawn(s) \/ SpawnFails(s) \/ Client(s)
               \/ Authorize(s) \/ AuthorizeFails(s) \/ Serve(s) \/ Die(s)
        PROVE  (LockInv /\ RequestInv /\ ReplyInv)'
    <2> USE <1>0 DEF IInv, TypeOK, LockInv, RequestInv, ReplyInv, HoldsMachine,
                     NotSent, Received, clientVars, helperVars, pipeVars
    <2>1. CASE Spawn(s)
      BY <2>1 DEF Spawn
    <2>2. CASE SpawnFails(s)
      BY <2>2 DEF SpawnFails, Return
    <2>3. CASE SeeHello(s)
      BY <2>3 DEF SeeHello
    <2>4. CASE SeeEarlyExit(s)
      BY <2>4 DEF SeeEarlyExit, Return, EarlyOutcome
    <2>5. CASE GiveUpHello(s)
      BY <2>5 DEF GiveUpHello, Return
    <2>6. CASE Send(s)
      BY <2>6 DEF Send
    <2>7. CASE SendFails(s)
      BY <2>7 DEF SendFails, Return
    <2>8. CASE SeeAnswer(s)
      BY <2>8 DEF SeeAnswer, Return
    <2>9. CASE SeeFailedExit(s)
      BY <2>9 DEF SeeFailedExit, Return
    <2>10. CASE GiveUpAnswer(s)
      BY <2>10 DEF GiveUpAnswer, Return
    <2>11. CASE Authorize(s)
      BY <2>11 DEF Authorize
    <2>12. CASE AuthorizeFails(s)
      BY <2>12 DEF AuthorizeFails, Gone
    <2>13. CASE Greet(s)
      BY <2>13 DEF Greet
    <2>14. CASE GreetFails(s)
      BY <2>14 DEF GreetFails, Gone
    <2>15. CASE Receive(s)
      BY <2>15 DEF Receive, Decodes
    <2>16. CASE ReceiveFails(s)
      BY <2>16 DEF ReceiveFails, Gone
    <2>17. CASE Acquire(s)
      BY <2>17 DEF Acquire
    <2>18. CASE AcquireFails(s)
      BY <2>18 DEF AcquireFails
    <2>19. CASE Execute(s)
      BY <2>19 DEF Execute
    <2>20. CASE Respond(s)
      BY <2>20 DEF Respond
    <2>21. CASE Release(s)
      BY <2>21 DEF Release
    <2>22. CASE Exit(s)
      BY <2>22 DEF Exit, Gone
    <2>23. CASE Die(s)
      BY <2>23 DEF Die, Gone
    <2> QED
      BY <1>2, <2>1, <2>2, <2>3, <2>4, <2>5, <2>6, <2>7, <2>8, <2>9, <2>10, <2>11, <2>12, <2>13, <2>14, <2>15, <2>16, <2>17, <2>18, <2>19, <2>20, <2>21, <2>22, <2>23 DEF Client, Serve
  <1> QED
    BY <1>1, <1>2 DEF Next

-----------------------------------------------------------------------------

\* The inductive invariant holds in every reachable state.
THEOREM Invariance == Spec => []IInv
  BY InvInit, InvStep, PTL DEF Spec

\* No two operations overlap, for any number of exchanges.
THEOREM Exclusion == Spec => []OneOperation
  <1>1. IInv => OneOperation
    BY DEF IInv, LockInv, OneOperation
  <1> QED
    BY <1>1, Invariance, PTL

\* An exchange reported as not sent never runs, at any later time.
THEOREM UnsentNeverRuns == Spec => []NotSentNeverRuns
  <1>1. IInv => NotSentNeverRuns
    BY DEF IInv, RequestInv, NotSentNeverRuns, NotSent
  <1> QED
    BY <1>1, Invariance, PTL

\* An answer is final, and says truly whether the operation ran.
THEOREM FinalAnswer == Spec => []AnswerIsFinal
  <1>1. IInv => AnswerIsFinal
    BY DEF IInv, TypeOK, LockInv, ReplyInv, AnswerIsFinal
  <1> QED
    BY <1>1, Invariance, PTL

-----------------------------------------------------------------------------

\* Initial states of the exchanges are initial states of Exchange.
LEMMA RefinesInit == Init => Exchanges!Init
  BY DEF Init, Exchanges!Init, Phase, Told, NotSent

\* The end of a helper ends its operation, if it was not over, and nothing else.
LEMMA GoneEnds ==
  ASSUME TypeOK, NEW s \in Sessions, NEW code, Gone(s, code),
         UNCHANGED <<clientVars, reply, executed, pipeVars>>
  PROVE  IF Phase(s) = "over" THEN UNCHANGED Exchanges!vars ELSE Exchanges!End(s)
  <1> USE DEF TypeOK, Gone, clientVars, pipeVars
  <1>1. Phase(s)' = "over" /\ \A t \in Sessions \ {s} : Phase(t)' = Phase(t)
    BY DEF Phase, HoldsMachine
  <1>2. \A t \in Sessions : Told(t)' = Told(t)
    BY DEF Told
  <1> QED
    BY <1>1, <1>2 DEF Exchanges!End, Exchanges!vars

\* Every step is a step of Exchange or leaves it alone.
LEMMA RefinesStep == IInv /\ [Next]_vars => [Exchanges!Next]_Exchanges!vars
  <1> SUFFICES ASSUME IInv, [Next]_vars PROVE [Exchanges!Next]_Exchanges!vars
    OBVIOUS
  <1> USE DEF IInv, TypeOK, LockInv, RequestInv, ReplyInv, HoldsMachine, NotSent,
              Received, Phase, Told, Responses, clientVars, helperVars, pipeVars,
              Exchanges!vars
  <1>1. CASE UNCHANGED vars
    BY <1>1 DEF vars
  <1>2. ASSUME NEW s \in Sessions, Spawn(s) \/ Authorize(s)
        PROVE  UNCHANGED Exchanges!vars
    BY <1>2 DEF Spawn, Authorize
  <1>3. ASSUME NEW s \in Sessions,
               SpawnFails(s) \/ SeeEarlyExit(s) \/ GiveUpHello(s) \/ SendFails(s)
        PROVE  Exchanges!TellNotSent(s)
    <2>1. CASE SpawnFails(s)
      BY <2>1 DEF SpawnFails, Return, Exchanges!TellNotSent, Exchanges!Tell
    <2>2. CASE SeeEarlyExit(s)
      BY <2>2 DEF SeeEarlyExit, EarlyOutcome, Return,
         Exchanges!TellNotSent, Exchanges!Tell
    <2>3. CASE GiveUpHello(s)
      BY <2>3 DEF GiveUpHello, Return, Exchanges!TellNotSent, Exchanges!Tell
    <2>4. CASE SendFails(s)
      BY <2>4 DEF SendFails, Return, Exchanges!TellNotSent, Exchanges!Tell
    <2> QED
      BY <1>3, <2>1, <2>2, <2>3, <2>4
  <1>4. ASSUME NEW s \in Sessions, SeeHello(s) \/ Send(s)
        PROVE  UNCHANGED Exchanges!vars
    BY <1>4 DEF SeeHello, Send
  <1>5. ASSUME NEW s \in Sessions, SeeAnswer(s)
        PROVE  Exchanges!TellAnswer(s)
    BY <1>5 DEF SeeAnswer, Return, Exchanges!TellAnswer, Exchanges!Tell
  <1>6. ASSUME NEW s \in Sessions, SeeFailedExit(s) \/ GiveUpAnswer(s)
        PROVE  Exchanges!TellUnknown(s)
    <2>1. CASE SeeFailedExit(s)
      BY <2>1 DEF SeeFailedExit, Return, Exchanges!TellUnknown,
         Exchanges!Tell
    <2>2. CASE GiveUpAnswer(s)
      BY <2>2 DEF GiveUpAnswer, Return, Exchanges!TellUnknown,
         Exchanges!Tell
    <2> QED
      BY <1>6, <2>1, <2>2
  <1>7. ASSUME NEW s \in Sessions, AuthorizeFails(s) \/ GreetFails(s) \/ ReceiveFails(s)
        PROVE  Exchanges!End(s)
    <2>1. CASE AuthorizeFails(s)
      BY <2>1, GoneEnds DEF AuthorizeFails
    <2>2. CASE GreetFails(s)
      BY <2>2, GoneEnds DEF GreetFails
    <2>3. CASE ReceiveFails(s)
      BY <2>3, GoneEnds DEF ReceiveFails
    <2> QED
      BY <1>7, <2>1, <2>2, <2>3
  <1>8. ASSUME NEW s \in Sessions, Greet(s) \/ Receive(s) \/ Respond(s)
        PROVE  UNCHANGED Exchanges!vars
    BY <1>8 DEF Greet, Receive, Respond
  <1>9. ASSUME NEW s \in Sessions, Acquire(s)
        PROVE  Exchanges!Begin(s)
    BY <1>9 DEF Acquire, Exchanges!Begin, Outcomes
  <1>10. ASSUME NEW s \in Sessions, AcquireFails(s)
         PROVE  Exchanges!End(s)
    BY <1>10 DEF AcquireFails, Exchanges!End
  <1>11. ASSUME NEW s \in Sessions, Execute(s)
         PROVE  Exchanges!Execute(s)
    BY <1>11 DEF Execute, Exchanges!Execute
  <1>12. ASSUME NEW s \in Sessions, Release(s) \/ Exit(s) \/ Die(s)
         PROVE  Exchanges!End(s) \/ UNCHANGED Exchanges!vars
    <2>1. CASE Release(s)
      BY <2>1 DEF Release, Exchanges!End
    <2>2. CASE Exit(s)
      BY <2>2, GoneEnds DEF Exit
    <2>3. CASE Die(s)
      BY <2>3, GoneEnds DEF Die
    <2> QED
      BY <1>12, <2>1, <2>2, <2>3
  <1> QED
    BY <1>1, <1>2, <1>3, <1>4, <1>5, <1>6, <1>7, <1>8, <1>9, <1>10, <1>11, <1>12
       DEF Next, Client, Serve, Exchanges!Next

\* Overlapping exchanges on Linux keep every promise of Exchange.
THEOREM Refinement == Spec => ImplementsExchange
  BY RefinesInit, RefinesStep, Invariance, PTL
     DEF Spec, ImplementsExchange, Exchanges!Spec

=============================================================================
