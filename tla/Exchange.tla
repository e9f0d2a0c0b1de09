------------------------------ MODULE Exchange ------------------------------
(***************************************************************************)
(* What an exchange with the elevated helper promises to the window and to *)
(* the machine, on either platform: an operation is under way for at most  *)
(* one of the exchanges, it begins at most once, and what the window is    *)
(* told agrees with what was done and stays true.                          *)
(***************************************************************************)

CONSTANTS
  Sessions   \* exchanges

VARIABLES
  op,        \* [Sessions -> {"pending", "running", "over"}]
  executed,  \* exchanges whose operation has been carried out
  told       \* [Sessions -> what the window was told, "none" at first]

vars == <<op, executed, told>>

Init ==
  /\ op = [s \in Sessions |-> "pending"]
  /\ executed = {}
  /\ told = [s \in Sessions |-> "none"]

\* The operation has the machine for itself.  It does not begin once the window
\* has been told that it did not or what came of it.
Begin(s) ==
  /\ op[s] = "pending" /\ \A t \in Sessions : op[t] # "running"
  /\ told[s] \in {"none", "unknownAfterSend"}
  /\ op' = [op EXCEPT ![s] = "running"]
  /\ UNCHANGED <<executed, told>>

\* The operation is carried out; its report and the release of the machine
\* follow.
Execute(s) ==
  /\ op[s] = "running" /\ executed' = executed \cup {s}
  /\ UNCHANGED <<op, told>>

\* The operation is over, or will not begin.
End(s) ==
  /\ op[s] # "over" /\ op' = [op EXCEPT ![s] = "over"]
  /\ UNCHANGED <<executed, told>>

\* The window is told once.
Tell(s, what) ==
  /\ told[s] = "none" /\ told' = [told EXCEPT ![s] = what]
  /\ UNCHANGED <<op, executed>>

\* The request was not sent: it has not run and is not running.
TellNotSent(s) == op[s] # "running" /\ s \notin executed /\ Tell(s, "notSent")

\* Nothing is promised.
TellUnknown(s) == Tell(s, "unknownAfterSend")

\* The request was refused, or carried out with this report.
TellAnswer(s) ==
  /\ op[s] = "over"
  /\ Tell(s, IF s \in executed THEN "report" ELSE "refused")

Next ==
  \E s \in Sessions :
    \/ Begin(s) \/ Execute(s) \/ End(s)
    \/ TellNotSent(s) \/ TellUnknown(s) \/ TellAnswer(s)

Spec == Init /\ [][Next]_vars

=============================================================================
