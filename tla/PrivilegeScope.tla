--------------------------- MODULE PrivilegeScope ---------------------------
(***************************************************************************)
(* with_privilege (windows/privilege.rs): one privilege of the process     *)
(* token is enabled, one native call is made, and what                     *)
(* AdjustTokenPrivileges said was there before is put back, over a system  *)
(* that can refuse or garble every one of these calls.                     *)
(*                                                                         *)
(* Every read of a firmware variable and the request to restart run in a   *)
(* scope of their own (FirmwareAccess).                                    *)
(***************************************************************************)
EXTENDS Naturals

CONSTANT Privileges   \* Privilege

ASSUME SomePrivilege == Privileges # {}

Attributes == {"on", "off", "absent"}

\* PreviousState of an adjustment: no entry, not usable, or the one attribute
\* that was replaced.
Priors == {"empty", "invalid", "on", "off"}

\* What an operation makes of its native call; "panic" unwinds.
Outcomes == {"ok", "failed", "panic"}

VARIABLES
  token,     \* attribute of each privilege in the process token
  handles,   \* token handles that are open
  scope,     \* PrivilegeScope, its control point and its answer
  atStart,   \* history: the token when the process started
  leaky      \* history: a scope could not restore what it found

scopeVars == <<token, handles, scope, atStart, leaky>>

NoScope == [at |-> "none", priv |-> CHOOSE p \in Privileges : TRUE,
            prior |-> "empty", said |-> "ok", unclean |-> FALSE]

ScopeInit ==
  /\ token \in [Privileges -> Attributes]
  /\ handles = 0
  /\ scope = NoScope
  /\ atStart = token
  /\ leaky = FALSE

\* What one AdjustTokenPrivileges for p can do: change the attribute and hand
\* out the old one; find nothing to change; find the privilege not assigned;
\* fail, without a usable PreviousState (its length stays zero); change it
\* and garble PreviousState (previous_state_layout_valid).
Adjusted(p, v) ==
  LET changed == [token EXCEPT ![p] = v]
  IN  {[token |-> token, prior |-> "invalid", good |-> FALSE]} \cup
      IF token[p] = "absent"
        THEN {[token |-> token, prior |-> "empty", good |-> FALSE]}
      ELSE {[token |-> changed, prior |-> "invalid", good |-> FALSE],
            [token |-> changed, good |-> TRUE,
             prior |-> IF token[p] = v THEN "empty" ELSE token[p]]}

\* acquire: the token is opened, or the scope ends before it began.
Acquire(p) ==
  /\ scope.at = "none"
  /\ \/ /\ handles' = handles + 1
        /\ scope' = [NoScope EXCEPT !.at = "lookup", !.priv = p]
     \/ /\ scope' = [NoScope EXCEPT !.at = "ended", !.priv = p, !.said = "failed"]
        /\ UNCHANGED handles
  /\ UNCHANGED <<token, atStart, leaky>>

\* acquire: the privilege's LUID; without it the handle is closed at once.
Lookup ==
  /\ scope.at = "lookup"
  /\ \/ scope' = [scope EXCEPT !.at = "enable"]
     \/ scope' = [scope EXCEPT !.at = "close", !.said = "failed"]
  /\ UNCHANGED <<token, handles, atStart, leaky>>

\* enable
Enable ==
  /\ scope.at = "enable"
  /\ \E a \in Adjusted(scope.priv, "on") :
       /\ token' = a.token
       /\ scope' = [scope EXCEPT !.prior = a.prior,
                                 !.at = IF a.good THEN "operate" ELSE "restore",
                                 !.said = IF a.good THEN @ ELSE "failed"]
  /\ UNCHANGED <<handles, atStart, leaky>>

\* The operation returns or unwinds; either way the scope is cleaned up
\* (finish, Drop).
Operated(outcome) ==
  /\ scope.at = "operate"
  /\ scope' = [scope EXCEPT !.at = "restore", !.said = outcome]
  /\ UNCHANGED <<token, handles, atStart, leaky>>

\* Fault: an unusable PreviousState is taken for an empty one.
RestoreLenient ==
  /\ scope.at = "restore"
  /\ IF scope.prior \in {"empty", "invalid"}
       THEN scope' = [scope EXCEPT !.at = "close"] /\ UNCHANGED token
       ELSE \E a \in Adjusted(scope.priv, scope.prior) :
              /\ token' = a.token
              /\ scope' = [scope EXCEPT !.at = "close", !.unclean = ~a.good]
  /\ UNCHANGED <<handles, atStart, leaky>>

\* restore_and_close, first half: exactly the previous state is replayed, and
\* only one that is known.
Restore ==
  /\ scope.at = "restore"
  /\ \/ /\ scope.prior = "invalid"
        /\ scope' = [scope EXCEPT !.at = "close", !.unclean = TRUE]
        /\ UNCHANGED token
     \/ /\ scope.prior = "empty"
        /\ scope' = [scope EXCEPT !.at = "close"]
        /\ UNCHANGED token
     \/ /\ scope.prior \in {"on", "off"}
        /\ \E a \in Adjusted(scope.priv, scope.prior) :
             /\ token' = a.token
             /\ scope' = [scope EXCEPT !.at = "close", !.unclean = ~a.good]
  /\ UNCHANGED <<handles, atStart, leaky>>

\* restore_and_close, second half; CloseHandle may fail and keep the handle.
Close ==
  /\ scope.at = "close"
  /\ \/ handles' = handles - 1 /\ scope' = [scope EXCEPT !.at = "ended"]
     \/ /\ scope' = [scope EXCEPT !.at = "ended", !.unclean = TRUE]
        /\ UNCHANGED handles
  /\ leaky' = (leaky \/ scope'.unclean)
  /\ UNCHANGED <<token, atStart>>

\* Fault: the result of the operation covers a failed restoration.
AnswerOptimistic == scope.said

\* finish: a failed restoration supersedes the operation's result; Drop aborts
\* the process instead when there is nobody to tell.
Answer ==
  IF ~scope.unclean THEN scope.said
  ELSE IF scope.said = "panic" THEN "abort" ELSE "unrestored"

\* The caller has taken the answer.
Dispose ==
  /\ scope.at = "ended"
  /\ scope' = NoScope
  /\ UNCHANGED <<token, handles, atStart, leaky>>

ScopeStep == Lookup \/ Enable \/ Restore \/ Close

ScopeNext ==
  \/ \E p \in Privileges : Acquire(p)
  \/ ScopeStep \/ Dispose
  \/ \E outcome \in Outcomes : Operated(outcome)

ScopeSpec == ScopeInit /\ [][ScopeNext]_scopeVars

\* A scope that did not report PrivilegeRestoreFailed, after others that did
\* not, has left the token exactly as the process started with it and no
\* handle open, whatever the system refused on the way (privilege.rs:
\* restoration failure always supersedes the operation result).
ScopeRestores ==
  scope.at \in {"none", "ended"} /\ ~leaky => token = atStart /\ handles = 0

=============================================================================
