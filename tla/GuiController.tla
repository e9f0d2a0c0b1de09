---------------------------- MODULE GuiController ----------------------------
(***************************************************************************)
(* The state machine behind the window (gui/src/controller.rs): intents of *)
(* the user become at most one request to a helper, its completion comes   *)
(* back over a channel from a worker thread, and what it says decides      *)
(* which intents are open next.                                            *)
(*                                                                         *)
(* A completion is any report or error the wire can carry, not only those  *)
(* of a correct helper: validate_report is part of the model.  What a      *)
(* request does is BootFlow, how it travels HelperSession.  Texts, notices *)
(* and the display cache decide nothing and are left out; Init covers      *)
(* what Controller::new makes of the cache.                                *)
(***************************************************************************)
EXTENDS Naturals, Sequences

CONSTANTS
  BootIds,    \* Boot#### identifiers
  None        \* no identifier, no record, no state

\* The target_os the controller was built with, and the other one.
TargetOs == "target"
OSes == {TargetOs, "other"}

UiStates == {"Unconfigured", "CachedTarget", "Busy", "Configured",
             "TargetChanged", "Failed", "RebootRequested", "UnknownResult",
             "UnsupportedRecord", "StoreDurabilityUnknown"}

\* The states that stand for something unresolved.
Unresolved == {"TargetChanged", "UnsupportedRecord", "StoreDurabilityUnknown",
               "UnknownResult", "RebootRequested"}

Requests == [op : {"Inspect"}, id : {None}, os : {None}]
       \cup [op : {"Configure"}, id : BootIds, os : OSes]
       \cup [op : {"Switch"}, id : {None}, os : OSes]

Actions == {"Inspect", "Configure", "Switch"}

\* ValidatedReport: what a report means for its request.
ValidatedReports == {"Inspected", "InspectedChanged", "Configured",
                     "RebootAccepted", "RebootUnknown"}

ASSUME NoneAssumption ==
  None \notin BootIds \cup UiStates \cup Actions \cup OSes \cup ValidatedReports

\* How often and how an identifier is listed among the candidates.
Listings == [BootIds -> {"absent", "supported", "unsupported", "twice"}]

NoCandidates == [b \in BootIds |-> "absent"]

\* The stage lists that validate_report tells apart; the last stands for all
\* others.
StageLists == {"empty", "validated", "accepted", "unknown", "other"}

\* RecordDiagnostic
Diagnostics == [id : {None}, os : {None}] \cup [id : BootIds, os : OSes]

Reports == [kind : {"report"}, record : Diagnostics, listing : Listings,
            stages : StageLists]

\* ClientError.  A Domain error has a root cause and the most advanced of the
\* stages it carries: none or TargetValidated only, or later ones.
Causes == {"other", "changed", "unsupported", "durability", "rejected"}

Errors == [kind : {"BeforeSend", "UnknownAfterSend"}, cause : {"other"},
           stages : {"early"}]
     \cup [kind : {"Domain"}, cause : Causes, stages : {"early", "late"}]

VARIABLES
  state,       \* UiState
  recovery,    \* recovery_state: evidence that a failure must not cover
  candidates,  \* the listing on display
  selected, confirmed, inspected,
  pending, unknown,   \* pending_action, unknown_action
  jobs,        \* requests handed to worker threads
  rx,          \* completions in the channel
  evidence,    \* history: what the completions so far leave unresolved
  clicked,     \* history: the candidate clicked last since the last completion
  agreed       \* history: the candidate on which the box was ticked since

ui      == <<state, recovery, candidates, selected, confirmed, inspected,
             pending, unknown>>
history == <<evidence, clicked, agreed>>
vars    == <<ui, jobs, rx, history>>

\* Controller::new
Init ==
  /\ state \in {"Unconfigured", "CachedTarget", "Failed"}
  /\ recovery = None
  /\ candidates = NoCandidates
  /\ selected = None /\ confirmed = FALSE /\ inspected = FALSE
  /\ pending = None /\ unknown = None
  /\ jobs = <<>> /\ rx = <<>>
  /\ evidence = {} /\ clicked = None /\ agreed = None

(***************************************************************************)
(* What is open.                                                           *)
(***************************************************************************)

InspectOnly ==
  IF state = "TargetChanged"
    THEN ~inspected
    ELSE state \in Unresolved

CanSwitch == state # "Busy" /\ ~InspectOnly /\ state # "TargetChanged"

\* A candidate the list offers.
Offered(b) == candidates[b] \in {"supported", "twice"}

CanSelect ==
  /\ state # "Busy" /\ ~InspectOnly /\ recovery = None
  /\ inspected
  /\ \E b \in BootIds : Offered(b)

CanConfigure == CanSelect /\ selected # None /\ confirmed

(***************************************************************************)
(* Failures.                                                               *)
(***************************************************************************)

\* Fault: the latest state is latched whatever was latched before.
LatchLatest(s) == s

\* latch_recovery_state: nothing displaces TargetChanged.
Latch(s) ==
  IF s = "TargetChanged" \/ recovery # "TargetChanged" THEN s ELSE recovery

\* domain_state of an error that carries no late stage.
CauseStates ==
  [other |-> "Failed", changed |-> "TargetChanged", rejected |-> "Failed",
   unsupported |-> "UnsupportedRecord", durability |-> "StoreDurabilityUnknown"]

\* BeforeSend(Launch), Domain(UnexpectedOs) and UnknownAfterSend(Protocol).
NotLaunched == [kind |-> "BeforeSend", cause |-> "other", stages |-> "early"]
WrongOs == [kind |-> "Domain", cause |-> "other", stages |-> "early"]
Misfit == [kind |-> "UnknownAfterSend", cause |-> "other", stages |-> "early"]

\* The match of fail, with domain_state.
ErrorState(e) ==
  IF e.cause = "rejected" THEN "Failed"
  ELSE IF \/ e.kind = "UnknownAfterSend"
          \/ e.stages = "late" /\ e.cause # "durability" THEN "UnknownResult"
  ELSE CauseStates[e.cause]

\* fail(error), called in state `was` with `latched` as recovery_state and
\* `action` as pending_action.
Fail(e, was, latched, action) ==
  LET kept == IF was = "TargetChanged" THEN was ELSE latched
  IN  /\ recovery' = kept
      /\ state' = IF ErrorState(e) = "Failed" /\ kept # None
                    THEN kept ELSE ErrorState(e)
      /\ pending' = None
      /\ unknown' = IF e.kind = "UnknownAfterSend" THEN action ELSE None
      /\ candidates' = NoCandidates
      /\ selected' = None /\ confirmed' = FALSE /\ inspected' = FALSE

(***************************************************************************)
(* Intents.                                                                *)
(***************************************************************************)

\* The rest of handle once the request is known: unresolved evidence is
\* latched, the state is Busy, and the request goes to a worker thread.  An
\* executor that refuses the job never runs it.
Submit(r) ==
  LET latched == IF (r.op = "Inspect" /\ InspectOnly) \/ state = "TargetChanged"
                   THEN Latch(state) ELSE recovery
  IN  \/ /\ jobs' = Append(jobs, r)
         /\ state' = "Busy" /\ recovery' = latched
         /\ pending' = r.op /\ unknown' = None
         /\ selected' = None /\ confirmed' = FALSE
         /\ UNCHANGED <<candidates, inspected>>
      \/ Fail(NotLaunched, "Busy", latched, r.op) /\ UNCHANGED jobs

\* Fault: a second click is not refused.
HandleInspectAlways ==
  /\ Submit([op |-> "Inspect", id |-> None, os |-> None])
  /\ UNCHANGED <<rx, history>>

HandleInspect ==
  /\ state # "Busy"
  /\ Submit([op |-> "Inspect", id |-> None, os |-> None])
  /\ UNCHANGED <<rx, history>>

HandleSwitch ==
  /\ CanSwitch
  /\ Submit([op |-> "Switch", id |-> None, os |-> TargetOs])
  /\ UNCHANGED <<rx, history>>

\* Configure for another system fails without a request.
HandleWrongOs ==
  /\ state # "Busy" /\ ~InspectOnly
  /\ Fail(WrongOs, state, recovery, pending)
  /\ UNCHANGED <<jobs, rx, history>>

HandleConfigure(b) ==
  /\ state # "Busy" /\ ~InspectOnly
  /\ CanConfigure /\ selected = b
  /\ Submit([op |-> "Configure", id |-> b, os |-> TargetOs])
  /\ UNCHANGED <<rx, history>>

\* Fault: a new selection keeps the confirmation of the old one.
SelectKeepsTick(b) ==
  /\ CanSelect /\ selected' = IF Offered(b) THEN b ELSE None
  /\ UNCHANGED confirmed
  /\ clicked' = b /\ agreed' = None
  /\ UNCHANGED <<state, recovery, candidates, inspected, pending, unknown, jobs,
                 rx, evidence>>

\* A click on a candidate; while none can be selected it changes nothing.
Select(b) ==
  /\ IF CanSelect
       THEN confirmed' = FALSE /\ selected' = IF Offered(b) THEN b ELSE None
       ELSE UNCHANGED <<confirmed, selected>>
  /\ clicked' = b /\ agreed' = None
  /\ UNCHANGED <<state, recovery, candidates, inspected, pending, unknown, jobs,
                 rx, evidence>>

\* The confirmation box is ticked or cleared.
ConfirmTarget(tick) ==
  /\ confirmed' = IF CanSelect THEN tick /\ selected # None ELSE confirmed
  /\ agreed' = IF tick THEN clicked ELSE None
  /\ UNCHANGED <<state, recovery, candidates, selected, inspected, pending,
                 unknown, jobs, rx, evidence, clicked>>

(***************************************************************************)
(* Completions.                                                            *)
(***************************************************************************)

\* Fault: a panic ends the thread before it has sent anything.
ReturnLossy(result) ==
  /\ jobs # <<>> /\ jobs' = Tail(jobs)
  /\ UNCHANGED <<ui, rx, history>>

\* A worker thread has its result; a panic is UnknownAfterSend.
Return(result) ==
  /\ jobs # <<>>
  /\ rx' = Append(rx, [request |-> Head(jobs), result |-> result])
  /\ jobs' = Tail(jobs)
  /\ UNCHANGED <<ui, history>>

\* The recorded target is listed once and supported.
SupportedTarget(p) ==
  p.record.id # None /\ p.listing[p.record.id] = "supported"

\* validate_report: what a report means for its request, None if it does not
\* fit it.
Validated(r, p) ==
  IF p.record.os \notin {None, TargetOs} THEN None
  ELSE IF r.op = "Inspect" /\ p.stages = "empty"
    THEN IF p.record.id # None /\ ~SupportedTarget(p)
           THEN "InspectedChanged" ELSE "Inspected"
  ELSE IF ~SupportedTarget(p) \/ r.os # TargetOs THEN None
  ELSE IF r.op = "Configure" /\ p.record.id = r.id /\ p.stages = "validated"
    THEN "Configured"
  ELSE IF r.op = "Switch" /\ p.stages = "accepted" THEN "RebootAccepted"
  ELSE IF r.op = "Switch" /\ p.stages = "unknown" THEN "RebootUnknown"
  ELSE None

\* success, for Inspect: it cannot clear an earlier mismatch.
SucceedInspect(p, v) ==
  /\ v \in {"Inspected", "InspectedChanged"}
  /\ recovery' = None /\ inspected' = TRUE
  /\ state' = IF recovery = "TargetChanged" \/ v = "InspectedChanged"
                THEN "TargetChanged"
              ELSE IF p.record.id = None THEN "Unconfigured" ELSE "Configured"
  /\ candidates' = p.listing

\* success, for Configure and Switch.
SucceedOther(v) ==
  /\ \/ /\ v = "Configured"
        /\ recovery' = None /\ inspected' = FALSE /\ state' = "Configured"
     \/ /\ v = "RebootAccepted" /\ state' = "RebootRequested"
        /\ UNCHANGED <<recovery, inspected>>
     \/ /\ v = "RebootUnknown" /\ state' = "UnknownResult"
        /\ UNCHANGED <<recovery, inspected>>
  /\ candidates' = NoCandidates

\* An error that leaves the present state in doubt.
Doubtful(e) ==
  \/ e.kind = "UnknownAfterSend"
  \/ /\ e.kind = "Domain" /\ e.cause # "rejected"
     /\ e.stages = "late" \/ e.cause \in {"unsupported", "durability"}

\* What a completion leaves to be resolved: a mismatch until a Configure
\* succeeds, a doubt about the present state until an Inspect succeeds.
Resolve(v, e) ==
  IF v = "Configured" THEN {}
  ELSE IF v \in {"Inspected", "InspectedChanged"}
    THEN (evidence \ {"doubt"})
           \cup {x \in {"changed"} : v = "InspectedChanged"}
  ELSE IF v # None THEN evidence \cup {"doubt"}
  ELSE evidence
         \cup {x \in {"doubt"} : Doubtful(e)}
         \cup {x \in {"changed"} : e.cause = "changed" /\ e.stages = "early"}

\* poll: one completion is taken from the channel and applied.
Poll ==
  /\ rx # <<>> /\ rx' = Tail(rx)
  /\ LET r == Head(rx).request
         p == Head(rx).result
         v == IF p.kind = "report" THEN Validated(r, p) ELSE None
         e == IF p.kind = "report" THEN Misfit ELSE p
     IN  /\ \/ v = None /\ Fail(e, state, recovery, pending)
            \/ /\ v # None
               /\ SucceedInspect(p, v) \/ SucceedOther(v)
               /\ pending' = None /\ unknown' = None
               /\ UNCHANGED <<selected, confirmed>>
         /\ evidence' = Resolve(v, e)
  /\ clicked' = None /\ agreed' = None
  /\ UNCHANGED jobs

(***************************************************************************)
(* The window is closed, whatever is outstanding, and opened again: the    *)
(* worker thread and the channel die with the process, nothing of what was *)
(* unresolved is remembered.  The helper of a request under way is another *)
(* process and goes on alone (HelperSession).                              *)
(***************************************************************************)

Reopen ==
  /\ state' \in {"Unconfigured", "CachedTarget", "Failed"}
  /\ recovery' = None
  /\ candidates' = NoCandidates
  /\ selected' = None /\ confirmed' = FALSE /\ inspected' = FALSE
  /\ pending' = None /\ unknown' = None
  /\ jobs' = <<>> /\ rx' = <<>>
  /\ evidence' = {} /\ clicked' = None /\ agreed' = None

Next ==
  \/ HandleInspect \/ HandleSwitch \/ HandleWrongOs
  \/ \E b \in BootIds : HandleConfigure(b) \/ Select(b)
  \/ \E tick \in BOOLEAN : ConfirmTarget(tick)
  \/ \E result \in Reports \cup Errors : Return(result)
  \/ Poll
  \/ Reopen

Spec == Init /\ [][Next]_vars

\* A worker thread ends, because every exchange does (HelperSession:
\* ClientReturns), and the event loop polls when it is woken.
FairSpec ==
  /\ Spec
  /\ WF_vars(\E result \in Reports \cup Errors : Return(result))
  /\ WF_vars(Poll)

(***************************************************************************)
(* Properties.                                                             *)
(***************************************************************************)

Completions == [request : Requests, result : Reports \cup Errors]

FlagsOK == confirmed \in BOOLEAN /\ inspected \in BOOLEAN

DataOK ==
  /\ state \in UiStates /\ recovery \in Unresolved \cup {None}
  /\ candidates \in Listings
  /\ selected \in BootIds \cup {None}
  /\ pending \in Actions \cup {None} /\ unknown \in Actions \cup {None}
  /\ jobs \in Seq(Requests) /\ rx \in Seq(Completions)
  /\ evidence \subseteq {"doubt", "changed"}
  /\ clicked \in BootIds \cup {None} /\ agreed \in BootIds \cup {None}

\* Type invariant: in particular only unresolved evidence is ever latched
\* (controller.rs: latch_recovery_state).
TypeOK == DataOK /\ FlagsOK

\* The window is Busy exactly while one request is outstanding, and the action
\* it remembers is that request's: no completion is applied to another request
\* and none arrives in a state that does not expect it
\* (controller.rs: handle returns while Busy, poll takes one completion).
OneOutstanding ==
  /\ Len(jobs) + Len(rx) = IF state = "Busy" THEN 1 ELSE 0
  /\ pending = IF state # "Busy" THEN None
               ELSE IF jobs # <<>> THEN Head(jobs).op ELSE Head(rx).request.op

\* No Switch is submitted while a mismatch or a doubtful result is unresolved,
\* no Configure while a doubtful result is, however many inspections failed
\* or timed out in between (controller.rs: unresolved evidence is kept across
\* failed inspection or attempted reconfiguration).
UnresolvedStaysClosed ==
  [][Len(jobs') > Len(jobs) =>
       /\ jobs'[Len(jobs')].op = "Switch" => evidence = {}
       /\ jobs'[Len(jobs')].op = "Configure" => "doubt" \notin evidence]_vars

\* A Configure is submitted only for the candidate clicked last, ticked after
\* that click, and on the list of the inspection applied last
\* (controller.rs: only explicit intents submit work).
ConfigureNeedsConsent ==
  [][Len(jobs') > Len(jobs) /\ jobs'[Len(jobs')].op = "Configure" =>
       LET b == jobs'[Len(jobs')].id
       IN  agreed = b /\ candidates[b] \in {"supported", "twice"}]_vars

\* What is Busy becomes idle again (controller.rs: every job sends a
\* completion, a panic included).
BusyEnds == state = "Busy" ~> state # "Busy"

=============================================================================
