------------------------- MODULE GuiControllerProofs -------------------------
(***************************************************************************)
(* Safety of GuiController for any set of boot identifiers.                *)
(***************************************************************************)
EXTENDS GuiController, TLAPS

\* The outstanding request is with a worker thread or in the channel.
ShapeInv ==
  \/ state # "Busy" /\ jobs = <<>> /\ rx = <<>> /\ pending = None
  \/ /\ state = "Busy" /\ rx = <<>>
     /\ \E r \in Requests : jobs = <<r>> /\ pending = r.op
  \/ /\ state = "Busy" /\ jobs = <<>>
     /\ \E c \in Completions : rx = <<c>> /\ pending = c.request.op

\* What is latched or unresolved keeps the window at inspecting.
EvidenceInv ==
  /\ state # "Busy" /\ recovery # None => InspectOnly
  /\ "doubt" \in evidence =>
       IF state = "Busy" THEN pending = "Inspect" /\ recovery # None ELSE InspectOnly
  /\ "changed" \in evidence =>
       state = "TargetChanged" \/ recovery = "TargetChanged"

\* A selection is on the list and was clicked last; a confirmation is for it.
ConsentInv ==
  /\ selected # None => CanSelect /\ Offered(selected) /\ clicked = selected
  /\ confirmed = TRUE => selected # None /\ agreed = selected

\* The inductive invariant.
IInv == TypeOK /\ ShapeInv /\ EvidenceInv /\ ConsentInv

USE NoneAssumption

-----------------------------------------------------------------------------

\* Every initial state satisfies the invariant.
LEMMA InvInit == Init => IInv
  <1> SUFFICES ASSUME Init PROVE IInv
    OBVIOUS
  <1>1. FlagsOK
    BY Zenon DEF Init, FlagsOK
  <1>2. DataOK
    BY DEF Init, DataOK, NoCandidates, Listings, UiStates
  <1>3. ShapeInv /\ EvidenceInv
    BY DEF Init, ShapeInv, EvidenceInv, InspectOnly, Unresolved
  <1>4. ConsentInv
    BY DEF Init, ConsentInv
  <1> QED
    BY <1>1, <1>2, <1>3, <1>4 DEF IInv, TypeOK

\* Fail, Submit and the successes keep the flags Boolean.
LEMMA FlagsStep == FlagsOK /\ [Next]_vars => FlagsOK'
  <1> SUFFICES ASSUME FlagsOK, [Next]_vars PROVE FlagsOK'
    OBVIOUS
  <1>1. ASSUME NEW e, NEW w, NEW l, NEW a, Fail(e, w, l, a) PROVE FlagsOK'
    BY <1>1, Zenon DEF Fail, FlagsOK
  <1>2. ASSUME NEW r, Submit(r) PROVE FlagsOK'
    BY <1>1, <1>2, Zenon DEF Submit, FlagsOK
  <1>3. CASE UNCHANGED ui
    BY <1>3, Zenon DEF ui, FlagsOK
  <1>4. CASE UNCHANGED vars
    BY <1>3, <1>4, Zenon DEF vars
  <1>5. CASE HandleInspect \/ HandleSwitch \/ HandleWrongOs
    BY <1>1, <1>2, <1>5, Zenon DEF HandleInspect, HandleSwitch, HandleWrongOs
  <1>6. ASSUME NEW b \in BootIds, HandleConfigure(b) PROVE FlagsOK'
    BY <1>2, <1>6, Zenon DEF HandleConfigure
  <1>7. ASSUME NEW b \in BootIds, Select(b) PROVE FlagsOK'
    BY <1>7, Zenon DEF Select, FlagsOK
  <1>8. ASSUME NEW tick \in BOOLEAN, ConfirmTarget(tick) PROVE FlagsOK'
    BY <1>8, Zenon DEF ConfirmTarget, FlagsOK
  <1>9. ASSUME NEW x, Return(x) PROVE FlagsOK'
    BY <1>3, <1>9, Zenon DEF Return
  <1>10. CASE Poll
    BY <1>1, <1>10, Zenon DEF Poll, SucceedInspect, SucceedOther, FlagsOK
  <1>11. CASE Reopen
    BY <1>11, Zenon DEF Reopen, FlagsOK
  <1> QED
    BY <1>4, <1>5, <1>6, <1>7, <1>8, <1>9, <1>10, <1>11, Zenon DEF Next

-----------------------------------------------------------------------------

\* An error leaves the window Failed or at something unresolved; a doubtful one
\* or a mismatch never looks like an ordinary failure.
LEMMA ErrorStates ==
  ASSUME NEW e \in Errors
  PROVE  /\ ErrorState(e) \in Unresolved \cup {"Failed"}
         /\ Doubtful(e) => ErrorState(e) # "Failed"
         /\ e.cause = "changed" /\ e.stages = "early" =>
              ErrorState(e) = "TargetChanged"
  BY DEF Errors, Causes, ErrorState, CauseStates, Unresolved, Doubtful

\* The errors the controller makes itself.
LEMMA OwnErrors ==
  /\ NotLaunched \in Errors /\ WrongOs \in Errors /\ Misfit \in Errors
  /\ ErrorState(NotLaunched) = "Failed" /\ ErrorState(WrongOs) = "Failed"
  BY DEF Errors, Causes, NotLaunched, WrongOs, Misfit, ErrorState, CauseStates

\* A completion is well typed, and what its result is decides its form.
LEMMA CompletionForm ==
  ASSUME NEW c \in Completions
  PROVE  /\ c.request \in Requests
         /\ c.result.kind = "report" =>
              c.result.listing \in Listings
         /\ c.result.kind # "report" => c.result \in Errors
  BY DEF Completions, Reports, Errors

\* What a worker thread sends is a completion.
LEMMA CompletionTyped ==
  ASSUME NEW r \in Requests, NEW x \in Reports \cup Errors
  PROVE  [request |-> r, result |-> x] \in Completions
  BY DEF Completions

\* Operations of requests.
LEMMA RequestOps == \A r \in Requests : r.op \in Actions
  BY DEF Requests, Actions

\* What handle submits.
LEMMA Submitted ==
  /\ [op |-> "Inspect", id |-> None, os |-> None] \in Requests
  /\ [op |-> "Switch", id |-> None, os |-> TargetOs] \in Requests
  /\ \A b \in BootIds : [op |-> "Configure", id |-> b, os |-> TargetOs] \in Requests
  BY DEF Requests, OSes

\* What validate_report makes of a report fits the request.
LEMMA ValidatedForm ==
  ASSUME NEW r \in Requests, NEW p, Validated(r, p) # None
  PROVE  \/ r.op = "Inspect" /\ Validated(r, p) \in {"Inspected", "InspectedChanged"}
         \/ r.op = "Configure" /\ Validated(r, p) = "Configured"
         \/ r.op = "Switch" /\ Validated(r, p) \in {"RebootAccepted", "RebootUnknown"}
  BY DEF Validated

\* What fail leaves behind: nothing outstanding is remembered, nothing is
\* selected, and what was latched still shows.
LEMMA FailStep ==
  ASSUME NEW e \in Errors, NEW was \in UiStates,
         NEW latched \in Unresolved \cup {None},
         NEW action \in Actions \cup {None},
         Fail(e, was, latched, action)
  PROVE  /\ state' \in UiStates /\ state' # "Busy"
         /\ recovery' = IF was = "TargetChanged" THEN was ELSE latched
         /\ recovery' \in Unresolved \cup {None}
         /\ candidates' \in Listings
         /\ selected' = None /\ confirmed' = FALSE
         /\ pending' = None /\ unknown' \in Actions \cup {None}
         /\ recovery' # None \/ ErrorState(e) # "Failed" => InspectOnly'
         /\ ErrorState(e) = "Failed" /\ recovery' # None => state' = recovery'
         /\ ErrorState(e) = "TargetChanged" => state' = "TargetChanged"
  <1>1. ErrorState(e) \in Unresolved \cup {"Failed"}
    BY ErrorStates
  <1>2. Unresolved \subseteq UiStates \ {"Busy"} /\ "Failed" \in UiStates
    BY DEF Unresolved, UiStates
  <1>3. NoCandidates \in Listings
    BY DEF NoCandidates, Listings
  <1>4. None \notin UiStates
    OBVIOUS
  <1>5. /\ recovery' = IF was = "TargetChanged" THEN was ELSE latched
        /\ recovery' \in Unresolved \cup {None}
        /\ state' = IF ErrorState(e) = "Failed" /\ recovery' # None
                      THEN recovery' ELSE ErrorState(e)
    BY DEF Fail, Unresolved
  <1>6. recovery' # None \/ ErrorState(e) # "Failed" => state' \in Unresolved
    BY <1>1, <1>5
  <1>7. state' \in Unresolved => InspectOnly'
    BY DEF Fail, InspectOnly
  <1>8. /\ candidates' = NoCandidates /\ selected' = None /\ pending' = None
        /\ confirmed' = FALSE /\ unknown' \in Actions \cup {None}
    BY DEF Fail
  <1>9. state' \in UiStates /\ state' # "Busy"
    BY <1>1, <1>2, <1>5
  <1> QED
    BY <1>3, <1>5, <1>6, <1>7, <1>8, <1>9 DEF Unresolved

\* What handle latches for a request.
Latched(r) ==
  IF (r.op = "Inspect" /\ InspectOnly) \/ state = "TargetChanged"
    THEN Latch(state) ELSE recovery

\* Evidence that kept the window at inspecting is latched, and a mismatch above
\* all.
LEMMA LatchedForm ==
  ASSUME NEW r \in Requests, DataOK, state # "Busy"
  PROVE  /\ Latched(r) \in Unresolved \cup {None}
         /\ recovery # None => Latched(r) # None
         /\ r.op = "Inspect" /\ InspectOnly => Latched(r) # None
         /\ state = "TargetChanged" \/ recovery = "TargetChanged" =>
              Latched(r) = "TargetChanged"
  BY DEF Latched, Latch, DataOK, InspectOnly, Unresolved, UiStates

\* handle either hands the request over or fails.
LEMMA SubmitForm ==
  ASSUME NEW r, Submit(r)
  PROVE  \/ /\ jobs' = Append(jobs, r)
            /\ state' = "Busy" /\ recovery' = Latched(r)
            /\ pending' = r.op /\ unknown' = None
            /\ selected' = None /\ confirmed' = FALSE
            /\ UNCHANGED <<candidates, inspected>>
         \/ Fail(NotLaunched, "Busy", Latched(r), r.op) /\ UNCHANGED jobs
  BY DEF Submit, Latched

-----------------------------------------------------------------------------

\* The part of the invariant that SMT proves.
Rest == DataOK /\ ShapeInv /\ EvidenceInv /\ ConsentInv

\* Submitting preserves the invariant.
LEMMA SubmitStep ==
  ASSUME IInv, NEW r \in Requests, state # "Busy",
         r.op # "Inspect" => ~InspectOnly,
         Submit(r), UNCHANGED <<rx, history>>
  PROVE  Rest'
  <1>0. DataOK /\ ShapeInv /\ EvidenceInv /\ r.op \in Actions
    BY RequestOps DEF IInv, TypeOK
  <1>1. /\ jobs = <<>> /\ rx = <<>> /\ pending = None
        /\ UNCHANGED <<rx, evidence, clicked, agreed>>
    BY <1>0 DEF ShapeInv, history
  <1>2. /\ Latched(r) \in Unresolved \cup {None}
        /\ "doubt" \in evidence => r.op = "Inspect" /\ Latched(r) # None
        /\ "changed" \in evidence => Latched(r) = "TargetChanged"
    BY <1>0, LatchedForm DEF EvidenceInv
  <1>3. CASE /\ jobs' = Append(jobs, r)
             /\ state' = "Busy" /\ recovery' = Latched(r)
             /\ pending' = r.op /\ unknown' = None
             /\ selected' = None /\ confirmed' = FALSE
             /\ UNCHANGED <<candidates, inspected>>
    <2>1. jobs' = <<r>> /\ jobs' \in Seq(Requests)
      BY <1>1, <1>3
    <2>2. DataOK'
      BY <1>0, <1>1, <1>2, <1>3, <2>1 DEF DataOK, UiStates
    <2>3. ShapeInv'
      BY <1>1, <1>3, <2>1 DEF ShapeInv
    <2>4. EvidenceInv'
      BY <1>1, <1>2, <1>3 DEF EvidenceInv
    <2>5. ConsentInv'
      BY <1>3 DEF ConsentInv
    <2> QED
      BY <2>2, <2>3, <2>4, <2>5 DEF Rest
  <1>4. CASE Fail(NotLaunched, "Busy", Latched(r), r.op) /\ UNCHANGED jobs
    <2>1. /\ state' \in UiStates /\ state' # "Busy"
          /\ recovery' = Latched(r)
          /\ recovery' \in Unresolved \cup {None}
          /\ candidates' \in Listings
          /\ selected' = None /\ confirmed' = FALSE
          /\ pending' = None /\ unknown' \in Actions \cup {None}
          /\ recovery' # None => InspectOnly' /\ state' = recovery'
      <3>1. "Busy" \in UiStates
        BY DEF UiStates
      <3> QED
        BY <1>0, <1>2, <1>4, <3>1, OwnErrors, FailStep
    <2>2. DataOK'
      BY <1>0, <1>1, <1>4, <2>1 DEF DataOK
    <2>3. ShapeInv'
      BY <1>1, <1>4, <2>1 DEF ShapeInv
    <2>4. EvidenceInv'
      BY <1>1, <1>2, <2>1 DEF EvidenceInv
    <2>5. ConsentInv'
      BY <2>1 DEF ConsentInv
    <2> QED
      BY <2>2, <2>3, <2>4, <2>5 DEF Rest
  <1> QED
    BY <1>3, <1>4, SubmitForm

\* A wrong system is refused without losing what is known.
LEMMA WrongOsStep == IInv /\ HandleWrongOs => Rest'
  <1> SUFFICES ASSUME IInv, HandleWrongOs PROVE Rest'
    OBVIOUS
  <1>0. DataOK /\ ShapeInv /\ EvidenceInv
    BY DEF IInv, TypeOK
  <1>1. /\ state # "Busy" /\ ~InspectOnly
        /\ jobs = <<>> /\ rx = <<>> /\ pending = None /\ recovery = None
        /\ UNCHANGED <<jobs, rx, evidence, clicked, agreed>>
        /\ Fail(WrongOs, state, recovery, pending)
    BY <1>0 DEF HandleWrongOs, ShapeInv, EvidenceInv, history
  <1>2. /\ state' \in UiStates /\ state' # "Busy"
        /\ recovery' = IF state = "TargetChanged" THEN state ELSE recovery
        /\ recovery' \in Unresolved \cup {None}
        /\ candidates' \in Listings
        /\ selected' = None /\ confirmed' = FALSE
        /\ pending' = None /\ unknown' \in Actions \cup {None}
        /\ recovery' # None => InspectOnly' /\ state' = recovery'
    <2>1. state \in UiStates /\ recovery \in Unresolved \cup {None}
      BY <1>0 DEF DataOK
    <2> QED
      BY <1>1, <2>1, OwnErrors, FailStep
  <1>3. DataOK'
    BY <1>0, <1>1, <1>2 DEF DataOK
  <1>4. ShapeInv'
    BY <1>1, <1>2 DEF ShapeInv
  <1>5. EvidenceInv'
    BY <1>0, <1>1, <1>2 DEF EvidenceInv
  <1>6. ConsentInv'
    BY <1>2 DEF ConsentInv
  <1> QED
    BY <1>3, <1>4, <1>5, <1>6 DEF Rest

\* Selecting and confirming preserve the invariant.
LEMMA ChoiceStep ==
  ASSUME IInv,
         \/ \E b \in BootIds : Select(b)
         \/ \E tick \in BOOLEAN : ConfirmTarget(tick)
  PROVE  Rest'
  <1>0. DataOK /\ ShapeInv /\ EvidenceInv /\ ConsentInv
    BY DEF IInv, TypeOK
  <1>1. UNCHANGED <<state, recovery, candidates, inspected, pending, unknown,
                    jobs, rx, evidence>>
    BY DEF Select, ConfirmTarget
  <1>2. DataOK'
    BY <1>0, <1>1 DEF Select, ConfirmTarget, DataOK
  <1>3. ShapeInv' /\ EvidenceInv'
    BY <1>0, <1>1 DEF ShapeInv, EvidenceInv, InspectOnly
  <1>4. CanSelect' <=> CanSelect
    BY <1>1 DEF CanSelect, InspectOnly, Offered
  <1>5. ASSUME NEW x PROVE Offered(x)' <=> Offered(x)
    BY <1>1 DEF Offered
  <1>6. ASSUME NEW b \in BootIds, Select(b), CanSelect PROVE ConsentInv'
    <2>1. /\ confirmed' = FALSE /\ clicked' = b
          /\ selected' = IF Offered(b) THEN b ELSE None
      BY <1>6, Zenon DEF Select
    <2>2. selected' # None => Offered(b) /\ selected' = b
      BY <2>1
    <2>3. selected' # None => Offered(selected)'
      BY <1>1, <2>2 DEF Offered
    <2> QED
      BY <1>4, <1>6, <2>1, <2>2, <2>3 DEF ConsentInv
  <1>7. ASSUME NEW b \in BootIds, Select(b), ~CanSelect PROVE ConsentInv'
    <2>1. UNCHANGED <<confirmed, selected>>
      BY <1>7, Zenon DEF Select
    <2>2. selected = None /\ confirmed # TRUE
      BY <1>0, <1>7 DEF ConsentInv
    <2> QED
      BY <2>1, <2>2 DEF ConsentInv
  <1>8. ASSUME NEW tick \in BOOLEAN, ConfirmTarget(tick) PROVE ConsentInv'
    <2>1. selected' = selected /\ clicked' = clicked
      BY <1>8 DEF ConfirmTarget
    <2>2. selected' # None => CanSelect' /\ Offered(selected)' /\ clicked' = selected'
      <3>1. selected # None => Offered(selected)'
        BY <1>0, <1>1, <2>1 DEF ConsentInv, Offered
      <3> QED
        BY <1>0, <1>4, <2>1, <3>1 DEF ConsentInv
    <2>3. confirmed' = TRUE => selected' # None /\ agreed' = selected'
      <3>1. CASE CanSelect
        <4>1. /\ confirmed' = (tick /\ selected # None)
              /\ agreed' = IF tick THEN clicked ELSE None
          BY <1>8, <3>1, Zenon DEF ConfirmTarget
        <4>2. confirmed' = TRUE => tick /\ selected # None
          BY <4>1, Zenon
        <4> QED
          BY <1>0, <2>1, <4>1, <4>2 DEF ConsentInv
      <3>2. CASE ~CanSelect
        <4>1. selected = None /\ confirmed # TRUE
          BY <1>0, <3>2 DEF ConsentInv
        <4>2. confirmed' = confirmed
          BY <1>8, <3>2, Zenon DEF ConfirmTarget
        <4> QED
          BY <4>1, <4>2
      <3> QED
        BY <3>1, <3>2
    <2> QED
      BY <2>2, <2>3 DEF ConsentInv
  <1> QED
    BY <1>2, <1>3, <1>6, <1>7, <1>8 DEF Rest

\* A worker thread's completion preserves the invariant.
LEMMA ReturnStep ==
  ASSUME IInv, NEW x \in Reports \cup Errors, Return(x)
  PROVE  Rest'
  <1>0. DataOK /\ ShapeInv /\ EvidenceInv /\ ConsentInv
    BY DEF IInv, TypeOK
  <1>1. PICK r \in Requests : /\ state = "Busy" /\ jobs = <<r>> /\ rx = <<>>
                              /\ pending = r.op
    BY <1>0 DEF ShapeInv, Return
  <1>2. [request |-> r, result |-> x] \in Completions
    BY CompletionTyped
  <1> DEFINE c == [request |-> r, result |-> x]
  <1>3. rx' = <<c>> /\ jobs' = <<>> /\ c.request = r
    BY <1>1 DEF Return
  <1>4. UNCHANGED <<ui, evidence, clicked, agreed>>
    BY DEF Return, history
  <1>5. rx' \in Seq(Completions) /\ jobs' \in Seq(Requests) /\ c \in Completions
    BY <1>2, <1>3
  <1> HIDE DEF c
  <1>6. DataOK'
    BY <1>0, <1>4, <1>5 DEF DataOK, ui
  <1>7. ShapeInv'
    BY <1>1, <1>3, <1>4, <1>5 DEF ShapeInv, ui
  <1>8. EvidenceInv' /\ ConsentInv'
    BY <1>0, <1>4 DEF EvidenceInv, ConsentInv, CanSelect, InspectOnly, Offered, ui
  <1> QED
    BY <1>6, <1>7, <1>8 DEF Rest

\* A failed completion preserves the invariant.
LEMMA PollFailStep ==
  ASSUME IInv, state = "Busy", jobs' = <<>>, rx' = <<>>,
         NEW e \in Errors, Fail(e, state, recovery, pending),
         evidence' = Resolve(None, e), clicked' = None, agreed' = None
  PROVE  Rest'
  <1>0. DataOK /\ EvidenceInv
    BY DEF IInv, TypeOK
  <1>1. /\ state' \in UiStates /\ state' # "Busy"
        /\ recovery' = recovery
        /\ recovery' \in Unresolved \cup {None}
        /\ candidates' \in Listings
        /\ selected' = None /\ confirmed' = FALSE
        /\ pending' = None /\ unknown' \in Actions \cup {None}
        /\ recovery' # None \/ ErrorState(e) # "Failed" => InspectOnly'
        /\ ErrorState(e) = "TargetChanged" => state' = "TargetChanged"
    <2>1. /\ state \in UiStates /\ recovery \in Unresolved \cup {None}
          /\ pending \in Actions \cup {None}
      BY <1>0 DEF DataOK
    <2> QED
      BY <2>1, FailStep
  <1>2. evidence' = evidence
                      \cup {x \in {"doubt"} : Doubtful(e)}
                      \cup {x \in {"changed"} : e.cause = "changed" /\ e.stages = "early"}
    BY DEF Resolve, ValidatedReports
  <1>3. evidence' \subseteq {"doubt", "changed"}
    BY <1>0, <1>2 DEF DataOK
  <1>4. DataOK'
    BY <1>1, <1>3 DEF DataOK
  <1>5. ShapeInv'
    BY <1>1 DEF ShapeInv
  <1>6. "doubt" \in evidence' => InspectOnly'
    BY <1>0, <1>1, <1>2, ErrorStates DEF EvidenceInv
  <1>7. "changed" \in evidence' => state' = "TargetChanged" \/ recovery' = "TargetChanged"
    BY <1>0, <1>1, <1>2, ErrorStates DEF EvidenceInv
  <1>8. EvidenceInv'
    BY <1>1, <1>6, <1>7 DEF EvidenceInv
  <1>9. ConsentInv'
    BY <1>1 DEF ConsentInv
  <1> QED
    BY <1>4, <1>5, <1>8, <1>9 DEF Rest

\* A successful completion preserves the invariant.
LEMMA PollSuccessStep ==
  ASSUME IInv, state = "Busy", jobs' = <<>>, rx' = <<>>,
         NEW p, p.listing \in Listings, NEW v, v # None, NEW e,
         SucceedInspect(p, v) \/ SucceedOther(v),
         pending' = None, unknown' = None, UNCHANGED <<selected, confirmed>>,
         evidence' = Resolve(v, e), clicked' = None, agreed' = None
  PROVE  Rest'
  <1>0. DataOK /\ EvidenceInv /\ ConsentInv
    BY DEF IInv, TypeOK
  <1>1. selected' = None /\ confirmed' # TRUE
    BY <1>0 DEF ConsentInv, CanSelect
  <1>2. ConsentInv'
    BY <1>1 DEF ConsentInv
  <1>3. CASE SucceedInspect(p, v)
    <2>1. /\ v \in {"Inspected", "InspectedChanged"} /\ recovery' = None
          /\ state' = IF recovery = "TargetChanged" \/ v = "InspectedChanged"
                        THEN "TargetChanged"
                      ELSE IF p.record.id = None THEN "Unconfigured" ELSE "Configured"
          /\ candidates' \in Listings
      BY <1>3 DEF SucceedInspect
    <2>2. evidence' = (evidence \ {"doubt"}) \cup {x \in {"changed"} : v = "InspectedChanged"}
      BY <2>1 DEF Resolve
    <2>3. /\ evidence' \subseteq {"changed"} /\ state' \in UiStates \ {"Busy"}
          /\ "changed" \in evidence' => state' = "TargetChanged"
      BY <1>0, <2>1, <2>2 DEF DataOK, EvidenceInv, UiStates
    <2>4. DataOK'
      BY <1>1, <2>1, <2>3 DEF DataOK
    <2>5. ShapeInv' /\ EvidenceInv'
      BY <2>1, <2>3 DEF ShapeInv, EvidenceInv
    <2> QED
      BY <1>2, <2>4, <2>5 DEF Rest
  <1>4. CASE v = "Configured" /\ SucceedOther(v)
    <2>1. /\ recovery' = None /\ state' = "Configured" /\ evidence' = {}
          /\ candidates' \in Listings
      BY <1>4 DEF SucceedOther, Resolve, NoCandidates, Listings
    <2>2. DataOK'
      BY <1>1, <2>1 DEF DataOK, UiStates
    <2>3. ShapeInv' /\ EvidenceInv'
      BY <2>1 DEF ShapeInv, EvidenceInv
    <2> QED
      BY <1>2, <2>2, <2>3 DEF Rest
  <1>5. CASE v \in {"RebootAccepted", "RebootUnknown"} /\ SucceedOther(v)
    <2>1. /\ recovery' = recovery /\ state' \in {"RebootRequested", "UnknownResult"}
          /\ evidence' = evidence \cup {"doubt"}
          /\ candidates' \in Listings
      BY <1>5 DEF SucceedOther, Resolve, NoCandidates, Listings
    <2>2. DataOK'
      BY <1>0, <1>1, <2>1 DEF DataOK, UiStates
    <2>3. InspectOnly'
      BY <2>1 DEF InspectOnly, Unresolved
    <2>4. ShapeInv' /\ EvidenceInv'
      BY <1>0, <2>1, <2>3 DEF ShapeInv, EvidenceInv
    <2> QED
      BY <1>2, <2>2, <2>4 DEF Rest
  <1> QED
    BY <1>3, <1>4, <1>5 DEF SucceedOther

\* Applying a completion preserves the invariant.
LEMMA PollStep == IInv /\ Poll => Rest'
  <1> SUFFICES ASSUME IInv, Poll PROVE Rest'
    OBVIOUS
  <1>1. PICK c \in Completions : state = "Busy" /\ jobs = <<>> /\ rx = <<c>>
    BY DEF IInv, ShapeInv, Poll
  <1>2. Head(rx) = c /\ rx' = <<>> /\ jobs' = <<>> /\ clicked' = None /\ agreed' = None
    BY <1>1 DEF Poll
  <1> DEFINE r == c.request
             p == c.result
             v == IF p.kind = "report" THEN Validated(r, p) ELSE None
             e == IF p.kind = "report" THEN Misfit ELSE p
  <1>3. /\ \/ v = None /\ Fail(e, state, recovery, pending)
           \/ /\ v # None
              /\ SucceedInspect(p, v) \/ SucceedOther(v)
              /\ pending' = None /\ unknown' = None
              /\ UNCHANGED <<selected, confirmed>>
        /\ evidence' = Resolve(v, e)
    BY <1>2 DEF Poll
  <1>4. e \in Errors
    BY CompletionForm, OwnErrors
  <1>5. v # None => p.listing \in Listings
    BY CompletionForm
  <1> HIDE DEF v, e, p, r
  <1>6. CASE v = None /\ Fail(e, state, recovery, pending)
    BY <1>1, <1>2, <1>3, <1>4, <1>6, PollFailStep
  <1>7. CASE v # None /\ ~(v = None /\ Fail(e, state, recovery, pending))
    BY <1>1, <1>2, <1>3, <1>5, <1>7, PollSuccessStep
  <1> QED
    BY <1>3, <1>6, <1>7

\* A window that opens again satisfies the invariant whatever came before.
LEMMA ReopenStep == Reopen => Rest'
  <1> SUFFICES ASSUME Reopen PROVE Rest'
    OBVIOUS
  <1>1. DataOK'
    BY DEF Reopen, DataOK, NoCandidates, Listings, UiStates
  <1>2. ShapeInv' /\ EvidenceInv'
    BY DEF Reopen, ShapeInv, EvidenceInv, InspectOnly, Unresolved
  <1>3. ConsentInv'
    BY DEF Reopen, ConsentInv
  <1> QED
    BY <1>1, <1>2, <1>3 DEF Rest

-----------------------------------------------------------------------------

\* Every step preserves the invariant.
LEMMA InvStep == IInv /\ [Next]_vars => IInv'
  <1> SUFFICES ASSUME IInv, [Next]_vars PROVE IInv'
    OBVIOUS
  <1>1. FlagsOK'
    BY FlagsStep DEF IInv, TypeOK
  <1>2. Rest' => IInv'
    BY <1>1 DEF Rest, IInv, TypeOK
  <1>3. CASE HandleInspect
    BY <1>2, <1>3, SubmitStep, Submitted DEF HandleInspect
  <1>4. CASE HandleSwitch
    BY <1>2, <1>4, SubmitStep, Submitted DEF HandleSwitch, CanSwitch
  <1>5. CASE HandleWrongOs
    BY <1>2, <1>5, WrongOsStep
  <1>6. ASSUME NEW b \in BootIds, HandleConfigure(b) PROVE IInv'
    BY <1>2, <1>6, SubmitStep, Submitted DEF HandleConfigure
  <1>7. ASSUME NEW b \in BootIds, Select(b) PROVE IInv'
    BY <1>2, <1>7, ChoiceStep
  <1>8. ASSUME NEW tick \in BOOLEAN, ConfirmTarget(tick) PROVE IInv'
    BY <1>2, <1>8, ChoiceStep
  <1>9. ASSUME NEW x \in Reports \cup Errors, Return(x) PROVE IInv'
    BY <1>2, <1>9, ReturnStep
  <1>10. CASE Poll
    BY <1>2, <1>10, PollStep
  <1>11. CASE Reopen
    BY <1>2, <1>11, ReopenStep
  <1>12. CASE UNCHANGED vars
    BY <1>12 DEF vars, ui, history, IInv, TypeOK, FlagsOK, DataOK, ShapeInv,
                 EvidenceInv, ConsentInv, CanSelect, InspectOnly, Offered
  <1> QED
    BY <1>3, <1>4, <1>5, <1>6, <1>7, <1>8, <1>9, <1>10, <1>11, <1>12 DEF Next

\* The invariant holds of every reachable state.
THEOREM Invariance == Spec => []IInv
  BY InvInit, InvStep, PTL DEF Spec

\* The window is Busy exactly while one request is outstanding, and it
\* remembers that request's action.
THEOREM Outstanding == Spec => []OneOutstanding
  <1>1. ASSUME IInv PROVE OneOutstanding
    <2>1. CASE state # "Busy" /\ jobs = <<>> /\ rx = <<>> /\ pending = None
      BY <2>1 DEF OneOutstanding
    <2>2. ASSUME NEW r \in Requests, jobs = <<r>>, pending = r.op,
                 state = "Busy", rx = <<>>
          PROVE  OneOutstanding
      BY <2>2 DEF OneOutstanding
    <2>3. ASSUME NEW c \in Completions, rx = <<c>>, pending = c.request.op,
                 state = "Busy", jobs = <<>>
          PROVE  OneOutstanding
      BY <2>3 DEF OneOutstanding
    <2> QED
      BY <1>1, <2>1, <2>2, <2>3 DEF IInv, ShapeInv
  <1> QED
    BY <1>1, Invariance, PTL

\* What a step that hands over a request is: the worker queue only grows by
\* handle's submission of an Inspect, a Switch or a Configure.
LEMMA Submission ==
  ASSUME IInv, [Next]_vars, Len(jobs') > Len(jobs)
  PROVE  \/ jobs'[Len(jobs')].op = "Inspect"
         \/ CanSwitch /\ jobs'[Len(jobs')].op = "Switch"
         \/ \E b \in BootIds :
              /\ ~InspectOnly /\ CanConfigure /\ selected = b
              /\ jobs'[Len(jobs')] = [op |-> "Configure", id |-> b, os |-> TargetOs]
  <1>1. jobs \in Seq(Requests)
    BY DEF IInv, TypeOK, DataOK
  <1>2. ASSUME NEW r \in Requests, Submit(r) PROVE jobs'[Len(jobs')] = r
    BY <1>1, <1>2 DEF Submit
  <1>3. jobs' # jobs
    BY <1>1
  <1>4. CASE HandleInspect
    BY <1>2, <1>4, Submitted DEF HandleInspect
  <1>5. CASE HandleSwitch
    BY <1>2, <1>5, Submitted DEF HandleSwitch
  <1>6. ASSUME NEW b \in BootIds, HandleConfigure(b)
        PROVE  /\ ~InspectOnly /\ CanConfigure /\ selected = b
               /\ jobs'[Len(jobs')] = [op |-> "Configure", id |-> b, os |-> TargetOs]
    BY <1>2, <1>6, Submitted DEF HandleConfigure
  <1>7. ASSUME NEW x, Return(x) PROVE FALSE
    BY <1>1, <1>7 DEF Return
  <1>8. ~Reopen
    BY <1>1 DEF Reopen
  <1> QED
    BY <1>3, <1>4, <1>5, <1>6, <1>7, <1>8
    DEF Next, HandleWrongOs, Select, ConfirmTarget, Poll, vars

\* No Switch is submitted while a mismatch or a doubt is unresolved, and no
\* Configure while a doubt is.
THEOREM StaysClosed == Spec => UnresolvedStaysClosed
  <1>1. ASSUME IInv, [Next]_vars, Len(jobs') > Len(jobs)
        PROVE  /\ jobs'[Len(jobs')].op = "Switch" => evidence = {}
               /\ jobs'[Len(jobs')].op = "Configure" => "doubt" \notin evidence
    <2>1. evidence \subseteq {"doubt", "changed"} /\ EvidenceInv
      BY <1>1 DEF IInv, TypeOK, DataOK
    <2>2. CanSwitch => evidence = {}
      <3>1. "TargetChanged" # None
        BY DEF UiStates
      <3> QED
        BY <2>1, <3>1 DEF CanSwitch, EvidenceInv
    <2>3. CanConfigure => "doubt" \notin evidence
      BY <2>1 DEF CanConfigure, CanSelect, EvidenceInv
    <2> DEFINE last == jobs'[Len(jobs')]
    <2>4. \/ last.op = "Inspect"
          \/ CanSwitch /\ last.op = "Switch"
          \/ \E b \in BootIds :
               /\ ~InspectOnly /\ CanConfigure /\ selected = b
               /\ last = [op |-> "Configure", id |-> b, os |-> TargetOs]
      BY <1>1, Submission, Zenon
    <2> HIDE DEF last
    <2>5. last.op = "Switch" => evidence = {}
      BY <2>2, <2>4
    <2>6. last.op = "Configure" => "doubt" \notin evidence
      BY <2>3, <2>4
    <2> QED
      BY <2>5, <2>6 DEF last
  <1> QED
    BY <1>1, Invariance, PTL DEF Spec, UnresolvedStaysClosed

\* A Configure is submitted only for the candidate clicked last, ticked since,
\* and offered by the inspection applied last.
THEOREM Consent == Spec => ConfigureNeedsConsent
  <1>1. ASSUME IInv, [Next]_vars, Len(jobs') > Len(jobs),
               jobs'[Len(jobs')].op = "Configure"
        PROVE  LET b == jobs'[Len(jobs')].id
               IN  agreed = b /\ candidates[b] \in {"supported", "twice"}
    <2>1. PICK b \in BootIds :
            /\ CanConfigure /\ selected = b
            /\ jobs'[Len(jobs')] = [op |-> "Configure", id |-> b, os |-> TargetOs]
      BY <1>1, Submission
    <2>2. confirmed = TRUE
      BY <2>1, <1>1, Zenon DEF CanConfigure, IInv, TypeOK, FlagsOK
    <2>3. agreed = b /\ Offered(b)
      BY <1>1, <2>1, <2>2 DEF IInv, ConsentInv, CanConfigure
    <2> QED
      BY <2>1, <2>3 DEF Offered
  <1> QED
    BY <1>1, Invariance, PTL DEF Spec, ConfigureNeedsConsent

=============================================================================
