-------------------------- MODULE ResponseExchange --------------------------
(* One exchange as documents: the helper's hello, the window's request and  *)
(* the helper's answer, each through the codec of crates/protocol, over a   *)
(* pipe on which one frame may arrive other than it was sent. Who waits for *)
(* whom, and what happens when nothing comes, is HelperSession's and        *)
(* WindowsSession's; here it is what the two sides understand.              *)
EXTENDS Wire, SequencesExt

CONSTANTS
    Outcomes,       \* what core::execute may answer, as [request, result]
    Mine,           \* the RequestId of this exchange
    Other,          \* that of an earlier one
    Target,         \* expected_target(host), the system the window offers
    Misshapes(_)    \* other documents that a lenient reader takes for this one

Ids == {Mine, Other}
NilId == "00000000000000000000000000000000"     \* refused by RequestId::parse

ASSUME RequestIdAssumption ==
    Ids \subseteq RequestIds /\ Mine # Other /\ NilId \notin RequestIds

ASSUME NumbersAssumption ==
    {MaxBytes, MaxCompactStages, ProtocolVersion} \subseteq Nat

\* Results as core::execute makes them: the inventory lists an entry once, a
\* failure of the flow has an error of an adapter or of the flow for its cause,
\* and the flow shows a handful of stages.
Candidates == [ boot_id : Nat, description_utf16 : Seq(Nat),
                classification : [is : {"NeedsConfirmation", "Unsupported"}],
                ambiguous : [lit : {"true", "false"}] ]
RecordDiagnostics == [is : {"Missing"}]
    \union [is : {"Ready"}, with : [boot_id : Nat, os : [is : {"Windows", "Linux"}]]]
StageSeqs == Seq([is : StageNames])
Reports == [ candidates : Seq(Candidates), record : RecordDiagnostics, stages : StageSeqs,
             diagnostics : Seq([is : {"DuplicateBootOrder"}, with : Nat]) ]

IsFailure(result) == result.is = "Err" /\ result.with.is = "FlowFailure"

ASSUME OutcomesAssumption ==
    \A o \in Outcomes :
        /\ o.result.is \in {"Ok", "Err"}
        /\ o.result.is = "Ok" =>
              /\ o.result.with \in Reports
              /\ \A i, j \in DOMAIN o.result.with.candidates :
                    o.result.with.candidates[i].boot_id = o.result.with.candidates[j].boot_id => i = j
        /\ IsFailure(o.result) =>
              /\ o.result.with.with.cause.is # "FlowFailure"
              /\ o.result.with.with.stages \in StageSeqs
              /\ Len(o.result.with.with.stages) <= MaxCompactStages
-----------------------------------------------------------------------------
(* What the exchange relies on of serde_json, for the documents it sends.   *)

\* The document with another value for one of its members.
Replaced(doc, key, value) ==
    [obj |-> [i \in DOMAIN doc.obj |-> IF doc.obj[i][1] = key THEN <<key, value>> ELSE doc.obj[i]]]

\* What is written is read back.
ReadBack(type, value) ==
    LET doc == ToWriter(type, value)
    IN  /\ Scanned(doc) /\ TextLength(doc) \in Nat
        /\ FromSlice(type, doc) = <<value>>

\* A document of another shape is refused or read as the value it was made
\* from, and a member with another value as that value with the other member.
NotMisread(type, value) ==
    LET doc == ToWriter(type, value)
    IN  /\ \A d \in Misshapes(doc) : FromSlice(type, d) \in {<<>>, <<value>>}
        /\ \A id \in {Other, NilId} :
              FromSlice(type, Replaced(doc, "request_id", Text(id)))
                 \in {<<>>, << [value EXCEPT !.request_id = Text(id)] >>}
        /\ FromSlice(type, Replaced(doc, "protocol_version", [num |-> ProtocolVersion + 1]))
                 \in {<<>>, << [value EXCEPT !.protocol_version = ProtocolVersion + 1] >>}

\* The whole answer, the one cut down and the plain error.
Answers(result) == {result, ResourceLimited} \union ToSet(Compact(result))

ASSUME CodecAssumption ==
    /\ ~Scanned(Garbled)
    /\ ReadBack("Hello", Hello)
    /\ \A id \in Ids, o \in Outcomes :
          /\ ReadBack("WireRequest", WireRequest(id, o.request))
          /\ NotMisread("WireRequest", WireRequest(id, o.request))
          /\ \A r \in Answers(o.result) :
                /\ ReadBack("WireResponse", WireResponse(id, r))
                /\ NotMisread("WireResponse", WireResponse(id, r))

\* A hello and a request fit their frame, and an answer that has been cut down
\* fits what the hello left of the budget.
ASSUME BudgetAssumption ==
    /\ Length(Frame(ToWriter("Hello", Hello))) <= MaxBytes
    /\ \A id \in Ids, o \in Outcomes :
          /\ Length(Frame(ToWriter("WireRequest", WireRequest(id, o.request)))) <= MaxBytes
          /\ \A r \in {ResourceLimited} \union ToSet(Compact(o.result)) :
                Length(Frame(ToWriter("WireResponse", WireResponse(id, r))))
                  + Length(Frame(ToWriter("Hello", Hello))) <= MaxBytes
-----------------------------------------------------------------------------
VARIABLES
    phase,          \* whose turn it is
    asked,          \* the request of the window
    frame,          \* what lies in the pipe
    damaged,        \* was a frame changed on its way?
    understood,     \* the request the helper ran: <<>> or <<request>>
    outcome,        \* what core::execute answered it
    heard           \* what the window was told: <<>> or <<result>>

exchangeVars == <<phase, asked, frame, damaged, understood, outcome, heard>>

ResponseExchangeInit ==
    /\ phase = "start"
    /\ asked \in {o.request : o \in Outcomes}
    /\ frame = <<>> /\ understood = <<>> /\ outcome = <<>> /\ heard = <<>>
    /\ damaged = FALSE

\* serve: the hello goes out first.
Greet ==
    /\ phase = "start" /\ phase' = "hello"
    /\ frame' = EncodeHello
    /\ UNCHANGED <<asked, damaged, understood, outcome, heard>>

\* The window asks only whom it has understood.
Ask ==
    /\ phase = "hello"
    /\ IF DecodeHello(frame)
       THEN phase' = "request" /\ frame' = EncodeRequestWithId(Mine, asked)[1]
       ELSE phase' = "failed" /\ frame' = <<>>
    /\ UNCHANGED <<asked, damaged, understood, outcome, heard>>

\* serve: a request that cannot be read ends the helper without an answer;
\* one that can is run, and answered once in what is left of the budget.
Answer ==
    LET Asked == DecodeRequestEnvelope(frame)
        Response(envelope, result) ==
            BudgetedResponseWithId(envelope.request_id.str, result, Length(EncodeHello))
    IN  /\ phase = "request"
        /\ \/ /\ Asked = <<>>
              /\ phase' = "failed" /\ frame' = <<>>
              /\ UNCHANGED <<understood, outcome>>
           \/ \E envelope \in ToSet(Asked), o \in Outcomes :
                 /\ o.request = envelope.request
                 /\ understood' = <<o.request>> /\ outcome' = <<o.result>>
                 /\ \E answer \in {Response(envelope, o.result)} :
                       /\ phase' = IF answer = <<>> THEN "failed" ELSE "response"
                       /\ frame' = IF answer = <<>> THEN <<>> ELSE answer[1]
        /\ UNCHANGED <<asked, damaged, heard>>

\* decode_response_for, after the helper has ended well.
Deliver ==
    /\ phase = "response" /\ phase' = "done"
    /\ heard' = DecodeResponseFor(frame, Mine)
    /\ UNCHANGED <<asked, frame, damaged, understood, outcome>>

\* A frame cut short or run together with another, one whose prefix lies, one
\* that is no text or has another shape, and one of another exchange or version.
DamagedFrames(f) ==
    { [f EXCEPT !.held = @ - 1, !.doc = Garbled], [f EXCEPT !.held = @ + 1, !.doc = Garbled],
      [f EXCEPT !.said = @ + 1], [f EXCEPT !.said = @ - 1], [f EXCEPT !.said = MaxBytes],
      [f EXCEPT !.doc = Garbled],
      Frame(Replaced(f.doc, "request_id", Text(Other))),
      Frame(Replaced(f.doc, "request_id", Text(NilId))),
      Frame(Replaced(f.doc, "protocol_version", [num |-> ProtocolVersion + 1])) }
    \union {Frame(doc) : doc \in Misshapes(f.doc)}

Damage ==
    /\ phase \in {"hello", "request", "response"} /\ ~damaged
    /\ frame' \in DamagedFrames(frame) \ {frame}
    /\ damaged' = TRUE
    /\ UNCHANGED <<phase, asked, understood, outcome, heard>>

ResponseExchangeNext == Greet \/ Ask \/ Answer \/ Deliver \/ Damage

ResponseExchangeSpec == ResponseExchangeInit /\ [][ResponseExchangeNext]_exchangeVars
-----------------------------------------------------------------------------
(* What the window makes of an answer: controller.rs:validate_report.       *)
TargetSupported(report) ==
    /\ report.record.is = "Ready"
    /\ \E i \in Recorded(report) : /\ Recorded(report) = {i}
                                   /\ report.candidates[i].classification.is # "Unsupported"

ValidateReport(request, report) ==
    LET ready == report.record.is = "Ready"
        supported == TargetSupported(report)
        switched == request.is = "Switch" /\ request.with.os.is = Target /\ supported
        Shows(names) == report.stages = [i \in DOMAIN names |-> Unit(names[i])]
    IN  IF ready /\ report.record.with.os.is # Target THEN "invalid"
        ELSE CASE request.is = "Inspect" /\ Shows(<<>>) ->
                    IF ready /\ ~supported THEN "changed" ELSE "inspected"
               [] request.is = "Configure" /\ supported /\ Shows(<<"TargetValidated">>) ->
                    IF request.with = report.record.with THEN "configured" ELSE "invalid"
               [] switched /\ Shows(<<"TargetValidated", "BootNextVerified", "RebootAccepted">>) -> "accepted"
               [] switched /\ Shows(<<"TargetValidated", "BootNextVerified", "RebootUnknown", "ResidualPossible">>)
                    -> "unknown"
               [] OTHER -> "invalid"

\* What of a result the operator must not lose: how far it went, what may be
\* left in the firmware, and what the window then offers to do.
StagesOf(result) ==
    IF result.is = "Ok" THEN result.with.stages
    ELSE IF result.with.is = "FlowFailure" THEN result.with.with.stages ELSE <<>>

Evidence(request, result) ==
    IF result.is = "Ok"
    THEN <<StagesOf(result), result.with.record, ValidateReport(request, result.with)>>
    ELSE LET failure == result.with.with
         IN  <<StagesOf(result), failure.cause.is, failure.residual_assessment.is,
               IF failure.residual_assessment.is = "Observed" THEN failure.residual_assessment.with
               ELSE <<>>,
               failure.rollback_assessment.is>>

Whole(result) == ToWriter("WireResponse", WireResponse(Mine, result))

TooLarge(result) == Length(Frame(Whole(result))) + Length(EncodeHello) > MaxBytes

\* An exchange nobody disturbs ends in an answer, and one that is disturbed in
\* no answer or in the one that was given: the helper ran what was asked, the
\* document is the only one for its value, and an answer that had to be cut
\* down still shows every stage, the record, the cause and what is known of a
\* residual BootNext, and still is to the window what the whole one would be
\* (decode, decode_response_for, budgeted_response_with_id).
AnswerIsFaithful ==
    /\ phase = "failed" => damaged
    /\ phase = "done" => (heard = <<>> => damaged)
    /\ heard # <<>> =>
          LET told == heard[1]
              real == outcome[1]
          IN  /\ understood = <<asked>>
              /\ ValueOf(frame.doc) = ValueOf(Whole(told))
              /\ \/ told = real
                 \/ /\ TooLarge(real) /\ StagesOf(real) = <<>>
                    /\ told = ResourceLimited
                 \/ /\ TooLarge(real) /\ StagesOf(real) # <<>>
                    /\ told.is = real.is /\ Evidence(asked, told) = Evidence(asked, real)
=============================================================================
