-------------------------------- MODULE Wire --------------------------------
(* crates/protocol: the documents a helper and a window exchange, the frame *)
(* around one, and how an answer too large for its frame is cut down.       *)
(* Documents are trees (Serde), and a length counts members and elements in *)
(* place of bytes. A frame is what lies in the buffer: the length its       *)
(* prefix claims, the length that is there, and the document, which is      *)
(* Garbled when the text is none. What writes and reads a document is a     *)
(* parameter; WireDocuments holds the operators it stands for.              *)
EXTENDS Partial

CONSTANTS
    MaxBytes,           \* MAX_BYTES, 65536 bytes in the code
    MaxCompactStages,   \* MAX_COMPACT_STAGES, 256
    RequestIds,         \* the texts RequestId::parse takes
    ProtocolVersion,    \* PROTOCOL_VERSION
    ToWriter(_, _),     \* to_writer: the document of a value of a type
    FromSlice(_, _),    \* from_slice: <<value>>, or <<>> for another document
    TextLength(_),      \* the length of a document's text
    ValueOf(_),         \* the document as a serde_json::Value
    Scanned(_)          \* JsonScanner: no member twice, not too deep

Garbled == [lit |-> "garbled"]
Prefix == 1             \* the four bytes of the length

StageNames == {"TargetValidated", "BootNextVerified", "RebootAccepted", "RebootRejected",
               "RebootUnknown", "RollbackAttempted", "RollbackRestored", "RollbackUnsafe",
               "RollbackFailed", "ResidualPossible"}
-----------------------------------------------------------------------------
Frame(doc) == [said |-> TextLength(doc), held |-> TextLength(doc), doc |-> doc]
Length(frame) == Prefix + frame.held

\* encode: a writer that stops at the limit, then the length in front.
Encode(type, value) ==
    Then(<< ToWriter(type, value) >>,
         LAMBDA doc : When(Prefix + TextLength(doc) <= MaxBytes, Frame(doc)))

\* decode: the frame is complete and no longer than it says; the document has
\* no member twice, is one of the type, and is the one its value is written as.
Decode(type, frame) ==
    IF \/ Length(frame) > MaxBytes \/ frame.held < 0
       \/ frame.said > MaxBytes - Prefix \/ frame.said # frame.held
       \/ ~Scanned(frame.doc)
    THEN <<>>
    ELSE Then(FromSlice(type, frame.doc),
              LAMBDA value : When(ValueOf(frame.doc) = ValueOf(ToWriter(type, value)), value))

Text(id) == [str |-> id]
Hello == [protocol_version |-> ProtocolVersion, hello |-> [lit |-> "true"]]
WireRequest(id, request) ==
    [protocol_version |-> ProtocolVersion, request_id |-> Text(id), request |-> request]
WireResponse(id, result) ==
    [protocol_version |-> ProtocolVersion, request_id |-> Text(id), result |-> result]

EncodeHello == Encode("Hello", Hello)[1]
DecodeHello(frame) == Decode("Hello", frame) = <<Hello>>

EncodeRequestWithId(id, request) ==
    IF id \in RequestIds THEN Encode("WireRequest", WireRequest(id, request)) ELSE <<>>

DecodeRequestEnvelope(frame) ==
    Then(Decode("WireRequest", frame),
         LAMBDA wire : When(wire.protocol_version = ProtocolVersion, wire))

EncodeResponseWithId(id, result) ==
    IF id \in RequestIds THEN Encode("WireResponse", WireResponse(id, result)) ELSE <<>>

\* decode_response_for: <<result>> when the frame answers this request.
DecodeResponseFor(frame, expected) ==
    Then(Decode("WireResponse", frame),
         LAMBDA wire : When(/\ wire.protocol_version = ProtocolVersion
                            /\ wire.request_id = Text(expected), wire.result))
-----------------------------------------------------------------------------
Unit(name) == [is |-> name]
With(name, value) == [is |-> name, with |-> value]
ResourceLimited == With("Err", Unit("ResourceLimit"))

CompactCause(error) == IF error.is = "FlowFailure" THEN Unit("ResourceLimit") ELSE error

CompactRollbackAssessment(assessment) ==
    IF assessment.is = "Failed" THEN With("Failed", CompactCause(assessment.with)) ELSE assessment

CompactResidualAssessment(assessment) ==
    IF assessment.is = "ReadFailed" THEN With("ReadFailed", CompactCause(assessment.with))
    ELSE assessment

CompactStages(stages) == SubSeq(stages, 1, IF Len(stages) > MaxCompactStages THEN MaxCompactStages
                                           ELSE Len(stages))

\* A report cut down to its stages: what was validated can be left out, one
\* might think, once it has been.
CompactReportBare(report) == [report EXCEPT !.candidates = <<>>, !.diagnostics = <<>>]

\* The positions of the candidates that the record names.
Recorded(report) ==
    IF report.record.is = "Missing" THEN {}
    ELSE {i \in DOMAIN report.candidates : report.candidates[i].boot_id = report.record.with.boot_id}

\* compact_report: of the candidates, the first that the record names stays,
\* without its description.
CompactReport(report) ==
    LET first == CHOOSE i \in Recorded(report) : \A j \in Recorded(report) : i <= j
    IN  [report EXCEPT !.candidates = When(Recorded(report) # {},
                                           [report.candidates[first] EXCEPT !.description_utf16 = <<>>]),
                       !.diagnostics = <<>>]

CompactFailure(failure) ==
    [ cause |-> CompactCause(failure.cause),
      stages |-> CompactStages(failure.stages),
      residual_assessment |-> CompactResidualAssessment(failure.residual_assessment),
      rollback_assessment |-> CompactRollbackAssessment(failure.rollback_assessment),
      diagnostics |-> <<>> ]

\* The terminal witness kept of a result that shows a stage; others have none.
Compact(result) ==
    IF result.is = "Ok"
    THEN When(result.with.stages # <<>>, With("Ok", CompactReport(result.with)))
    ELSE IF result.with.is # "FlowFailure" THEN <<>>
    ELSE When(result.with.with.stages # <<>>,
              With("Err", With("FlowFailure", CompactFailure(result.with.with))))

\* budgeted_response_with_id: the answer in what the hello left of the frame
\* budget, whole, cut down, or as a plain ResourceLimit.
BudgetedResponseWithId(id, result, used) ==
    LET Response(r) == EncodeResponseWithId(id, r)
        Fitting(response) == When(response # <<>> /\ Length(response[1]) <= MaxBytes - used, response[1])
        compact == Then(Compact(result), Response)
        fallback == IF compact # <<>> THEN compact ELSE Response(ResourceLimited)
        whole == Fitting(Response(result))
    IN  IF whole # <<>> THEN whole ELSE Fitting(fallback)
=============================================================================
