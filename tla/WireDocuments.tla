--------------------------- MODULE WireDocuments ---------------------------
(* How the documents of Wire are written and read: the shape of every type *)
(* of crates/protocol, what serde and serde_json (Serde) make of a shape,  *)
(* and the scanner of decode. These are the values of Wire's operators.    *)
EXTENDS Wire, FiniteSets

CONSTANT MaxDepth       \* the depth at which JsonScanner gives up, 256

LOCAL Shape == INSTANCE Serde WITH Types <- [none |-> <<>>]
LOCAL Box(names, type) == [n \in names |-> type]

\* Every DTO, with its conversions from and to the type of the same name in
\* core, which go name by name in both directions.
BootIdType == Shape!Number(0, 65535)
OsType == Shape!UnitEnum({"Windows", "Linux"})
RequestIdType == [kind |-> "id", valid |-> {Shape!Str(id) : id \in RequestIds}]

RecordDiagnosticType == Shape!Enum([Missing |-> "unit", Ready |-> "Ready"])
ReadyType == Shape!Struct(<< <<"boot_id", "BootId">>, <<"os", "Os">> >>)

ClassificationType == Shape!UnitEnum({"NeedsConfirmation", "Unsupported"})
EnumerationDiagnosticType == Shape!Enum([DuplicateBootOrder |-> "BootId"])

ResidualAssessmentType ==
    Shape!Enum([NotChecked |-> "unit", Observed |-> "MaybeBootId", ReadFailed |-> "Error"])
RollbackAssessmentType ==
    Shape!Enum([NotNeeded |-> "unit", Restored |-> "unit", Unsafe |-> "unit", Failed |-> "Error"])

PlatformOperations == {"Open", "Read", "Write", "Metadata", "Lock", "Flush", "Replace", "Ipc",
                       "Reboot", "Random", "Process", "Security"}

\* The errors without more to say, and those with the code of the system.
PlainErrors == {"MalformedLoadOption", "MalformedDevicePath", "ResourceLimit", "UnsupportedFormat",
                "UnsupportedIdentityComponent", "CorruptRecord", "IdentityMismatch", "UnexpectedOs",
                "TargetMissing", "NotConfigured", "BootNextConflict", "Busy", "ReadbackFailed",
                "RebootRejected", "NotUefi", "PrivilegeUnavailable"}
CodedErrors == {"PrivilegeEnableFailed", "PrivilegeRestoreFailed", "FirmwareReadFailed",
                "FirmwareWriteFailed", "BootNextUnavailable", "ProtectedStoreViolation",
                "StoreReplaceFailed", "StoreDurabilityUnknown"}

ErrorType ==
    Shape!Enum([n \in PlainErrors \union CodedErrors
                      \union {"UnsupportedRecordVersion", "PlatformIo", "FlowFailure"} |->
                  IF n \in PlainErrors THEN "unit" ELSE IF n \in CodedErrors THEN "RawCode" ELSE n])
PlatformIoType == Shape!Struct(<< <<"operation", "PlatformOperation">>, <<"raw_code", "i32">> >>)
FlowFailureType ==
    Shape!Struct(<< <<"cause", "Error">>, <<"stages", "Stages">>,
                    <<"residual_assessment", "ResidualAssessment">>,
                    <<"rollback_assessment", "RollbackAssessment">>,
                    <<"diagnostics", "Diagnostics">> >>)

CandidateType ==
    Shape!Struct(<< <<"boot_id", "BootId">>, <<"description_utf16", "Units">>,
                    <<"classification", "Classification">>, <<"ambiguous", "bool">> >>)
ReportType ==
    Shape!Struct(<< <<"candidates", "Candidates">>, <<"record", "RecordDiagnostic">>,
                    <<"stages", "Stages">>, <<"diagnostics", "Diagnostics">> >>)
RequestType == Shape!Enum([Inspect |-> "unit", Configure |-> "Ready", Switch |-> "Switch"])

WireTypes ==
    [ BootId |-> BootIdType, u16 |-> Shape!Number(0, 65535),
      u32 |-> Shape!Number(0, 2147483647), u64 |-> Shape!Number(0, 2147483647),
      i32 |-> Shape!Number(-2147483647, 2147483647), bool |-> [kind |-> "flag"],
      RequestId |-> RequestIdType, Os |-> OsType, Stage |-> Shape!UnitEnum(StageNames),
      Stages |-> Shape!VecOf("Stage"), Units |-> Shape!VecOf("u16"),
      Candidates |-> Shape!VecOf("Candidate"), Diagnostics |-> Shape!VecOf("EnumerationDiagnostic"),
      MaybeBootId |-> Shape!OptionOf("BootId"),
      RecordDiagnostic |-> RecordDiagnosticType, Ready |-> ReadyType,
      Classification |-> ClassificationType, EnumerationDiagnostic |-> EnumerationDiagnosticType,
      ResidualAssessment |-> ResidualAssessmentType, RollbackAssessment |-> RollbackAssessmentType,
      PlatformOperation |-> Shape!UnitEnum(PlatformOperations),
      Error |-> ErrorType, RawCode |-> Shape!Struct(<< <<"raw_code", "i32">> >>),
      UnsupportedRecordVersion |-> Shape!Struct(<< <<"found", "u64">> >>),
      PlatformIo |-> PlatformIoType, FlowFailure |-> FlowFailureType,
      Candidate |-> CandidateType, Report |-> ReportType,
      Request |-> RequestType, Switch |-> Shape!Struct(<< <<"os", "Os">> >>),
      Result |-> Shape!Enum([Ok |-> "Report", Err |-> "Error"]),
      WireRequest |-> Shape!Struct(<< <<"protocol_version", "u32">>, <<"request_id", "RequestId">>,
                                      <<"request", "Request">> >>),
      WireResponse |-> Shape!Struct(<< <<"protocol_version", "u32">>, <<"request_id", "RequestId">>,
                                       <<"result", "Result">> >>),
      Hello |-> Shape!Struct(<< <<"protocol_version", "u32">>, <<"hello", "bool">> >>) ]

Json == INSTANCE Serde WITH Types <- WireTypes
-----------------------------------------------------------------------------
\* JsonScanner: a whole document, not too deep, no member of an object twice.
RECURSIVE Scans(_, _)
Scans(doc, depth) ==
    /\ depth <= MaxDepth
    /\ doc # Garbled
    /\ Json!IsObject(doc) =>
          /\ Cardinality({Json!Keys(doc)[i] : i \in DOMAIN doc.obj}) = Len(doc.obj)
          /\ \A i \in DOMAIN doc.obj : Scans(doc.obj[i][2], depth + 1)
    /\ Json!IsArray(doc) => \A i \in DOMAIN doc.arr : Scans(doc.arr[i], depth + 1)

JsonToWriter(type, value) == Json!Serialize(type, value)
JsonFromSlice(type, doc) == Json!Deserialize(type, doc)
JsonTextLength(doc) == Json!Size(doc)
JsonValue(doc) == Json!Normal(doc)
JsonScanner(doc) == Scans(doc, 0)
JsonMisshapes(doc) == Json!Reshaped(doc)
=============================================================================
