SPECIFICATION MCSpec
CONSTANTS
  MaxOptionBytes = 74
  MaxRecordSize = 100
  Variables <- MCVariables
  Bytes = {0, 1, 46, 47, 92, 216, 255}
  TargetOs = "Linux"
  TargetId = 1
  ToDocument <- EncodeRecord
  FromDocument <- DecodeRecord
  Rewritten <- Tampered
  SameRecord <- Synonyms
  MaxBytes = 36
  MaxDepth = 12
  MaxCompactStages = 8
  RequestIds = {"a", "b"}
  ProtocolVersion = 2
  Outcomes <- MCOutcomes
  Mine = "a"
  Other = "b"
  Target = "Linux"
  ToWriter <- JsonToWriter
  FromSlice <- JsonFromSlice
  TextLength <- JsonTextLength
  ValueOf <- JsonValue
  Scanned <- JsonScanner
  Misshapes <- JsonMisshapes
INVARIANTS IdentityIsExact AnswerIsFaithful
CHECK_DEADLOCK FALSE
