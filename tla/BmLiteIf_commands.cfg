SPECIFICATION IfSpec
CONSTANTS
  BYTE = 256
  PKT_SIZE_MAX = 24
  Functions <- MCFunctions
  Payloads = {0, 3, 8}
  BreaksAt = {0, 10}
INVARIANTS PkTypeOK PacketEncoded WalkInStep IfTypeOK SentAsAsked AnswerHonest CopyFits StatusReadAsCount
PROPERTIES ImplementsArgList
