\* Two values to a digit of a length prefix, two bytes to a number.
CONSTANTS
  nil = nil
  empty = empty
  a = a
  b = b
  image1 = image1
  image2 = image2
  Nil <- nil
  EmptyLine <- empty
  Base = 2
  U64Bytes = 2
  MaxSafe = 7
  Requests <- RequestsDef
  Answers <- AnswersDef
  Uncommitted <- UncommittedDef
  Hosts <- HostsDef
  Messages = {"e"}
SPECIFICATION Spec
INVARIANT TypeOK
INVARIANT RequestBlobBinds
INVARIANT UpstreamBlobBinds
INVARIANT ResponseExplainsReceipt
INVARIANT HonestRecordVerifies
INVARIANT VerifiedIsSigned
\* An exchange ends with its record checked, or without a receipt.
CHECK_DEADLOCK FALSE
