SPECIFICATION ClientSpec
CONSTANTS
  fallback = fallback
  damaged = damaged
  newline = newline
  nil = nil
  Streams <- StreamsDef
  Json <- JsonDef
  Fallback <- fallback
  Damaged <- damaged
  NL <- newline
  Nil <- nil
INVARIANTS
  ClientTypeOK
  BufferHoldsPartial
  CompleteStreamIsWhole
  PartialIsPrefix
  SeenIsHandled
  ClientAgrees
\* A stream ends, or breaks off, once, and then its client returns.
CHECK_DEADLOCK FALSE
