SPECIFICATION Spec
CONSTANTS
  fallback = fallback
  damaged = damaged
  newline = newline
  nil = nil
  Streams <- StreamsDef
  Json <- JsonDef
  Fallback <- fallback
  Damaged <- damaged
  NL <- newline
  Nil <- nil
\* A stream ends, or breaks off, once.
CHECK_DEADLOCK FALSE
INVARIANT ChunksDoNotMatter
