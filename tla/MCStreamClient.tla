--------------------------- MODULE MCStreamClient ---------------------------
(* The streams of MCStreamAccumulator, with a client that reads them.      *)
EXTENDS MCStreamAccumulator, StreamClient
=============================================================================
