------------------------ MODULE MCStreamAccumulator ------------------------
(* A handful of streams for TLC, each cut in every way.                    *)
EXTENDS StreamAccumulator

CONSTANTS fallback, damaged, newline, nil

(* Anthropic.                                                              *)
Started(usage) == [type |-> "message_start", wide |-> FALSE, model |-> "m1", usage |-> usage]
Start(i, kind, name, body) ==
  [type |-> "content_block_start", wide |-> FALSE, index |-> i, kind |-> kind,
   name |-> name, body |-> body]
Delta(i, kind, piece, wide) ==
  [type |-> "content_block_delta", wide |-> wide, index |-> i, kind |-> kind,
   piece |-> piece]
Stop(reason, usage) ==
  [type |-> "message_delta", wide |-> FALSE, stop |-> reason, usage |-> usage]
Other(type) == [type |-> type, wide |-> FALSE]

Block(kind, name, body) == [kind |-> kind, name |-> name, body |-> body]
Usage(i, c, r, o) == [input |-> i, creation |-> c, read |-> r, output |-> o]

(* Thinking, text with a wide character, a tool call in two pieces; usage  *)
(* is cumulative and reported in part.                                     *)
Long ==
  [surface |-> "anthropic",
   events |-> << Started([input |-> 3, read |-> 2, output |-> 1]),
                 Start(0, "opaque", <<>>, <<>>), Delta(0, "thinking_delta", "hm", FALSE),
                 Start(1, "text", <<>>, <<>>), Delta(1, "text_delta", "a", TRUE),
                 Start(2, "tool_use", <<"f">>, <<>>),
                 Delta(2, "input_json_delta", "{x", FALSE),
                 Delta(2, "input_json_delta", "y}", FALSE),
                 Stop("tool_use", [output |-> 4]) >>,
   response |-> [model |-> "m1", stop |-> "tool_use", usage |-> Usage(3, 0, 2, 4),
                 content |-> << Block("opaque", <<>>, <<"hm">>),
                                Block("text", <<>>, <<"a">>),
                                Block("tool_use", <<"f">>, <<"{x", "y}">>) >>]]

(* A redacted block comes in one event; a tool without input; a refusal.   *)
Short ==
  [surface |-> "anthropic",
   events |-> << Started([input |-> 2, creation |-> 1]),
                 Start(0, "opaque", <<>>, <<"r">>), Start(1, "text", <<>>, <<"a">>),
                 Delta(1, "text_delta", "b", TRUE), Start(2, "tool_use", <<"f">>, <<>>),
                 Stop("refusal", [output |-> 1]), Stop("refusal", [output |-> 2]) >>,
   response |-> [model |-> "m1", stop |-> "refusal", usage |-> Usage(2, 1, 0, 2),
                 content |-> << Block("opaque", <<>>, <<"r">>),
                                Block("text", <<>>, <<"a", "b">>),
                                Block("tool_use", <<"f">>, <<>>) >>]]

(* A ping, and a stream the provider ends with an error: there is no       *)
(* answer to compare with.                                                 *)
Failing ==
  [surface |-> "anthropic",
   events |-> << Started([input |-> 2]), Other("ping"), Start(0, "text", <<>>, <<>>),
                 Delta(0, "text_delta", "a", FALSE), Delta(1, "text_delta", "b", TRUE),
                 Other("error") >>,
   response |-> nil]

(* OpenAI.                                                                 *)
Text(piece, wide) == [type |-> "text", wide |-> wide, model |-> "m2", piece |-> piece]
Call(i, name, piece) ==
  [type |-> "tool_call", wide |-> FALSE, model |-> "m2", index |-> i, name |-> name,
   piece |-> piece]
Finished(reason) == [type |-> "finish", wide |-> FALSE, model |-> "m2", stop |-> reason]
Counts(p, c, k) == [prompt |-> p, completion |-> c, cached |-> k]
Used(usage) == [type |-> "usage", wide |-> FALSE, model |-> "m2", usage |-> usage]
Done == Other("done")

(* Two tool calls whose parts are mixed, one begun before the text; the    *)
(* second's arguments do not parse.                                        *)
Calls ==
  [surface |-> "openai",
   events |-> << Call(0, <<"f">>, nil), Text("b", TRUE), Call(1, <<"g">>, "{x"),
                 Call(0, <<>>, "{x"), Call(0, <<>>, "y}"),
                 Finished("tool_calls"), Used(Counts(3, 2, 1)), Done >>,
   response |-> [model |-> "m2", stop |-> "tool_calls", usage |-> Counts(3, 2, 1),
                 content |-> << Block("text", <<>>, <<"b">>),
                                Block("tool_use", <<"f">>, <<"{x", "y}">>),
                                Block("tool_use", <<"g">>, <<"{x">>) >>]]

(* A filtered answer in two pieces, with more cached tokens than the       *)
(* prompt had.                                                             *)
Filtered ==
  [surface |-> "openai",
   events |-> << Text("a", TRUE), Text("b", FALSE), Finished("content_filter"),
                 Used(Counts(1, 1, 2)), Done >>,
   response |-> [model |-> "m2", stop |-> "content_filter", usage |-> Counts(1, 1, 2),
                 content |-> << Block("text", <<>>, <<"a", "b">>) >>]]

(* An answer whose text is empty; a higher call is seen before a lower.    *)
Silent ==
  [surface |-> "openai",
   events |-> << Call(1, <<"g">>, "{x"), Call(0, <<"f">>, nil), Call(1, <<>>, "y}"),
                 Finished("tool_calls"), Used(Counts(1, 1, 0)) >>,
   response |-> [model |-> "m2", stop |-> "tool_calls", usage |-> Counts(1, 1, 0),
                 content |-> << Block("text", <<>>, <<>>), Block("tool_use", <<"f">>, <<>>),
                                Block("tool_use", <<"g">>, <<"{x", "y}">>) >>]]

(* An answer without a text.                                               *)
Bare ==
  [surface |-> "openai",
   events |-> << Call(0, <<"f">>, nil), Finished("tool_calls"), Used(Counts(1, 1, 0)) >>,
   response |-> [model |-> "m2", stop |-> "tool_calls", usage |-> Counts(1, 1, 0),
                 content |-> << Block("tool_use", <<"f">>, <<>>) >>]]

StreamsDef == {Long, Short, Failing, Calls, Filtered, Silent, Bare}
JsonDef == {<<"{x", "y}">>}
=============================================================================
