------------------------------ MODULE MCExchange ------------------------------
(* Requests that differ in one place each, and answers of every kind.      *)
EXTENDS Exchange

CONSTANTS nil, empty, a, b, image1, image2

Str(text) == [json |-> "string", value |-> text]
Arr(parts) == [json |-> "array", value |-> parts]
Model(n) == [i \in 1 .. n |-> Byte(i % 2)]

(* What a request asks for, and what else it could have asked.             *)
Base0 ==
  [model |-> Model(1), system |-> <<a>>, user |-> <<a>>, media |-> image1,
   toolText |-> <<a, b>>, toolMedia |-> image1, failed |-> FALSE,
   callInput |-> "blank", tools |-> "f", strict |-> FALSE, choice |-> "auto",
   maxTokens |-> 1, temperature |-> nil, rest |-> "seed 1", stream |-> FALSE]

Else0 ==
  [model |-> Model(4), system |-> <<b>>, user |-> <<a, b>>, media |-> image2,
   toolText |-> <<a>>, toolMedia |-> image2, failed |-> TRUE,
   callInput |-> "broken", tools |-> nil, strict |-> TRUE, choice |-> nil,
   maxTokens |-> nil, temperature |-> 1, rest |-> "seed 2", stream |-> TRUE]

Asks ==
  {Base0, Else0, [Base0 EXCEPT !.stream = TRUE, !.rest = "seed 2"],
   [Base0 EXCEPT !.callInput = "parses"]}
    \cup {[Base0 EXCEPT ![p] = Else0[p]] : p \in DOMAIN Base0}

Part(text) == [type |-> "text", text |-> text]
Image(x) == [type |-> "image", source |-> x]

(* The members both wire formats have.                                     *)
Body(x, messages) ==
  [model |-> x.model, messages |-> messages,
   tools |-> IF x.tools = nil THEN nil
             ELSE << [name |-> x.tools, description |-> nil, schema |-> nil,
                      strict |-> x.strict] >>,
   tool_choice |-> x.choice, max_tokens |-> x.maxTokens,
   temperature |-> x.temperature, stream |-> x.stream, stream_options |-> nil,
   rest |-> x.rest]

Message(role, content) ==
  [role |-> role, content |-> content, tool_calls |-> <<>>, tool_call_id |-> nil]

Arguments(x) ==
  CASE x.callInput = "blank"  -> [form |-> "blank"]
    [] x.callInput = "parses" -> [form |-> "parses", value |-> Str(<<b>>)]
    [] x.callInput = "broken" -> [form |-> "broken", text |-> <<a>>]

OpenAIBody(x) ==
  Body(x,
    << Message("developer", Str(x.system)),
       Message("user", Arr(<<Part(x.user), Image(x.media)>>)),
       [Message("assistant", [json |-> "null"]) EXCEPT
          !.tool_calls = << [id |-> <<a>>, name |-> "f", arguments |-> Arguments(x)] >>],
       [Message("tool", Arr(Append([i \in DOMAIN x.toolText |-> Part(<<x.toolText[i]>>)],
                                   Image(x.toolMedia))))
          EXCEPT !.tool_call_id = <<a>>] >>)

Result(x) ==
  [type |-> "tool_result", tool_use_id |-> <<a>>, is_error |-> x.failed,
   content |-> Arr(<<Part(x.toolText), Image(x.toolMedia)>>)]

Use(x) ==
  [type |-> "tool_use", id |-> <<a>>, name |-> "f",
   input |-> [json |-> "object", value |-> x.callInput]]

AnthropicBody(x) ==
  Body(x,
    << [role |-> "user", content |-> Arr(<<Part(x.user), Image(x.media)>>)],
       [role |-> "assistant", content |-> Arr(<<Use(x)>>)],
       [role |-> "user", content |-> Arr(<<Result(x)>>)] >>)
  @@ [system |-> Arr(<<Part(x.system)>>)]

(* On the OpenAI wire a tool message cannot say that the tool failed.      *)
Places(s, x) ==
  [p \in IF s = "openai" THEN DOMAIN x \ {"failed"} ELSE DOMAIN x |-> x[p]]

RequestsDef ==
  {[surface |-> "openai", body |-> OpenAIBody(x), asks |-> Places("openai", x)] : x \in Asks}
  \cup {[surface |-> "anthropic", body |-> AnthropicBody(x), asks |-> x] : x \in Asks}

UncommittedDef ==
  [openai |-> {"toolMedia", "strict", "rest", "stream"},
   anthropic |-> {"strict", "rest", "stream"}]

HostsDef == [openai |-> Model(2), anthropic |-> Model(3)]

(* Answers; their content is the same in both wire formats.                *)
Tokens(i, c, r, o) ==
  [input_tokens |-> i, cache_creation_tokens |-> c, cache_read_tokens |-> r,
   output_tokens |-> o]

Choice(content, stop) ==
  [content |-> content, tool_calls |-> <<>>, stop |-> stop]

AnswersDef ==
  { [model |-> Model(5), choices |-> <<Choice(Arr(<<Part(<<a>>), Image(image1)>>), "stop")>>,
     usage |-> Tokens(1, 2, 3, 7), id |-> Model(2), tier |-> "std", geo |-> nil,
     peer |-> "cert", header |-> Model(1)],
    [model |-> Model(1), choices |-> <<Choice(Arr(<<Part(<<b>>)>>), "refusal")>>,
     usage |-> Tokens(1, 0, 0, 1), id |-> nil, tier |-> nil, geo |-> "eu",
     peer |-> "cert", header |-> Model(4)],
    [model |-> nil, choices |-> <<Choice(Arr(<<>>), "content_filter")>>,
     usage |-> Tokens(0, 0, 0, 9), id |-> nil, tier |-> nil, geo |-> nil,
     peer |-> nil, header |-> nil] }
=============================================================================
