--------------------------- MODULE CanonicalForm ---------------------------
(***************************************************************************)
(* What of a request and of an answer the receipts commit to: the one      *)
(* schema of canonical.rs and the way the two adapters map their wire      *)
(* formats into it.                                                        *)
(*                                                                         *)
(* A JSON body is a record of the members the code looks at, and `rest`    *)
(* for all others; a member that is missing is Nil.  A text is a sequence  *)
(* of lines, so that joining texts with "\n" is putting the sequences      *)
(* together.  A hash and a blob id stand for what was hashed: they are     *)
(* taken to be injective, canonical JSON included.                         *)
(***************************************************************************)
EXTENDS Naturals, Sequences, SequencesExt

CONSTANTS Nil, EmptyLine

Sha256(value) == [sha256 |-> value]
BlobId(value) == [blob |-> value]

EmptyText == <<EmptyLine>>
JsonText(value) == << [json |-> value] >>      \* to_string(): on one line
Join(texts) == IF texts = <<>> THEN EmptyText ELSE FlattenSeq(texts)

Text(text) == [type |-> "text", text |-> text]
ToolUse(id, name, input) ==
  [type |-> "tool_use", id |-> id, name |-> name, input |-> input]
ToolResult(id, content, isError) ==
  [type |-> "tool_result", tool_use_id |-> id, content |-> content,
   is_error |-> isError]

(* A block that is not modelled is committed to by the hash of its JSON.   *)
Opaque(block) ==
  [type |-> "opaque", kind |-> block.type, descriptor |-> Sha256(block)]

Map(f(_), s) == [i \in DOMAIN s |-> f(s[i])]
OrElse(value, default) == IF value = Nil THEN default ELSE value

-----------------------------------------------------------------------------
(* OpenAI.  A content is a string, an array of parts, null, or any other   *)
(* JSON value.                                                             *)
PartToCanonicalTextOnly(part) ==                           \* mutant
  IF part.type = "text" THEN Text(OrElse(part.text, EmptyText))
  ELSE [type |-> "opaque", kind |-> part.type, descriptor |-> Nil]

PartToCanonical(part) ==
  IF part.type = "text" THEN Text(OrElse(part.text, EmptyText)) ELSE Opaque(part)

StringifyContent(content) ==
  CASE content.json = "string" -> <<Text(content.value)>>
    [] content.json = "array"  -> Map(PartToCanonical, content.value)
    [] content.json = "null"   -> <<>>
    [] OTHER                   -> <<Text(JsonText(content))>>

(* The arguments of a call are JSON in a string.  Nothing is an empty      *)
(* object; what does not parse is kept as a string.                        *)
CallInput(arguments) ==
  CASE arguments.form = "blank"  -> [json |-> "object", value |-> <<>>]
    [] arguments.form = "parses" -> arguments.value
    [] arguments.form = "broken" -> [json |-> "string", value |-> arguments.text]

ToolCallToBlock(call) ==
  ToolUse(call.id, call.name, CallInput(call.arguments))

OpenAIRole(role) ==
  CASE role \in {"system", "developer"} -> "system"
    [] role \in {"assistant", "tool"}   -> role
    [] OTHER                            -> "user"

(* The content of a tool message becomes one result, of its text alone.    *)
OpenAIMessage(message) ==
  LET role    == OpenAIRole(message.role)
      content == StringifyContent(message.content)
      texts   == SelectSeq(content, LAMBDA block : block.type = "text")
      result  == ToolResult(OrElse(message.tool_call_id, EmptyText),
                            Join(Map(LAMBDA block : block.text, texts)), FALSE)
  IN  [role |-> role,
       content |-> (IF role = "tool" THEN <<result>> ELSE content)
                     \o Map(ToolCallToBlock, message.tool_calls)]

-----------------------------------------------------------------------------
(* Anthropic.  The content of a tool result is text too, but a block that  *)
(* has none is put in as its JSON.                                         *)
HasText(block) == "text" \in DOMAIN block /\ block.text # Nil

ExtractSystemText(system) ==
  CASE system = Nil           -> Nil
    [] system.json = "string" -> system.value
    [] system.json = "array"  ->
         LET texts == SelectSeq(system.value, HasText)
         IN  IF texts = <<>> THEN Nil
             ELSE Join(Map(LAMBDA block : block.text, texts))
    [] OTHER                  -> Nil

StringifyToolResult(content) ==
  CASE content = Nil           -> EmptyText
    [] content.json = "string" -> content.value
    [] content.json = "array"  ->
         Join(Map(LAMBDA block : IF HasText(block) THEN block.text
                                 ELSE JsonText(block), content.value))
    [] OTHER                   -> JsonText(content)

BlockToCanonical(block) ==
  CASE block.type = "text"        -> Text(OrElse(block.text, EmptyText))
    [] block.type = "tool_use"    -> ToolUse(block.id, block.name, block.input)
    [] block.type = "tool_result" ->
         ToolResult(block.tool_use_id, StringifyToolResult(block.content),
                    block.is_error)
    [] OTHER                      -> Opaque(block)

ContentBlocks(content) ==
  CASE content.json = "string" -> <<Text(content.value)>>
    [] content.json = "array"  -> Map(BlockToCanonical, content.value)
    [] OTHER                   -> <<>>

AnthropicMessage(message) ==
  [role |-> IF message.role \in {"assistant", "system"} THEN message.role
            ELSE "user",
   content |-> ContentBlocks(message.content)]

-----------------------------------------------------------------------------
(* Requests.  OpenAI has no system member of its own.                      *)
ToolDef(tool) ==
  [name |-> tool.name, description |-> tool.description,
   input_schema |-> OrElse(tool.schema, [json |-> "null"])]

ToCanonicalRequest(surface, body) ==
  [model       |-> body.model,
   system      |-> IF surface = "openai" THEN Nil
                   ELSE ExtractSystemText(body.system),
   messages    |-> IF surface = "openai" THEN Map(OpenAIMessage, body.messages)
                   ELSE Map(AnthropicMessage, body.messages),
   tools       |-> Map(ToolDef, OrElse(body.tools, <<>>)),
   tool_choice |-> body.tool_choice,
   max_tokens  |-> body.max_tokens,
   temperature |-> body.temperature]

(* parse_request: `stream` is read beside the canonical form; what is not  *)
(* a boolean counts as false.                                              *)
WantsStream(body) == body.stream = TRUE

(* What goes upstream is the client's own JSON, `stream` set to the call   *)
(* that is made and, for an OpenAI stream, the usage asked for.            *)
Dispatched(surface, body) ==
  [body EXCEPT
     !.stream = WantsStream(body),
     !.stream_options = IF surface = "openai" /\ WantsStream(body)
                        THEN "include_usage" ELSE @]

(* Header names and harmless values; the key is redacted.                  *)
UpstreamHeaders(surface) ==
  IF surface = "openai"
  THEN [authorization |-> "redacted", content_type |-> "json"]
  ELSE [x_api_key |-> "redacted", anthropic_version |-> "2023-06-01",
        content_type |-> "json"]

-----------------------------------------------------------------------------
(* Answers.  Of OpenAI's choices only the first counts.  How usage becomes *)
(* the four counters is in StreamAccumulator.                              *)
ToCanonicalResponse(surface, answer) ==
  LET choice  == IF answer.choices = <<>>
                 THEN [content |-> [json |-> "null"], tool_calls |-> <<>>,
                       stop |-> Nil]
                 ELSE Head(answer.choices)
  IN  [model   |-> answer.model,
       content |-> IF surface = "openai"
                   THEN StringifyContent(choice.content)
                          \o Map(ToolCallToBlock, choice.tool_calls)
                   ELSE Map(BlockToCanonical, choice.content.value),
       stop    |-> OrElse(choice.stop, ""),
       usage   |-> answer.usage]

ProviderMeta(stop, tier, geo) ==
  [stop |-> stop, service_tier |-> tier, inference_geo |-> geo]

DefaultMeta == ProviderMeta("", Nil, Nil)

OutcomeFor(surface, stop) ==
  IF stop = (IF surface = "openai" THEN "content_filter" ELSE "refusal")
  THEN "refusal" ELSE "ok"
=============================================================================
