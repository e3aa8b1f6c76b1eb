-------------------------- MODULE StreamAccumulator --------------------------
(***************************************************************************)
(* How a streamed answer becomes the canonical response a receipt commits  *)
(* to: the StreamAccumulators of providers/anthropic.rs and openai.rs, fed *)
(* by the loops of the two streaming responses in server.rs.               *)
(*                                                                         *)
(* The stream is cut into chunks anywhere.  Bytes are abstracted to what a *)
(* cut can tell apart: an event's line is two halves and a blank line ends *)
(* it.  In a wide event the middle of the line is the middle of a          *)
(* character of several bytes, which from_utf8_lossy, applied to each      *)
(* chunk by itself, cannot put together again.                             *)
(***************************************************************************)
EXTENDS Framing, SequencesExt

CONSTANTS
  Streams,    \* [surface, events, response]: what a provider may send, and
              \* the response it would have given in one piece, if any
  Json,       \* the sequences of pieces that put together are JSON
  Fallback,   \* model_hint: the model of the request
  Damaged,    \* a piece of text with a replacement character in it
  NL          \* a newline

(* Usage comes in counters, the ones of Anthropic each by itself.          *)
Counters(surface) ==
  IF surface = "anthropic" THEN {"input", "creation", "read", "output"}
  ELSE {"prompt", "completion", "cached"}

IsReport(surface, usage) ==
  /\ DOMAIN usage \subseteq Counters(surface)
  /\ surface = "openai" => DOMAIN usage = Counters(surface)
  /\ usage \in [DOMAIN usage -> Nat]

ASSUME StreamAssumption ==
  \A s \in Streams :
    /\ s.surface \in {"anthropic", "openai"}
    /\ s.events \in Seq(Range(s.events))
    /\ \A i \in DOMAIN s.events :
         /\ "type" \in DOMAIN s.events[i]
         /\ s.events[i].type \in {"message_start", "message_delta", "usage"} =>
              /\ "usage" \in DOMAIN s.events[i]
              /\ IsReport(s.surface, s.events[i].usage)
         /\ \A n \in 1 .. 2, w \in BOOLEAN :
              [event |-> s.events[i], half |-> n, whole |-> w] # NL

(* The answer a stream frames, if it frames one.  A tool's input is one    *)
(* JSON object, and no object begins with another.  What Anthropic sends   *)
(* as one is one; OpenAI sends a text that need not parse.                 *)
IsBlock(block) ==
  /\ block = [kind |-> block.kind, name |-> block.name, body |-> block.body]
  /\ block.kind \in {"text", "tool_use", "opaque"}
  /\ block.name \in Seq(Range(block.name)) /\ block.body \in Seq(Range(block.body))
  /\ block.kind = "tool_use" =>
       \A n \in 1 .. Len(block.body) - 1 : SubSeq(block.body, 1, n) \notin Json

ASSUME AnswersAreFramed ==
  \A s \in Streams :
    s.response # Nil =>
      /\ s.response.model # Nil /\ s.response.stop # Nil
      /\ s.response.content \in Seq(Range(s.response.content))
      /\ \A i \in DOMAIN s.response.content : IsBlock(s.response.content[i])
      /\ s.surface = "anthropic" =>
           \A i \in DOMAIN s.response.content :
             s.response.content[i].kind = "tool_use" =>
               s.response.content[i].body \in {<<>>} \cup Json
      /\ s.response.usage \in [Counters(s.surface) -> Nat]
      /\ Frames(s.surface, s.events, s.response)

VARIABLES
  stream,     \* the stream being received
  wire,       \* what is still to come of it
  buffer,     \* StreamAccumulator.buffer
  acc,        \* the rest of the accumulator
  handled,    \* history: how many blocks of lines were handled
  cut,        \* history: a character was cut
  committed   \* what the receipt commits to, Nil while the loop runs

vars == <<stream, wire, buffer, acc, handled, cut, committed>>

-----------------------------------------------------------------------------
(* The wire.  `whole` says of a half that it has not been parted from the  *)
(* other in the middle of a character.                                     *)
Half(event, n) == [event |-> event, half |-> n, whole |-> TRUE]
Line(event) == <<Half(event, 1), Half(event, 2), NL, NL>>
Wire(events) ==
  [p \in 1 .. 4 * Len(events) |->
     Line(events[((p - 1) \div 4) + 1])[((p - 1) % 4) + 1]]

(* from_utf8_lossy of one chunk.                                           *)
Parted(chunk, i) ==
  /\ chunk[i] # NL /\ chunk[i].event.wide
  /\ IF chunk[i].half = 1 THEN i = Len(chunk) ELSE i = 1

Lossy(chunk) ==
  [i \in DOMAIN chunk |-> IF Parted(chunk, i)
                          THEN [chunk[i] EXCEPT !.whole = FALSE] ELSE chunk[i]]

(* Where feed() cuts the buffer: at a blank line, or at any newline.       *)
Cuts ==
  IF stream.surface = "anthropic"
  THEN {i \in 2 .. Len(buffer) : buffer[i] = NL /\ buffer[i - 1] = NL}
  ELSE {i \in 1 .. Len(buffer) : buffer[i] = NL}

FirstCut == CHOOSE i \in Cuts : \A j \in Cuts : i <= j

(* The JSON a block of lines carries, damaged text and all.                *)
EventOf(block) ==
  IF \A i \in DOMAIN block : block[i] = NL \/ block[i].whole
  THEN block[1].event
  ELSE [block[1].event EXCEPT !.piece = Damaged]

-----------------------------------------------------------------------------
(* Anthropic.  An accumulated block is [kind, name, body], the last two in *)
(* the pieces they came in; `blocks` is Vec<Option<AccBlock>> as a         *)
(* function on the indices that hold one.                                  *)
NoUsage == [input |-> 0, creation |-> 0, read |-> 0, output |-> 0]

SummedUsage(usage, reported) ==                            \* mutant
  [f \in DOMAIN usage |-> IF f \in DOMAIN reported THEN usage[f] + reported[f]
                          ELSE usage[f]]

(* merge_from: a field that is reported replaces, the others stay.         *)
MergeUsage(usage, reported) ==
  [f \in DOMAIN usage |-> IF f \in DOMAIN reported THEN reported[f]
                          ELSE usage[f]]

(* from_start: the input a tool call may already have is not looked at.    *)
AccBlock(e) ==
  [kind |-> e.kind, name |-> e.name,
   body |-> IF e.kind = "tool_use" THEN <<>> ELSE e.body]

(* apply_delta: only text and tool input grow.  What else there is of a    *)
(* block (kind "opaque": thinking, say) is in its first event or nowhere.  *)
ApplyDelta(block, e) ==
  IF \/ block.kind = "text" /\ e.kind = "text_delta"
     \/ block.kind = "tool_use" /\ e.kind = "input_json_delta"
  THEN [block EXCEPT !.body = Append(@, e.piece)]
  ELSE block

ApplyEvent(a, e) ==
  CASE e.type = "message_start" ->
         [a EXCEPT !.model = e.model, !.usage = MergeUsage(@, e.usage)]
    [] e.type = "content_block_start" ->
         [a EXCEPT !.blocks = [i \in DOMAIN @ \cup {e.index} |->
                                 IF i = e.index THEN AccBlock(e) ELSE @[i]]]
    [] e.type = "content_block_delta" ->
         [a EXCEPT !.blocks = [i \in DOMAIN @ |->
                                 IF i = e.index THEN ApplyDelta(@[i], e) ELSE @[i]]]
    [] e.type = "message_delta" ->
         [a EXCEPT !.stop = e.stop, !.usage = MergeUsage(@, e.usage)]
    [] OTHER -> a

(* OpenAI.  A chunk's choice has text, or a part of a tool call, or a      *)
(* finish reason, or there is none and the chunk has the usage.            *)
GrowCall(calls, e) ==
  LET old == IF e.index \in DOMAIN calls THEN calls[e.index]
             ELSE [kind |-> "tool_use", name |-> <<>>, body |-> <<>>]
      new == [old EXCEPT !.name = @ \o e.name,
                         !.body = IF e.piece = Nil THEN @ ELSE Append(@, e.piece)]
  IN  [i \in DOMAIN calls \cup {e.index} |-> IF i = e.index THEN new ELSE calls[i]]

ApplyChunk(a, e) ==
  CASE e.type = "text" ->
         [a EXCEPT !.model = e.model, !.text = Append(@, e.piece)]
    [] e.type = "tool_call" ->
         [a EXCEPT !.model = e.model, !.blocks = GrowCall(@, e)]
    [] e.type = "finish" ->
         [a EXCEPT !.model = e.model, !.stop = e.stop]
    [] e.type = "usage" ->
         [a EXCEPT !.model = e.model, !.usage = e.usage]
    [] OTHER -> a

Apply(a, e) ==
  IF stream.surface = "anthropic" THEN ApplyEvent(a, e) ELSE ApplyChunk(a, e)

-----------------------------------------------------------------------------
(* Canonical usage.  OpenAI counts cached tokens among the prompt's: they  *)
(* are taken out again, by a subtraction that stops at zero.               *)
UsageWrapping(surface, u) ==                               \* mutant
  IF surface = "anthropic" THEN u
  ELSE [input |-> u.prompt - u.cached, creation |-> 0, read |-> u.cached,
        output |-> u.completion]

CanonicalUsage(surface, u) ==
  IF surface = "anthropic" THEN u
  ELSE [input |-> IF u.cached > u.prompt THEN 0 ELSE u.prompt - u.cached,
        creation |-> 0, read |-> u.cached, output |-> u.completion]

(* A tool's input is parsed when all of it should be there: nothing is     *)
(* taken for {}, and what does not parse for null by one accumulator and   *)
(* for a string by the other.  The head of the result says which it is.    *)
ToolInput(surface, pieces) ==
  CASE pieces = <<>> -> <<"{}">>
    [] pieces # <<>> /\ pieces \in Json -> <<"json">> \o pieces
    [] pieces # <<>> /\ pieces \notin Json /\ surface = "anthropic" -> <<"null">>
    [] OTHER -> <<"string">> \o pieces

IntoCanonical(surface, block) ==
  IF block.kind = "tool_use"
  THEN [block EXCEPT !.body = ToolInput(surface, @)] ELSE block

(* BTreeMap's order, and that of the vector: by index.                     *)
InOrder(blocks) ==
  LET indices == DOMAIN blocks
  IN  [n \in 1 .. Cardinality(indices) |->
         blocks[CHOOSE i \in indices : Rank(indices, i) = n]]

TextBlock(pieces) ==
  IF pieces = <<>> THEN <<>>
  ELSE << [kind |-> "text", name |-> <<>>, body |-> pieces] >>

Canonical(surface, blocks) ==
  [i \in DOMAIN blocks |-> IntoCanonical(surface, blocks[i])]

RefusalStop(surface) ==
  IF surface = "anthropic" THEN "refusal" ELSE "content_filter"

Outcome(surface, stop) == IF stop = RefusalStop(surface) THEN "refusal" ELSE "ok"

(* finish.  An empty stop reason is one that never came.                   *)
Assembled ==
  [model |-> IF acc.model = Nil THEN Fallback ELSE acc.model,
   content |-> Canonical(stream.surface, TextBlock(acc.text) \o InOrder(acc.blocks)),
   stop |-> IF acc.stop = Nil THEN "" ELSE acc.stop,
   usage |-> CanonicalUsage(stream.surface, acc.usage)]

(* to_canonical_response, of an answer that came in one piece: Anthropic's *)
(* tool input is taken as it is, an OpenAI text is a block even if there   *)
(* is nothing in it, and the descriptor of an opaque block commits to all  *)
(* of it.                                                                  *)
WholeInput(surface, body) ==
  CASE surface = "openai" -> ToolInput(surface, body)
    [] surface # "openai" /\ body = <<>> -> <<"{}">>
    [] OTHER -> <<"json">> \o body

Whole ==
  [model |-> stream.response.model,
   content |-> [i \in DOMAIN stream.response.content |->
                  LET block == stream.response.content[i]
                  IN  IF block.kind = "tool_use"
                      THEN [block EXCEPT !.body = WholeInput(stream.surface, @)]
                      ELSE block],
   stop |-> stream.response.stop,
   usage |-> CanonicalUsage(stream.surface, stream.response.usage)]

-----------------------------------------------------------------------------
Init ==
  /\ stream \in Streams
  /\ wire = Wire(stream.events)
  /\ buffer = <<>>
  /\ acc = [model |-> Nil, text |-> <<>>, blocks |-> <<>>, stop |-> Nil,
            usage |-> IF stream.surface = "anthropic" THEN NoUsage
                      ELSE [prompt |-> 0, completion |-> 0, cached |-> 0]]
  /\ handled = 0
  /\ cut = FALSE
  /\ committed = Nil

Running == committed = Nil /\ Cuts = {}

FeedAnew(n) ==                                             \* mutant
  /\ Running /\ n \in 1 .. Len(wire)
  /\ LET chunk == SubSeq(wire, 1, n) IN
       /\ buffer' = Lossy(chunk)
       /\ cut' = (cut \/ \E i \in DOMAIN chunk : Parted(chunk, i))
  /\ wire' = SubSeq(wire, n + 1, Len(wire))
  /\ UNCHANGED <<stream, acc, handled, committed>>

(* A chunk of any size is added to what is left of the one before.         *)
Feed(n) ==
  /\ Running /\ n \in 1 .. Len(wire)
  /\ LET chunk == SubSeq(wire, 1, n) IN
       /\ buffer' = buffer \o Lossy(chunk)
       /\ cut' = (cut \/ \E i \in DOMAIN chunk : Parted(chunk, i))
  /\ wire' = SubSeq(wire, n + 1, Len(wire))
  /\ UNCHANGED <<stream, acc, handled, committed>>

HandleRest ==                                              \* mutant
  /\ committed = Nil /\ Cuts # {}
  /\ LET block == SubSeq(buffer, 1, FirstCut)
     IN  IF block[1] = NL THEN UNCHANGED <<acc, handled>>
         ELSE acc' = Apply(acc, EventOf(block)) /\ handled' = handled + 1
  /\ buffer' = <<>>
  /\ UNCHANGED <<stream, wire, cut, committed>>

(* One round of feed()'s loop: take the first block of lines off the       *)
(* buffer and handle it.  An empty line, the second of a blank one, has no *)
(* data.                                                                   *)
Handle ==
  /\ committed = Nil /\ Cuts # {}
  /\ LET block == SubSeq(buffer, 1, FirstCut)
     IN  IF block[1] = NL THEN UNCHANGED <<acc, handled>>
         ELSE acc' = Apply(acc, EventOf(block)) /\ handled' = handled + 1
  /\ buffer' = SubSeq(buffer, FirstCut + 1, Len(buffer))
  /\ UNCHANGED <<stream, wire, cut, committed>>

Commit(outcome) ==
  /\ committed' = [response |-> Assembled, outcome |-> outcome]
  /\ UNCHANGED <<stream, wire, buffer, acc, handled, cut>>

(* The loop ends: with the stream, or with a transport error anywhere.     *)
End == Running /\ wire = <<>> /\ Commit(Outcome(stream.surface, Assembled.stop))
Break == Running /\ Commit("upstream_error")

Next == (\E n \in 1 .. Len(wire) : Feed(n)) \/ Handle \/ End \/ Break

Spec == Init /\ [][Next]_vars

-----------------------------------------------------------------------------
(* The state's types; in particular no counter of tokens wraps around.     *)
TypeOK ==
  /\ stream \in Streams
  /\ wire \in Seq({NL} \cup {Half(stream.events[i], n) :
                                 i \in DOMAIN stream.events, n \in 1 .. 2})
  /\ handled \in 0 .. Len(stream.events)
  /\ cut \in BOOLEAN
  /\ acc.usage \in [DOMAIN acc.usage -> Nat]
  /\ committed # Nil =>
       /\ committed.outcome \in {"ok", "refusal", "upstream_error"}
       /\ committed.response.usage \in [DOMAIN NoUsage -> Nat]

(* However the stream was cut, between two chunks every event that has     *)
(* arrived in full has been handled, once, and the buffer holds what has   *)
(* arrived of the next one.  An OpenAI event is there with its first       *)
(* newline.                                                                *)
Received == 4 * Len(stream.events) - Len(wire)

BufferHoldsPartial ==
  Cuts = {} =>
    IF stream.surface = "anthropic"
    THEN handled = Received \div 4 /\ Len(buffer) = Received % 4
    ELSE /\ handled = (Received + 1) \div 4
         /\ Len(buffer) = IF Received % 4 = 3 THEN 0 ELSE Received % 4

(* A stream that was received to its end commits to what the same answer   *)
(* would have come to in one piece, as the tests say of an example.  There *)
(* are three exceptions: a character was cut (ChunksDoNotMatter), a part   *)
(* of an opaque block came in deltas, which are dropped, or an OpenAI      *)
(* answer has a text with nothing in it, of which no block is made.        *)
Complete == committed # Nil /\ wire = <<>> /\ stream.response # Nil

DroppedDelta ==
  \E i, j \in DOMAIN stream.events :
    /\ stream.events[i].type = "content_block_start"
    /\ stream.events[i].kind = "opaque"
    /\ stream.events[j].type = "content_block_delta"
    /\ stream.events[i].index = stream.events[j].index

Forget(response) == [response EXCEPT !.content =
  [i \in DOMAIN @ |-> IF @[i].kind = "opaque" THEN [@[i] EXCEPT !.body = <<>>] ELSE @[i]]]

SilentText ==
  /\ stream.surface = "openai" /\ HasText(stream.response)
  /\ stream.response.content[1].body = <<>>

Expected == IF SilentText THEN [Whole EXCEPT !.content = Tail(@)] ELSE Whole

CompleteStreamIsWhole ==
  Complete /\ ~cut =>
    IF DroppedDelta THEN Forget(committed.response) = Forget(Expected)
    ELSE committed.response = Expected

(* Wherever it breaks off, what has been assembled is a part of the answer *)
(* and nothing else: some of its blocks in their order, of Anthropic's the *)
(* first ones, the text cut short, a tool's input all there or none of it  *)
(* or visibly broken, no counter above its final value, no stop reason but *)
(* the answer's.                                                           *)
PartOf(surface, block, full) ==
  /\ block.kind = full.kind
  /\ IsPrefix(block.name, full.name)
  /\ CASE block.kind = "text"     -> IsPrefix(block.body, full.body)
       [] block.kind = "tool_use" ->
            \/ block.body \in {full.body, <<"{}">>}
            \/ surface = "anthropic" /\ block.body = <<"null">>
            \/ /\ surface = "openai" /\ Head(block.body) = "string"
               /\ IsPrefix(Tail(block.body), Tail(full.body))
       [] OTHER -> TRUE

Ascending(f) == \A i, j \in DOMAIN f : i < j => f[i] < f[j]

PartialIsPrefix ==
  stream.response # Nil /\ ~cut =>
    LET content == Assembled.content
    IN  /\ Assembled.model \in {Fallback, Whole.model}
        /\ Assembled.stop \in {"", Whole.stop}
        /\ \E f \in [DOMAIN content -> DOMAIN Whole.content] :
             /\ Ascending(f)
             /\ stream.surface = "anthropic" => \A i \in DOMAIN f : f[i] = i
             /\ \A i \in DOMAIN content :
                  PartOf(stream.surface, content[i], Whole.content[f[i]])
        /\ \A f \in DOMAIN NoUsage : Assembled.usage[f] <= Whole.usage[f]

-----------------------------------------------------------------------------
(* What the documentation says, and the code does not keep to:             *)
(* provider-apis.md has the response hash not depend on how the provider   *)
(* framed its answer.                                                      *)
ChunksDoNotMatter ==
  Complete /\ ~DroppedDelta /\ ~SilentText => committed.response = Whole
=============================================================================
