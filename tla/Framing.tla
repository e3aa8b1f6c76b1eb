------------------------------ MODULE Framing ------------------------------
(***************************************************************************)
(* How a provider frames an answer as the events of a stream, in the words *)
(* of provider-apis.md: blocks by index, texts and inputs in pieces to be  *)
(* concatenated per index, cumulative usage, and a stop reason.  It is     *)
(* what the accumulators may rely on, and says nothing of how they work.   *)
(***************************************************************************)
EXTENDS Integers, Sequences, FiniteSets

CONSTANT Nil    \* an Option that is not there

PlacesOf(events, type) == {p \in DOMAIN events : events[p].type = type}

Rank(places, p) == Cardinality({q \in places : q <= p})

(* `whole` is `head`, and then the pieces in the order of their places.    *)
Joins(whole, head, pieces) ==
  LET places == DOMAIN pieces
  IN  /\ \E n \in 0 .. Len(whole) : head = SubSeq(whole, 1, n)
      /\ Len(whole) = Len(head) + Cardinality(places)
      /\ \A p \in places : whole[Len(head) + Rank(places, p)] = pieces[p]

Pieces(events, places) == [p \in places |-> events[p].piece]

(* A count that is reported now and then, each time anew and never less    *)
(* than what it comes to.                                                  *)
ComesTo(reports, total) ==
  /\ \A p \in DOMAIN reports : reports[p] <= total
  /\ \A p \in DOMAIN reports :
       (\A q \in DOMAIN reports : q <= p) => reports[p] = total
  /\ DOMAIN reports = {} => total = 0

-----------------------------------------------------------------------------
(* Anthropic: a block is started, then grown, under the index it has in    *)
(* the answer; blocks are started in their order.                          *)
Deltas(events, i) ==
  {p \in PlacesOf(events, "content_block_delta") : events[p].index = i}

DeltasOf(events, i, kind) == {p \in Deltas(events, i) : events[p].kind = kind}

FramesBlock(events, p, block) ==
  LET e == events[p]
  IN  /\ e.kind = block.kind /\ e.name = block.name
      /\ \A q \in Deltas(events, e.index) : p < q
      /\ e.kind = "text" =>
           Joins(block.body, e.body,
                 Pieces(events, DeltasOf(events, e.index, "text_delta")))
      /\ e.kind = "tool_use" =>
           Joins(block.body, <<>>,
                 Pieces(events, DeltasOf(events, e.index, "input_json_delta")))
      /\ e.kind = "opaque" /\ Deltas(events, e.index) = {} =>
           block.body = e.body

UsageReports(events, f) ==
  LET places == {p \in PlacesOf(events, "message_start")
                         \cup PlacesOf(events, "message_delta") :
                   f \in DOMAIN events[p].usage}
  IN  [p \in places |-> events[p].usage[f]]

AnthropicFrames(events, answer) ==
  LET begins == PlacesOf(events, "message_start")
      stops  == PlacesOf(events, "message_delta")
      starts == PlacesOf(events, "content_block_start")
  IN  /\ begins # {} /\ \A p \in begins : events[p].model = answer.model
      /\ stops # {} /\ \A p \in stops : events[p].stop = answer.stop
      /\ \A f \in DOMAIN answer.usage :
           ComesTo(UsageReports(events, f), answer.usage[f])
      /\ \A p \in starts : events[p].index \in Nat
      /\ {events[p].index + 1 : p \in starts} = DOMAIN answer.content
      /\ \A p, q \in starts : p < q <=> events[p].index < events[q].index
      /\ \A p \in starts :
           FramesBlock(events, p, answer.content[events[p].index + 1])

-----------------------------------------------------------------------------
(* OpenAI: the text, where the answer has one, is its first block whenever *)
(* the pieces come; calls follow by index, whatever the order in which     *)
(* they are first seen.                                                    *)
HasText(answer) == answer.content # <<>> /\ answer.content[1].kind = "text"

PartsOf(events, i) ==
  {p \in PlacesOf(events, "tool_call") : events[p].index = i}

NamesOf(events, i) == {p \in PartsOf(events, i) : events[p].name # <<>>}
InputsOf(events, i) == {p \in PartsOf(events, i) : events[p].piece # Nil}
NamePieces(events, i) == [p \in NamesOf(events, i) |-> events[p].name[1]]

FramesCall(events, i, call) ==
  /\ call.kind = "tool_use"
  /\ \A p \in NamesOf(events, i) : events[p].name = <<events[p].name[1]>>
  /\ Joins(call.name, <<>>, NamePieces(events, i))
  /\ Joins(call.body, <<>>, Pieces(events, InputsOf(events, i)))

OpenAIFrames(events, answer) ==
  LET texts    == PlacesOf(events, "text")
      calls    == PlacesOf(events, "tool_call")
      finishes == PlacesOf(events, "finish")
      usages   == PlacesOf(events, "usage")
      ahead    == IF HasText(answer) THEN 1 ELSE 0
  IN  /\ \A p \in texts \cup calls \cup finishes \cup usages :
           events[p].model = answer.model
      /\ finishes # {} /\ \A p \in finishes : events[p].stop = answer.stop
      /\ usages # {} /\ \A p \in usages : events[p].usage = answer.usage
      /\ texts # {} => HasText(answer)
      /\ HasText(answer) =>
           /\ answer.content[1].name = <<>>
           /\ Joins(answer.content[1].body, <<>>, Pieces(events, texts))
      /\ \A p \in calls : events[p].index \in Nat
      /\ {events[p].index + ahead + 1 : p \in calls}
            = ahead + 1 .. Len(answer.content)
      /\ \A p \in calls :
           FramesCall(events, events[p].index,
                      answer.content[events[p].index + ahead + 1])

Frames(surface, events, answer) ==
  IF surface = "anthropic" THEN AnthropicFrames(events, answer)
  ELSE OpenAIFrames(events, answer)
=============================================================================
