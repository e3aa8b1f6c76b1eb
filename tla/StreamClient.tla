---------------------------- MODULE StreamClient ----------------------------
(***************************************************************************)
(* A streamed answer on both its ways: into the accumulator whose result   *)
(* the receipt commits to, and through the gateway to the SDK, whose       *)
(* parseSSE (client.ts) takes the same bytes apart by rules of its own.    *)
(*                                                                         *)
(* The gateway's loop hands each chunk on when the accumulator has had it. *)
(* Between gateway and client the bytes are cut anew.  A decoder that is   *)
(* told that more will come keeps half a character for later, so unlike in *)
(* the gateway no cut does harm.                                           *)
(***************************************************************************)
EXTENDS StreamAccumulator

(* A provider that says [DONE] says it last: the client goes away at it,   *)
(* the accumulator would go on.                                            *)
ASSUME DoneIsLast ==
  \A s \in Streams : \A i \in DOMAIN s.events :
    s.events[i].type = "done" => i = Len(s.events)

VARIABLES
  pending,   \* the chunk the gateway's loop is at
  pipe,      \* bytes on their way to the client
  inbox,     \* parseSSE's buffer
  yielded,   \* the events it has yielded
  returned   \* it has returned

clientVars == <<pending, pipe, inbox, yielded, returned>>
allVars == <<vars, clientVars>>

ClientInit ==
  /\ Init
  /\ pending = <<>> /\ pipe = <<>> /\ inbox = <<>> /\ yielded = <<>>
  /\ returned = FALSE

-----------------------------------------------------------------------------
(* The gateway.                                                            *)
FeedChunk(n) ==
  /\ pending = <<>>
  /\ Feed(n)
  /\ pending' = SubSeq(wire, 1, n)
  /\ UNCHANGED <<pipe, inbox, yielded, returned>>

HandleBlock == Handle /\ UNCHANGED clientVars

Relay ==
  /\ pending # <<>> /\ Cuts = {}
  /\ pipe' = pipe \o pending
  /\ pending' = <<>>
  /\ UNCHANGED <<vars, inbox, yielded, returned>>

(* A transport error is not passed on: the body ends as if it were whole.  *)
Finish == pending = <<>> /\ (End \/ Break) /\ UNCHANGED clientVars

-----------------------------------------------------------------------------
(* The client.                                                             *)
SeparatorsAtNewlines ==                                    \* mutant
  {i \in 1 .. Len(inbox) : inbox[i] = NL}

(* Where a blank line ends; \r\n\r\n is no blank line to it.               *)
Separators == {i \in 2 .. Len(inbox) : inbox[i - 1] = NL /\ inbox[i] = NL}

ReadAnew(n) ==                                             \* mutant
  /\ ~returned /\ Separators = {} /\ n \in 1 .. Len(pipe)
  /\ inbox' = SubSeq(pipe, 1, n)
  /\ pipe' = SubSeq(pipe, n + 1, Len(pipe))
  /\ UNCHANGED <<vars, pending, yielded, returned>>

Read(n) ==
  /\ ~returned /\ Separators = {} /\ n \in 1 .. Len(pipe)
  /\ inbox' = inbox \o SubSeq(pipe, 1, n)
  /\ pipe' = SubSeq(pipe, n + 1, Len(pipe))
  /\ UNCHANGED <<vars, pending, yielded, returned>>

(* One event: [DONE] ends the iteration, all other data is yielded.        *)
Yield ==
  /\ ~returned /\ Separators # {}
  /\ LET at == CHOOSE i \in Separators : \A j \in Separators : i <= j
     IN  /\ inbox' = SubSeq(inbox, at + 1, Len(inbox))
         /\ IF inbox[1] = NL THEN UNCHANGED <<yielded, returned>>
            ELSE IF inbox[1].event.type = "done"
            THEN returned' = TRUE /\ UNCHANGED yielded
            ELSE yielded' = Append(yielded, inbox[1].event) /\ UNCHANGED returned
  /\ UNCHANGED <<vars, pending, pipe>>

(* The body is over; what is left in the buffer is dropped.                *)
Close ==
  /\ ~returned /\ Separators = {} /\ pipe = <<>> /\ committed # Nil
  /\ returned' = TRUE
  /\ UNCHANGED <<vars, pending, pipe, inbox, yielded>>

ClientNext ==
  \/ \E n \in 1 .. Len(wire) : FeedChunk(n)
  \/ HandleBlock \/ Relay \/ Finish
  \/ \E n \in 1 .. Len(pipe) : Read(n)
  \/ Yield \/ Close

ClientSpec == ClientInit /\ [][ClientNext]_allVars

-----------------------------------------------------------------------------
(* The state's types.                                                      *)
ClientTypeOK ==
  /\ TypeOK
  /\ Len(yielded) <= Len(stream.events)
  /\ \A i \in DOMAIN yielded : yielded[i] = stream.events[i]
  /\ Len(pending) + Len(pipe) + Len(inbox) <= 4 * Len(stream.events)
  /\ returned \in BOOLEAN

(* What a client has seen is in the receipt, wherever the stream breaks:   *)
(* no event reaches its iterator that the accumulator has not handled.     *)
SeenIsHandled == Len(yielded) <= handled

(* When both are done, the client's events put together are the response   *)
(* that was committed to.  Two exceptions: a character was cut on its way  *)
(* into the gateway (ChunksDoNotMatter), and an OpenAI stream that broke   *)
(* within a blank line, whose last event the accumulator had from the      *)
(* first newline and the client never gets.                                *)
Blank ==
  [model |-> Nil, text |-> <<>>, blocks |-> <<>>, stop |-> Nil,
   usage |-> IF stream.surface = "anthropic" THEN NoUsage
             ELSE [prompt |-> 0, completion |-> 0, cached |-> 0]]

Replay ==
  LET after[n \in 0 .. Len(yielded)] ==
        IF n = 0 THEN Blank ELSE Apply(after[n - 1], yielded[n])
  IN  after[Len(yielded)]

BrokeInBlankLine == stream.surface = "openai" /\ Received % 4 = 3

ClientAgrees ==
  committed # Nil /\ returned /\ ~cut =>
    IF BrokeInBlankLine
    THEN acc = Apply(Replay, stream.events[handled])
    ELSE acc = Replay
=============================================================================
