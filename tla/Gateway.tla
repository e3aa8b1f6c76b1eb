------------------------------ MODULE Gateway ------------------------------
(***************************************************************************)
(* The inference handlers of the enclave (server.rs: chat_completions,     *)
(* messages and the two streaming responses, which differ in the provider  *)
(* only) with the permits of its semaphore, its receipt store and the      *)
(* exchange each call has with its provider.                               *)
(*                                                                         *)
(* A step is what a handler does between two awaits, so nothing but the    *)
(* other handlers can come between two steps, and a handler that is        *)
(* dropped (its client disconnected) is dropped at an await.               *)
(***************************************************************************)
EXTENDS Integers, Sequences, FiniteSets, ReceiptStore

CONSTANTS
  Calls,        \* inference requests; also the random UUIDs drawn for them
  Requests,     \* [surface, stream, nonce, flaws] records, see below
  Nonces,       \* the x-sekisho-nonce values clients choose
  NoNonce,      \* the header is absent
  Limit,        \* concurrency_limit of the boot config
  SignResults,  \* whether ctx.sign can succeed (TRUE) and fail (FALSE)
  MaxBoots      \* bound: boots of the enclave in one behaviour

(* What can be wrong with a request, in the order the code finds out.      *)
Flaws == {"oversized", "unkeyed", "malformed", "badNonce", "denied",
          "unconfigured"}

NoHeader == "no x-receipt-id"

Request ==
  [surface : {"openai", "anthropic"}, stream : BOOLEAN,
   nonce : Nonces \cup {NoNonce}, flaws : SUBSET Flaws]

ASSUME GatewayAssumption ==
  /\ Requests \subseteq Request
  /\ Nonces \cap Calls = {} /\ NoNonce \notin Nonces
  /\ NoHeader \notin Calls \cup Nonces
  /\ Limit \in Nat /\ MaxBoots \in Nat
  /\ SignResults \in (SUBSET BOOLEAN) \ {{}}
  /\ IsFiniteSet(Calls)

VARIABLES
  phase,     \* where each call is
  req,       \* the request it made
  exchange,  \* what has passed between the enclave and the provider for it
  said,      \* what the provider's body says that decides the outcome
  reply,     \* status and x-receipt-id the client has got
  permits,   \* free permits of the semaphore
  entries,   \* the receipt store
  log,       \* history: every receipt signed
  boot       \* number of this boot: each has its own signing key

callVars == <<phase, req, exchange, said, reply>>
receiptVars == <<entries, log>>
vars == <<callVars, permits, receiptVars, boot>>

Phases == {"idle", "arrived", "admitted", "calling", "body", "errorBody",
           "streaming", "replied", "unsigned", "gone", "cut"}
Holding == {"admitted", "calling", "body", "errorBody"}   \* _permit in scope
Awaiting == {"calling", "body", "errorBody", "streaming"}
Over == {"replied", "unsigned", "gone", "cut"}

Exchanges == {"none", "sent", "unanswered", "answered", "declined", "broken",
              "complete"}
Sayings == {"nothing", "stop", "refusal", "error", "garbled", "notJson"}
NoReply == [status |-> 0, header |-> NoHeader]

Init ==
  /\ phase = [c \in Calls |-> "idle"]
  /\ req \in [Calls -> Requests]
  /\ exchange = [c \in Calls |-> "none"]
  /\ said = [c \in Calls |-> "nothing"]
  /\ reply = [c \in Calls |-> NoReply]
  /\ permits = Limit
  /\ entries = <<>>
  /\ log = <<>>
  /\ boot = 1

Turn(c, to) == phase' = [phase EXCEPT ![c] = to]
Tell(c, status, header) ==
  reply' = [reply EXCEPT ![c] = [status |-> status, header |-> header]]

-----------------------------------------------------------------------------
(* Receipts.  resolve_receipt_id: the client's nonce or a fresh UUID.      *)
ReceiptId(c) == IF req[c].nonce = NoNonce THEN c ELSE req[c].nonce

(* CallContext: `met` is with_upstream_meta (headers, TLS peer and, on     *)
(* OpenAI streams, a dispatched body of its own), ~met no_upstream_call.   *)
Receipt(c, met, outcome) ==
  [id |-> ReceiptId(c), call |-> c, boot |-> boot, met |-> met,
   forced |-> met /\ req[c].stream /\ req[c].surface = "openai",
   outcome |-> outcome]

Receipts ==
  [id : Calls \cup Nonces, call : Calls, boot : Nat, met : BOOLEAN,
   forced : BOOLEAN,
   outcome : {"ok", "refusal", "upstream_error", "policy_denied"}]

(* sign_and_store, when ctx.sign succeeds.                                 *)
SignAndStore(receipt) ==
  /\ log' = Append(log, receipt)
  /\ entries' = Insert(entries, receipt)

FinishAnyhow(c, receipt, status) ==                        \* mutant
  /\ \/ TRUE \in SignResults /\ SignAndStore(receipt)
     \/ FALSE \in SignResults /\ UNCHANGED receiptVars
  /\ Tell(c, status, receipt.id)
  /\ Turn(c, "replied")
  /\ permits' = permits + 1

(* finish_error_receipt and finish_non_streaming_ok, and the handler's     *)
(* return, which drops the permit.                                         *)
Finish(c, receipt, status) ==
  /\ \/ TRUE \in SignResults /\ SignAndStore(receipt)
        /\ Tell(c, status, receipt.id)
     \/ FALSE \in SignResults /\ UNCHANGED receiptVars
        /\ Tell(c, 500, NoHeader)
  /\ Turn(c, "replied")
  /\ permits' = permits + 1

Fail(c, met) == Finish(c, Receipt(c, met, "upstream_error"), 502)

(* What StreamAccumulator keeps as the stop reason: an error event in the  *)
(* stream is dropped.  A canonical body's stop reason is what it says.     *)
StopReason(saying) == IF saying = "error" THEN "nothing" ELSE saying

OutcomeFor(stopReason) == IF stopReason = "refusal" THEN "refusal" ELSE "ok"

-----------------------------------------------------------------------------
(* Admission.                                                              *)
Arrive(c) ==
  /\ phase[c] = "idle"
  /\ Turn(c, "arrived")
  /\ UNCHANGED <<req, exchange, said, reply, permits, receiptVars, boot>>

TurnAway(c, status) ==
  /\ Tell(c, status, NoHeader)
  /\ Turn(c, "replied")

AuthenticateUnbounded(c) ==                                \* mutant
  /\ phase[c] = "arrived"
  /\ Turn(c, "admitted")
  /\ permits' = permits - 1
  /\ UNCHANGED <<req, exchange, said, reply, receiptVars, boot>>

(* The body limit, the bearer key, then try_acquire_owned: no queueing.    *)
Authenticate(c) ==
  /\ phase[c] = "arrived"
  /\ \/ /\ "oversized" \in req[c].flaws
        /\ TurnAway(c, 413) /\ UNCHANGED permits
     \/ /\ "oversized" \notin req[c].flaws /\ "unkeyed" \in req[c].flaws
        /\ TurnAway(c, 401) /\ UNCHANGED permits
     \/ /\ {"oversized", "unkeyed"} \cap req[c].flaws = {} /\ permits = 0
        /\ TurnAway(c, 429) /\ UNCHANGED permits
     \/ /\ {"oversized", "unkeyed"} \cap req[c].flaws = {} /\ permits > 0
        /\ Turn(c, "admitted") /\ permits' = permits - 1 /\ UNCHANGED reply
  /\ UNCHANGED <<req, exchange, said, receiptVars, boot>>

(* From the permit to the provider call: parse, nonce, policy, api key.    *)
(* Of these only a policy denial is receipted.                             *)
Screen(c) ==
  /\ phase[c] = "admitted"
  /\ LET flaws == req[c].flaws IN
     \/ /\ {"malformed", "badNonce"} \cap flaws # {}
        /\ TurnAway(c, 400)
        /\ permits' = permits + 1 /\ UNCHANGED receiptVars
     \/ /\ {"malformed", "badNonce"} \cap flaws = {} /\ "denied" \in flaws
        /\ Finish(c, Receipt(c, FALSE, "policy_denied"), 403)
     \/ /\ {"malformed", "badNonce", "denied"} \cap flaws = {}
        /\ "unconfigured" \in flaws
        /\ TurnAway(c, 503)
        /\ permits' = permits + 1 /\ UNCHANGED receiptVars
     \/ /\ {"malformed", "badNonce", "denied", "unconfigured"} \cap flaws = {}
        /\ Turn(c, "calling") /\ UNCHANGED <<reply, permits, receiptVars>>
  /\ UNCHANGED <<req, exchange, said, boot>>

-----------------------------------------------------------------------------
(* The provider call: request.send() is awaited in phase "calling".        *)
ConnectFails(c) ==
  /\ phase[c] = "calling" /\ exchange[c] = "none"
  /\ Fail(c, FALSE)
  /\ UNCHANGED <<req, exchange, said, boot>>

Dispatch(c) ==
  /\ phase[c] = "calling" /\ exchange[c] = "none"
  /\ exchange' = [exchange EXCEPT ![c] = "sent"]
  /\ UNCHANGED <<phase, req, said, reply, permits, receiptVars, boot>>

AnswerLostIgnored(c) ==                                    \* mutant
  /\ phase[c] = "calling" /\ exchange[c] = "sent"
  /\ exchange' = [exchange EXCEPT ![c] = "unanswered"]
  /\ UNCHANGED <<phase, req, said, reply, permits, receiptVars, boot>>

AnswerLost(c) ==
  /\ phase[c] = "calling" /\ exchange[c] = "sent"
  /\ exchange' = [exchange EXCEPT ![c] = "unanswered"]
  /\ Fail(c, FALSE)
  /\ UNCHANGED <<req, said, boot>>

HeadArrivesSigning(c, success) ==                            \* mutant
  /\ phase[c] = "calling" /\ exchange[c] = "sent"
  /\ exchange' = [exchange EXCEPT ![c] = "answered"]
  /\ IF req[c].stream
     THEN /\ Turn(c, "streaming")
          /\ Tell(c, 200, ReceiptId(c))
          /\ SignAndStore(Receipt(c, TRUE, "ok"))
          /\ permits' = permits + 1
     ELSE Turn(c, "body") /\ UNCHANGED <<reply, permits, receiptVars>>
  /\ UNCHANGED <<req, said, boot>>

(* The response head.  A stream's handler returns here, before the first   *)
(* byte of the body, with the receipt id it has yet to sign under: its     *)
(* permit goes with it.                                                    *)
HeadArrives(c, success) ==
  /\ phase[c] = "calling" /\ exchange[c] = "sent"
  /\ exchange' =
       [exchange EXCEPT ![c] = IF success THEN "answered" ELSE "declined"]
  /\ \/ /\ req[c].stream /\ success
        /\ Turn(c, "streaming")
        /\ Tell(c, 200, ReceiptId(c))
        /\ permits' = permits + 1
     \/ /\ req[c].stream /\ ~success
        /\ Turn(c, "errorBody") /\ UNCHANGED <<reply, permits>>
     \/ /\ ~req[c].stream
        /\ Turn(c, "body") /\ UNCHANGED <<reply, permits>>
  /\ UNCHANGED <<req, said, receiptVars, boot>>

(* A whole body.  One that is not JSON is an Err, which forgets the head.  *)
BodyArrives(c, saying) ==
  /\ phase[c] = "body"
  /\ said' = [said EXCEPT ![c] = saying]
  /\ \/ /\ saying = "notJson"
        /\ Fail(c, FALSE)
     \/ /\ saying # "notJson"
        /\ exchange[c] = "declined" \/ saying = "garbled"
        /\ Fail(c, TRUE)
     \/ /\ saying \in {"stop", "refusal"} /\ exchange[c] = "answered"
        /\ Finish(c, Receipt(c, TRUE, OutcomeFor(saying)), 200)
  /\ exchange' = [exchange EXCEPT
       ![c] = IF exchange[c] = "answered" THEN "complete" ELSE "declined"]
  /\ UNCHANGED <<req, boot>>

BodyBreaks(c) ==
  /\ phase[c] = "body"
  /\ exchange' = [exchange EXCEPT ![c] = "broken"]
  /\ Fail(c, FALSE)
  /\ UNCHANGED <<req, said, boot>>

(* text().unwrap_or_default(): a body that breaks counts as an empty one.  *)
ErrorBodyDone(c) ==
  /\ phase[c] = "errorBody"
  /\ Fail(c, TRUE)
  /\ UNCHANGED <<req, exchange, said, boot>>

-----------------------------------------------------------------------------
(* The body of a stream, relayed chunk by chunk.  Only the chunk that says *)
(* how the answer ends is told apart; a provider sends at most one.        *)
Chunk(c, saying) ==
  /\ phase[c] = "streaming" /\ said[c] = "nothing"
  /\ said' = [said EXCEPT ![c] = saying]
  /\ UNCHANGED <<phase, req, exchange, reply, permits, receiptVars, boot>>

(* After the loop: finish, then `let _ = sign_and_store`, whose failure    *)
(* nobody is told of: the client has had its whole answer.                 *)
FinishStream(c, outcome) ==
  /\ \/ TRUE \in SignResults /\ SignAndStore(Receipt(c, TRUE, outcome))
        /\ Turn(c, "replied")
     \/ FALSE \in SignResults /\ UNCHANGED receiptVars
        /\ Turn(c, "unsigned")
  /\ UNCHANGED <<req, said, reply, permits, boot>>

StreamEnds(c) ==
  /\ phase[c] = "streaming"
  /\ exchange' = [exchange EXCEPT ![c] = "complete"]
  /\ FinishStream(c, OutcomeFor(StopReason(said[c])))

StreamBreaksUnnoticed(c) ==                                \* mutant
  /\ phase[c] = "streaming"
  /\ exchange' = [exchange EXCEPT ![c] = "broken"]
  /\ FinishStream(c, OutcomeFor(StopReason(said[c])))

StreamBreaksUnsigned(c) ==                                 \* mutant
  /\ phase[c] = "streaming"
  /\ exchange' = [exchange EXCEPT ![c] = "broken"]
  /\ Turn(c, "replied")
  /\ UNCHANGED <<req, said, reply, permits, receiptVars, boot>>

(* had_transport_error: whatever was accumulated, the outcome is an error. *)
StreamBreaks(c) ==
  /\ phase[c] = "streaming"
  /\ exchange' = [exchange EXCEPT ![c] = "broken"]
  /\ FinishStream(c, "upstream_error")

-----------------------------------------------------------------------------
DisconnectLeaking(c) ==                                    \* mutant
  /\ phase[c] \in Awaiting
  /\ Turn(c, "gone")
  /\ UNCHANGED <<req, exchange, said, reply, permits, receiptVars, boot>>

(* The client leaves: hyper drops the handler's future, with its permit,   *)
(* or the stream's body, with the generator that would have signed.        *)
Disconnect(c) ==
  /\ phase[c] \in Awaiting
  /\ Turn(c, "gone")
  /\ permits' = IF phase[c] \in Holding THEN permits + 1 ELSE permits
  /\ UNCHANGED <<req, exchange, said, reply, receiptVars, boot>>

(* The enclave restarts: nothing is on disk, and the key is a new one.     *)
Reboot ==
  /\ boot < MaxBoots
  /\ boot' = boot + 1
  /\ phase' = [c \in Calls |-> IF phase[c] \in Over \cup {"idle"}
                               THEN phase[c] ELSE "cut"]
  /\ permits' = Limit
  /\ entries' = <<>>
  /\ UNCHANGED <<req, exchange, said, reply, log>>

Handle(c) == Authenticate(c) \/ Screen(c)

Upstream(c) ==
  \/ ConnectFails(c) \/ Dispatch(c) \/ AnswerLost(c)
  \/ \E success \in BOOLEAN : HeadArrives(c, success)
  \/ \E s \in {"stop", "refusal", "garbled", "notJson"} : BodyArrives(c, s)
  \/ BodyBreaks(c) \/ ErrorBodyDone(c)
  \/ \E s \in {"stop", "refusal", "error"} : Chunk(c, s)
  \/ StreamEnds(c) \/ StreamBreaks(c)

Next ==
  \/ \E c \in Calls : Arrive(c) \/ Handle(c) \/ Upstream(c) \/ Disconnect(c)
  \/ Reboot

Spec == Init /\ [][Next]_vars

(* Handlers are tokio tasks that are polled whenever they can go on.  The  *)
(* second assumption is about the world: the code sets no timeout, so that *)
(* every exchange goes on to an answer, an end or a transport error (and a *)
(* stream's client goes on reading it) is the provider's, the client's and *)
(* TCP's doing.                                                            *)
HandlersRun == \A c \in Calls : WF_vars(Handle(c))
ProvidersRespond == \A c \in Calls : WF_vars(Upstream(c))

FairSpec == Spec /\ HandlersRun /\ ProvidersRespond

-----------------------------------------------------------------------------
(* The state's types.                                                      *)
TypeOK ==
  /\ phase \in [Calls -> Phases]
  /\ req \in [Calls -> Requests]
  /\ exchange \in [Calls -> Exchanges]
  /\ said \in [Calls -> Sayings]
  /\ reply \in [Calls -> [status : Nat,
                          header : Calls \cup Nonces \cup {NoHeader}]]
  /\ permits \in Nat
  /\ entries \in Seq(Receipts)
  /\ log \in Seq(Receipts)
  /\ boot \in Nat

(* No permit is lost or made up, whichever way a call ends: answered,      *)
(* refused, broken off by its client at any await, or by a reboot.  A      *)
(* stream relayed to its client holds none.                                *)
PermitAccounting ==
  permits + Cardinality({c \in Calls : phase[c] \in Holding}) = Limit

(* A receipt says what happened: its outcome is the one the exchange came  *)
(* to in the end, transport errors after a refusal included; it has a TLS  *)
(* peer only if a provider answered, and a dispatched body of its own only *)
(* for an OpenAI stream.  An error event inside a stream is the exception: *)
(* see InBandErrorReported.                                                *)
TrueOutcome(c) ==
  IF "denied" \in req[c].flaws THEN "policy_denied"
  ELSE IF exchange[c] = "complete" /\ said[c] = "refusal" THEN "refusal"
  ELSE IF exchange[c] = "complete" /\ said[c] \in {"nothing", "stop"} THEN "ok"
  ELSE "upstream_error"

ReceiptsTruthful ==
  \A i \in DOMAIN log :
    LET r == log[i]
        c == r.call
    IN  /\ said[c] # "error" => r.outcome = TrueOutcome(c)
        /\ r.met => exchange[c] \in {"answered", "declined", "complete", "broken"}
        /\ r.forced <=> r.met /\ req[c].stream /\ req[c].surface = "openai"
        /\ r.outcome \in {"ok", "refusal"} => r.met
        /\ r.outcome = "policy_denied" => exchange[c] = "none"

(* What a client was told agrees with what was signed: a call that ended   *)
(* with a receipt id has its one receipt, under that id and with the       *)
(* outcome its status stands for, unless it is a stream whose receipt      *)
(* could not be signed; one turned away without an id has none.            *)
SignedFor(c) == {i \in DOMAIN log : log[i].call = c}

Backs(receipt, c) ==
  /\ receipt.id = reply[c].header
  /\ reply[c].status = 200 =>
       receipt.outcome \in {"ok", "refusal"}
         \cup (IF req[c].stream THEN {"upstream_error"} ELSE {})
  /\ reply[c].status = 403 => receipt.outcome = "policy_denied"
  /\ reply[c].status = 502 => receipt.outcome = "upstream_error"
  /\ reply[c].status \in {200, 403, 502}

RepliesBacked ==
  \A c \in Calls :
    /\ phase[c] = "replied" /\ reply[c].header # NoHeader =>
         \E i \in DOMAIN log : SignedFor(c) = {i} /\ Backs(log[i], c)
    /\ phase[c] = "replied" /\ reply[c].header = NoHeader => SignedFor(c) = {}
    /\ phase[c] = "unsigned" => req[c].stream /\ SignedFor(c) = {}

(* GET /receipts/{id} answers with the newest receipt this boot has signed *)
(* under that id, as long as it is among the last Cap signed, and with 404 *)
(* otherwise: evictions, reused nonces and reboots included.               *)
FetchReturnsNewest ==
  \A id \in Calls \cup Nonces :
    LET fetchable == {i \in DOMAIN log : /\ log[i].id = id
                                         /\ log[i].boot = boot
                                         /\ Len(log) - i < Cap}
    IN  IF fetchable = {} THEN Get(entries, id) = NotFound
        ELSE Get(entries, id) =
               log[CHOOSE i \in fetchable : \A j \in fetchable : j <= i]

-----------------------------------------------------------------------------
Contacted == {c \in Calls : exchange[c] # "none"}

Verdict(c) ==
  IF SignedFor(c) # {} THEN "notarised"
  ELSE IF phase[c] \notin Over THEN "open"
  ELSE IF c \in Contacted THEN "lost" ELSE "rejected"

Verdicts == [c \in Calls |-> Verdict(c)]

Signed == {[call |-> log[i].call, outcome |-> log[i].outcome] : i \in DOMAIN log}

Book == INSTANCE Notary WITH
  verdict <- Verdicts, contacted <- Contacted, receipts <- Signed

(* Handlers, permits, streams, disconnects and reboots implement the       *)
(* notary: one contact and one final receipt per call, none for a call     *)
(* that was turned away, and a denied call is never sent on.               *)
ImplementsNotary == Book!NSpec

-----------------------------------------------------------------------------
(* Every call that arrives comes to an end, and the enclave gets all its   *)
(* permits back for good.                                                  *)
CallsEnd == \A c \in Calls : phase[c] = "arrived" ~> phase[c] \in Over

PermitsReturn == <>[](permits = Limit)

(* A receipt id handed out ahead of its receipt is made good, unless the   *)
(* client leaves, the enclave goes down or the signature fails.            *)
HeaderRedeemed ==
  \A c \in Calls :
    reply[c].header # NoHeader
      ~> SignedFor(c) # {} \/ phase[c] \in {"gone", "cut", "unsigned"}

-----------------------------------------------------------------------------
(* What the documentation says, and the code does not keep to.             *)

(* server.rs: concurrency, requests in flight, is bounded by the semaphore. *)
StreamsWithinLimit ==
  Cardinality({c \in Calls : phase[c] \in Holding \cup {"streaming"}}) <= Limit

(* README: every inference response yields a receipt.                      *)
EveryResponseYieldsReceipt ==
  \A c \in Calls :
    phase[c] \in {"replied", "gone"} /\ reply[c].status = 200
      => SignedFor(c) # {}

(* server.rs, no_upstream_call: for paths where no upstream call is ever   *)
(* attempted.                                                              *)
NoUpstreamCallHonest ==
  \A i \in DOMAIN log : ~log[i].met => exchange[log[i].call] = "none"

(* SPEC: mid-stream errors still produce receipts with the right outcome.  *)
InBandErrorReported ==
  \A i \in DOMAIN log :
    said[log[i].call] = "error" => log[i].outcome = "upstream_error"
=============================================================================
