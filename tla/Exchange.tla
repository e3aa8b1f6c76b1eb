------------------------------ MODULE Exchange ------------------------------
(***************************************************************************)
(* What one receipt says, from the request it answers to the client and    *)
(* the contract that check it.  Gateway has the calls, their races and     *)
(* their failures; here is the content: which blobs, hashes, counters and  *)
(* names each way out of a handler puts into the receipt (CallContext,     *)
(* ReceiptParts and the finish functions of server.rs), the message that   *)
(* is signed, and the record that reaches the client, as it was served or  *)
(* changed by the host between.                                            *)
(***************************************************************************)
EXTENDS CanonicalForm, SignedMessage

CONSTANTS
  Requests,    \* [surface, body, asks]: a body, and what it asks for, place
               \* by place
  Answers,     \* [model, choices, usage, id, tier, geo, peer, header]
  Uncommitted, \* per surface, the places no receipt commits to
  Hosts,       \* per surface, its compile-time HOST
  Messages     \* texts of errors

(* Names are strings of bytes, and usage is counted in u64s: as_u64 has    *)
(* None for a number that does not fit, which is not counted.              *)
Surfaces == {"openai", "anthropic"}
Name == Seq({Byte(n) : n \in 0 .. 2 * Base - 1})

ASSUME ExchangeAssumption ==
  /\ \A r \in Requests :
       /\ r.surface \in Surfaces /\ r.body.model \in Name
       /\ {"model", "messages", "tools", "tool_choice", "max_tokens",
           "temperature", "stream", "stream_options"} \subseteq DOMAIN r.body
  /\ \A a \in Answers :
       /\ {"model", "choices", "usage", "id", "tier", "geo", "peer", "header"}
            \subseteq DOMAIN a
       /\ a.usage \in [Counters -> U64]
       /\ \A x \in {a.model, a.id, a.header} : x = Nil \/ x \in Name
  /\ \A s \in Surfaces : Hosts[s] \in Name

VARIABLES
  request,     \* the call's request
  phase,       \* "received", "sent", "signed" or "unreceipted"
  dispatched,  \* history: the body that went upstream, if one did
  named,       \* history: the model that the answer it was given named
  receipt,     \* the fields of its receipt
  signature,   \* what was signed
  record       \* what a client has been given for GET /receipts/{id}

vars == <<request, phase, dispatched, named, receipt, signature, record>>

surface == request.surface
CanonicalRequest == ToCanonicalRequest(surface, request.body)
RequestBlob == BlobId(CanonicalRequest)
ModelHint == CanonicalRequest.model
NoName == <<>>                                  \* the empty string
Nothing == <<>>                                 \* no body, fields, bytes, record
NoTokens == [f \in Counters |-> 0]

Init ==
  /\ request \in Requests
  /\ phase = "received"
  /\ dispatched = Nothing /\ named = Nil /\ receipt = Nothing
  /\ signature = Nothing /\ record = Nothing

-----------------------------------------------------------------------------
(* CallContext.  Without a response there are no headers and no peer, and  *)
(* the upstream request is the client's.                                   *)
NoUpstreamCall ==
  [upstream_request_blob |-> RequestBlob, headers |-> Sha256(<<>>),
   peer |-> Nil, id |-> NoName]

UpstreamRequestBlobAlike(s, body) ==                       \* mutant
  BlobId(ToCanonicalRequest(s, body))

(* Only an OpenAI stream is changed on its way in more than `stream`; its  *)
(* receipt commits to the body itself.                                     *)
UpstreamRequestBlob(s, body) ==
  IF s = "openai" /\ WantsStream(body) THEN BlobId(Dispatched(s, body))
  ELSE BlobId(ToCanonicalRequest(s, body))

WithUpstreamMeta(answer) ==
  [upstream_request_blob |-> UpstreamRequestBlob(surface, request.body),
   headers |-> Sha256(UpstreamHeaders(surface)),
   peer |-> answer.peer, id |-> OrElse(answer.header, NoName)]

OutcomeCodeFromOne ==                                      \* mutant
  [ok |-> 1, refusal |-> 2, upstream_error |-> 3, policy_denied |-> 4]

OutcomeCode == [ok |-> 0, refusal |-> 1, upstream_error |-> 2, policy_denied |-> 3]

(* sign_and_store, of the parts that differ.                               *)
Sign(ctx, parts) ==
  LET fields ==
        [timestamp_ms |-> 1,
         receipt_id |-> <<Byte(0), Byte(1)>>,
         config_hash |-> HashBytes(Sha256([policy |-> "document"])),
         provider |-> IF surface = "anthropic" THEN 0 ELSE 1,
         endpoint_host |-> Hosts[surface],
         tls_cert_sha256 |-> IF ctx.peer = Nil THEN ZeroHash
                             ELSE HashBytes(Sha256([cert |-> ctx.peer])),
         request_blob |-> HashBytes(RequestBlob),
         upstream_request_blob |-> HashBytes(ctx.upstream_request_blob),
         upstream_headers_hash |-> HashBytes(ctx.headers),
         model_id |-> parts.model,
         provider_request_id |-> IF parts.id = NoName THEN ctx.id ELSE parts.id,
         response_blob |-> HashBytes(BlobId(parts.response)),
         provider_meta_hash |-> HashBytes(Sha256(parts.meta)),
         input_tokens |-> parts.usage.input_tokens,
         cache_creation_tokens |-> parts.usage.cache_creation_tokens,
         cache_read_tokens |-> parts.usage.cache_read_tokens,
         output_tokens |-> parts.usage.output_tokens,
         outcome |-> OutcomeCode[parts.outcome]]
  IN  /\ receipt' = fields
      /\ signature' = SerializeIntentMessage(fields)
      /\ phase' = "signed"
      /\ UNCHANGED <<request, record>>

(* finish_error_receipt: the response is a record of the error, the model  *)
(* the one that was asked for, and nothing is billed.                      *)
SignError(ctx, outcome, status, message) ==
  /\ Sign(ctx, [usage |-> NoTokens, model |-> ModelHint, id |-> NoName,
                response |-> [error |-> TRUE, status |-> status, message |-> message],
                meta |-> DefaultMeta, outcome |-> outcome])
  /\ UNCHANGED named

SignAnswerAsAsked(answer, broken) ==                       \* mutant
  LET heard    == [answer EXCEPT !.model = ModelHint]
      response == ToCanonicalResponse(surface, heard)
  IN  /\ Sign(WithUpstreamMeta(answer),
              [usage |-> answer.usage, model |-> response.model,
               id |-> OrElse(answer.id, NoName), response |-> response,
               meta |-> ProviderMeta(response.stop, answer.tier, answer.geo),
               outcome |-> IF broken THEN "upstream_error"
                           ELSE OutcomeFor(surface, response.stop)])
      /\ named' = answer.model

(* finish_non_streaming_ok and the end of both streams: the model is the   *)
(* provider's word, and the request's only if a stream never said one.     *)
SignAnswer(answer, broken) ==
  LET heard    == [answer EXCEPT !.model = OrElse(@, ModelHint)]
      response == ToCanonicalResponse(surface, heard)
  IN  /\ Sign(WithUpstreamMeta(answer),
              [usage |-> answer.usage, model |-> response.model,
               id |-> OrElse(answer.id, NoName), response |-> response,
               meta |-> ProviderMeta(response.stop, answer.tier, answer.geo),
               outcome |-> IF broken THEN "upstream_error"
                           ELSE OutcomeFor(surface, response.stop)])
      /\ named' = answer.model

-----------------------------------------------------------------------------
(* The ways through a handler.                                             *)
Deny(message) ==
  /\ phase = "received"
  /\ SignError(NoUpstreamCall, "policy_denied", Nil, message)
  /\ UNCHANGED dispatched

(* No key for the provider: an error without a receipt.                    *)
Unconfigured ==
  /\ phase = "received"
  /\ phase' = "unreceipted"
  /\ UNCHANGED <<request, dispatched, named, receipt, signature, record>>

Send ==
  /\ phase = "received"
  /\ phase' = "sent"
  /\ dispatched' = Dispatched(surface, request.body)
  /\ UNCHANGED <<request, named, receipt, signature, record>>

(* Err of the adapter: no connection, no head, or, without a stream, a     *)
(* body that breaks off or is not JSON.                                    *)
Lost(message) ==
  /\ phase \in {"received", "sent"}
  /\ SignError(NoUpstreamCall, "upstream_error", Nil, message)
  /\ UNCHANGED dispatched

(* A status other than 2xx.                                                *)
Declined(answer, status, message) ==
  /\ phase = "sent"
  /\ SignError(WithUpstreamMeta(answer), "upstream_error", status, message)
  /\ UNCHANGED dispatched

(* A 2xx body that is JSON but no answer.                                  *)
Garbled(answer, message) ==
  /\ phase = "sent" /\ ~WantsStream(request.body)
  /\ SignError(WithUpstreamMeta(answer), "upstream_error", Nil, message)
  /\ UNCHANGED dispatched

Answered(answer) ==
  /\ phase = "sent" /\ ~WantsStream(request.body) /\ answer.model # Nil
  /\ SignAnswer(answer, FALSE)
  /\ UNCHANGED dispatched

(* A stream that ended or broke: `answer` is what was accumulated of it.   *)
Streamed(answer, broken) ==
  /\ phase = "sent" /\ WantsStream(request.body)
  /\ SignAnswer(answer, broken)
  /\ UNCHANGED dispatched

-----------------------------------------------------------------------------
(* The record on its way to the client.  The host that relays it may have  *)
(* it say anything: here, another number, the value of another field of    *)
(* the same kind, or a character moved from one name to the next.          *)
Served == StoredReceipt(receipt, signature)

Hashes == Blobs \cup {"config_hash", "tls_cert_sha256", "upstream_headers_hash",
                      "provider_meta_hash"}
Names == {"endpoint_host", "model_id", "provider_request_id"}
OfAKind == {Blobs, Hashes \ Blobs, Names}

EdgeNumbers == {0, MaxSafe, MaxSafe + 1, Power(2 * Base)[U64Bytes] - 1}

Moved(fields, f, g) ==
  [fields EXCEPT ![f] = Front(@), ![g] = <<Last(fields[f])>> \o @]

Recounted(fields) ==
  {[fields EXCEPT ![f] = n] : f \in Counters, n \in EdgeNumbers}
Reworded(fields) == {[fields EXCEPT !.outcome = n] : n \in Range(OutcomeCode)}
Copied(fields) ==
  UNION {{[fields EXCEPT ![f] = fields[g]] : f, g \in kind} : kind \in OfAKind}
Shifted(fields) ==
  IF fields.model_id = NoName THEN {}
  ELSE {Moved(fields, "model_id", "provider_request_id")}

Changed(fields) ==
  Recounted(fields) \cup Reworded(fields) \cup Copied(fields) \cup Shifted(fields)

Fetch ==
  /\ phase = "signed" /\ record = Nothing
  /\ record' = Served
  /\ UNCHANGED <<request, phase, dispatched, named, receipt, signature>>

FetchChanged(fields) ==
  /\ phase = "signed" /\ record = Nothing
  /\ record' = [Served EXCEPT !.fields = fields]
  /\ UNCHANGED <<request, phase, dispatched, named, receipt, signature>>

Next ==
  \/ Unconfigured \/ Send \/ Fetch
  \/ \E m \in Messages : Deny(m) \/ Lost(m)
  \/ \E a \in Answers :
       \/ Answered(a)
       \/ \E broken \in BOOLEAN : Streamed(a, broken)
       \/ \E m \in Messages : Garbled(a, m) \/ Declined(a, 429, m)
  \/ receipt # Nothing /\ \E fields \in Changed(receipt) : FetchChanged(fields)

Spec == Init /\ [][Next]_vars

-----------------------------------------------------------------------------
(* The state's types: a receipt's fields have the widths the encoding      *)
(* relies on, and a receipt is there with its signature or not at all.     *)
TypeOK ==
  /\ request \in Requests
  /\ phase \in {"received", "sent", "signed", "unreceipted"}
  /\ dispatched # Nothing => phase \in {"sent", "signed"}
  /\ phase = "signed" <=> receipt # Nothing
  /\ receipt # Nothing =>
       /\ DOMAIN receipt = {EnclaveFields[i] : i \in DOMAIN EnclaveFields}
       /\ \A f \in Numbers : receipt[f] \in U64
       /\ \A f \in Hashes : Len(receipt[f]) = 2
       /\ receipt.outcome \in 0 .. 3
       /\ signature # Nothing

(* canonical.rs: request_blob commits to what a request asks for, place by *)
(* place.  Two requests of a surface have the same blob just when they     *)
(* differ in nothing but the places that are left out: `stream`, and, by   *)
(* the schema's limits, the members it does not have and, on the OpenAI    *)
(* surface, what a tool message holds besides text.                        *)
Alike(other, places) ==
  \A p \in places : other.asks[p] = request.asks[p]

Committed == DOMAIN request.asks \ Uncommitted[surface]

RequestBlobBinds ==
  receipt # Nothing =>
    \A other \in Requests :
      other.surface = surface =>
        (receipt.request_blob =
           HashBytes(BlobId(ToCanonicalRequest(surface, other.body)))
             <=> Alike(other, Committed))

(* upstream_request_blob is that of what went out: for an OpenAI stream it *)
(* tells the dispatched body from that of every other request, to the last *)
(* member, and for all other calls it says no less than request_blob.      *)
(* Without a response it is request_blob itself.                           *)
Heard == receipt.upstream_headers_hash # HashBytes(Sha256(<<>>))

UpstreamBlobBinds ==
  receipt # Nothing =>
    /\ ~Heard => receipt.upstream_request_blob = receipt.request_blob
    /\ Heard =>
         /\ dispatched # Nothing
         /\ \A other \in Requests :
              /\ other.surface = surface
              /\ receipt.upstream_request_blob =
                   HashBytes(UpstreamRequestBlob(surface, other.body))
              => /\ BlobId(ToCanonicalRequest(surface, other.body)) = RequestBlob
                 /\ surface = "openai" /\ WantsStream(request.body) =>
                      Dispatched(surface, other.body) = dispatched

(* Whoever has the content of response_blob finds the receipt's own fields *)
(* in it: the model, the four counters, the outcome its stop reason stands *)
(* for.  That model is the one the provider's answer named, whatever was   *)
(* asked for.  Where no answer named one, it is the request's: in a stream *)
(* that says none (the fallback of `finish`), and with every error, which  *)
(* bills nothing and is no success.  SPEC.md:84 knows neither case.        *)
Response == receipt.response_blob[1].first.blob
Meta == receipt.provider_meta_hash[1].first.sha256

ResponseExplainsReceipt ==
  receipt # Nothing =>
    /\ receipt.model_id = OrElse(named, ModelHint)
    /\ IF "error" \in DOMAIN Response
       THEN /\ named = Nil
            /\ receipt.outcome \in {2, 3}
            /\ \A f \in Counters : receipt[f] = 0
            /\ Meta = DefaultMeta
       ELSE /\ named = Nil => WantsStream(request.body)
            /\ receipt.model_id = Response.model
            /\ \A f \in Counters : receipt[f] = Response.usage[f]
            /\ Meta.stop = Response.stop
            /\ \/ receipt.outcome = OutcomeCode[OutcomeFor(surface, Response.stop)]
               \/ receipt.outcome = 2 /\ WantsStream(request.body)
            /\ Heard

(* A record that nobody changed verifies, in the SDK and on chain, if its  *)
(* numbers are within what a JSON parser keeps.                            *)
HonestRecordVerifies ==
  /\ record # Nothing /\ record = Served
  /\ \A f \in Numbers : receipt[f] <= MaxSafe
  => VerifyReceipt(record) /\ VerifyOnChain(record)

(* The two agree on every record, and one they accept says in every field  *)
(* what the enclave signed: no other receipt has the same message.         *)
VerifiedIsSigned ==
  record # Nothing =>
    /\ VerifyReceipt(record) <=> VerifyOnChain(record)
    /\ VerifyReceipt(record) =>
         Decoded(record) = [f \in DOMAIN receipt |->
           IF f \in Blobs THEN Reverse(receipt[f]) ELSE receipt[f]]
=============================================================================
