# Formal models of sekisho

Sekisho relays LLM requests from inside a Nitro enclave and signs a receipt of
every exchange; a Sui contract checks receipts against a registry of approved
builds. This directory holds TLA+ models of that system, the TLC
configurations that check them on small instances, and TLAPS proofs of the
properties that matter most for all instances.

    tlc -config MCVerification.cfg MCVerification.tla
    tlapm VerificationProofs.tla

Contents: [inventory](#inventory), [modules](#modules),
[the chain](#the-chain), [the gateway](#the-gateway), [the policy engine](#the-policy-engine),
[the boot chain](#the-boot-chain), [streams](#streams), [exchanges](#exchanges),
[deployments](#deployments), [runs](#runs),
[fairness](#fairness), [proofs](#proofs), [disagreements](#disagreements-between-code-and-documentation),
[not modelled](#not-modelled), [plan](#plan).

## Inventory

| Part | Where | State it keeps | Operations |
|---|---|---|---|
| Checkpoint registry | `move/sources/checkpoint.move` | append-only vector of PCR triples with a revoked flag; one shared `Gateway` object per registration | `approve_pcrs`, `revoke_pcrs` (with the cap), `register`, `destroy_gateway` |
| Receipt verification | `move/sources/receipt.move` | none; emits events | `verify` |
| Inference handlers | `enclave/src/server.rs` | semaphore; one future per call; one generator per stream | `POST /v1/chat/completions`, `POST /v1/messages` |
| Other routes | `enclave/src/server.rs` | none | health, attestation, receipt lookup |
| Receipt store | `enclave/src/receipt.rs` | ring buffer behind a lock | `insert`, `get`; BCS of the signed message |
| Provider adapters | `enclave/src/providers/` | per stream: accumulator | parse, call, stream, canonical response |
| Policy engine | `enclave/src/policy.rs` | compiled rules, fixed at boot | `compile`, `evaluate` |
| Boot configuration | `enclave/src/config.rs`, `main.rs` | fixed at boot, with `config_hash` | load |
| Caller authentication | `enclave/src/auth.rs` | none | compare keys |
| Canonical forms, blob ids | `enclave/src/canonical.rs`, `blob.rs` | none | hash |
| Enclave boot, image | `enclave/eif/`, `scripts/*.sh` | two one-shot VSOCK channels | receive configuration, start bridges, start gateway |
| Operator scripts | `scripts/*.ts` | none | register, verify a deployment |
| SDK | `sdk/src/` | none | call, parse streams, verify receipts, build transactions |
| Viewer | `app/src/` | none | render a certificate |

How they interact. A client's call enters a handler, which takes a permit of
the semaphore, asks the policy engine, calls a provider through an adapter,
signs a receipt with the key of this boot and puts it into the store; the
client reads it back by the id in `x-receipt-id`. An operator fetches an
attestation document that commits to that key and to the operator's address
and registers a `Gateway` from it. Anyone may then submit a receipt to
`receipt::verify` with that `Gateway`.

What is hard. Calls interleave at every await and share permits and store. A
call can fail before it is sent, after it is sent, in the head, in the body,
or in the middle of a stream; its client can leave at any of these points,
which drops the handler or the generator that would have signed. A stream's
receipt id goes out before its receipt exists. A reboot loses store and key.
On the chain, transactions are atomic, but approvals, revocations,
registrations, teardowns and verifications come in any order and from anyone,
and `verify` trusts an index that `register` captured long before.

What makes each part correct:

* registry: an index keeps naming what it named; revocation is final; every Gateway
  comes from an attestation document of its operator;
* verification: an event leads back to such a document and was emitted under a build
  that was approved at that time;
* handlers: permits are conserved; a receipt tells what happened; a client's answer
  and the signed receipt agree; one receipt per call; a denied call is never sent;
  every call ends;
* store: a lookup gives the newest receipt with that id among those kept;
* policy: the verdict is what the document means, whatever the order of the loops;
  no way around a cap; a bad document stops the boot;
* deployments: a receipt leads to a boot of the build its event names; a check that
  passes is worth something although it reads a moving target, one that fails has a
  reason;
* boot: a gateway decides by the one file its enclave was sent; after the operator's
  commands in their order it can be reached; a mistake is noticed and not half
  repaired;
* canonical forms: two requests share a blob only if they ask for the same; a
  receipt's fields are those of the response it commits to;
* signed bytes: enclave, SDK and contract write the same message, and different
  receipts have different ones;
* accumulators: a complete stream commits to what the same answer would have come to
  in one piece, a broken one to a part of it, framing is no content, and what a
  client of the SDK saw is what is committed to.

## Modules

| Module | Contents |
|---|---|
| `Checkpoint` | the registry as a state machine |
| `Verification` | `Checkpoint` with `verify` and events; properties of the chain; refinement mapping |
| `TrustRegistry` | abstract specification of the chain |
| `MCVerification` | a small chain for TLC |
| `ReceiptStore` | operators on the ring |
| `Gateway` | inference handlers with permits, store, provider exchanges, disconnects, reboots; properties; refinement mapping |
| `Notary` | abstract specification of the gateway |
| `MCGateway` | small sets of requests for TLC |
| `Policy` | the policy engine and its loading at boot |
| `Boot`, `MCBoot` | the operator's commands, `run.sh` and the bridges around `Policy`; documents for TLC |
| `Framing` | how the providers frame an answer as events: what the accumulators may rely on |
| `StreamAccumulator`, `MCStreamAccumulator` | both accumulators fed with chunks; streams for TLC |
| `StreamClient`, `MCStreamClient` | a stream relayed to the SDK while it is accumulated |
| `CanonicalForm` | operators: wire formats of both providers into the canonical schema |
| `SignedMessage` | operators: the signed bytes as enclave, SDK and contract write them, and the JSON between |
| `Exchange`, `MCExchange` | one request through a handler to its receipt and to who checks it; requests for TLC |
| `Deployment`, `MCDeployment` | boots, operators and `verify_deployment.ts` around `Verification`; a small deployment for TLC |
| `NatFacts` | least and greatest elements of sets of naturals, which stand for induction in the proofs |
| `VerificationProofs`, `GatewayProofs`, `PolicyProofs`, `BootProofs`, `StreamProofs`, `ExchangeProofs`, `DeploymentProofs` | theorems |

`Verification` extends `Checkpoint` and `Deployment` extends `Verification`;
`Gateway` extends `ReceiptStore`, `Boot` extends `Policy`, `StreamClient` extends
`StreamAccumulator`, which extends `Framing`, `Exchange` extends `CanonicalForm` and
`SignedMessage`. An operator marked `\* mutant` is a wrong version of the definition
after it, there to show that a property can fail.

## The chain

A transaction on Sui is atomic and an abort undoes it, so each public function
is one action whose guard is the conjunction of its assertions.

| TLA+ | Move |
|---|---|
| `approved_pcrs`, `ApprovePcrs`, `RevokePcrs` | the vector, `approve_pcrs`, `revoke_pcrs` |
| `gateways`, `Register`, `DestroyGateway` | shared `Gateway` objects, `register`, `destroy_gateway` |
| `objects` | ids handed out by `object::new` |
| `FindMatchingEntry`, `Validates`, `CarriesPcrs` | `find_matching_entry`, `validate_and_find_version`, `pcr_by_index` |
| `events`, `Verify` | `ReceiptVerified`, `verify` |

A measurement is a function from the PCR index 0..2. An attestation document
is a record that may lack PCRs, the nonce or the key, since the code checks
for each. `Documents` is the set of those the Nitro hypervisor has signed: the
native `load_nitro_attestation` refuses every other. A receipt is the signed
message as a value with a `signer`; Ed25519 is taken to be unforgeable and a
key to belong to one boot. `code_ref` and the event's timestamps are left out.
`Gateway.document` is a history field: the document it was registered with.

Properties (`Verification.tla`): `VersionNamesMeasurement`, `EventsAttested`,
`RevocationFinal`, `ImplementsRegistry`. The last maps the vector to the
standing of each measurement: that of its *first* matching entry, since this
is the one the code looks at.

## The gateway

An action is what a handler does from one await to the next. tokio runs
handlers on several threads, but what they share is a semaphore, a lock
around the ring and nothing else; each critical section is one operation, so
the interleaving of such steps gives every outcome. `sign_and_store` is one
step: signing reads nothing shared, and inserting is a single locked
operation. (Two calls that sign in one order and insert in the other are not
told apart: `log` follows the order of insertion.)

| TLA+ | Rust |
|---|---|
| `phase[c]` | where call `c`'s future, or its stream's generator, is waiting |
| `permits`, `Holding` | `limiter`, and the phases in which `_permit` is in scope |
| `exchange[c]`, `said[c]` | what passed on the wire; the code learns of it from `reqwest` |
| `reply[c]` | status and `x-receipt-id` the client has |
| `entries` | `ReceiptStore` |
| `log` | history: all receipts signed |
| `Authenticate` | body limit, bearer key, `try_acquire_owned` |
| `Screen` | parse, nonce, policy, provider key |
| `ConnectFails`, `Dispatch`, `AnswerLost`, `HeadArrives` | `request.send().await` and what follows it |
| `BodyArrives`, `BodyBreaks` | `response.bytes().await` in `call_non_streaming` and the handler after it |
| `ErrorBodyDone` | `upstream.text().await` of a declined stream |
| `Chunk`, `StreamEnds`, `StreamBreaks` | the generator's loop and the statements after it |
| `Disconnect` | hyper dropping the future or the body |
| `Reboot` | a new process: `main` |

The two surfaces share their actions: `chat_completions` and `messages` have
the same control, and the one difference that reaches a receipt (an OpenAI
stream is dispatched with a body of its own) is the field `forced`.
`request.flaws` says what the code will find wrong with a request; a request
may have several, and `Authenticate` and `Screen` find them in the code's
order. Abstracted: contents, hashes, token counts, timestamps, wording. A
fresh UUID for call `c` is `c` itself. Serialisation of our own structures,
which the code treats as fallible, is taken to succeed; signing is not
(`SignResults`).

Properties (`Gateway.tla`): `PermitAccounting`, `ReceiptsTruthful`,
`RepliesBacked`, `FetchReturnsNewest` (of the receipts kept, the newest with the id
that was asked for); `ImplementsNotary`, against an abstract
specification without handlers in which a call is contacted and notarised at
most once; and, under fairness, `CallsEnd`, `PermitsReturn`, `HeaderRedeemed`.

## The policy engine

`Policy` models `CompiledPolicy` and the part of `AppConfig::from_raw` that
loads it. `compile` and `evaluate` are loops with early exits, and an action is
one round: `CompileNext`, `DenyNext`, `AllowNext`, with `Compiled`, `NotDenied`
and `Exhausted` where a loop runs out. Nothing can come between two rounds, so
the process has one evaluation at a time. A model name is a sequence
and a pattern a sequence with a flag for the trailing `*`, since prefixes are
what the matcher compares; other names are values, and `Blank` is one that
trims to nothing. `config_hash` is the document itself (the hash is taken to be
injective), and each verdict carries it as its receipt does.

The reference (`Forbids`, `Permits`) says of each rule as it was written
whether it speaks for or against a request. `VerdictFollowsPolicy` relates the
verdict to the two sets of rules; `DiagnosticsComplete` says what a refused
caller is told; `CapsBind` that `max_tokens` cannot be evaded by omission;
`ServesOnlyValid` that a document is loaded whole or not at all.

## The boot chain

`Boot` puts the operator and `run.sh` around `Policy`. An enclave drains one
push on port 7777, then one on port 7778, starts its bridges in the background
and becomes the gateway.

| TLA+ | Code |
|---|---|
| `RunEif`, `Terminate` | `make run-eif`, `make stop`; `Terminate` is a crash as well |
| `Expose` | `expose_enclave.sh`: argonaut pushes to 7777, then bridges if the TCP port is free |
| `CloseBridge` | the end of that foreground program |
| `Send` | `send_boot_config.sh` |
| `StartBridges`, `HandOff` | the last two commands of `run.sh` |
| `BridgesListen`, `BridgesDie` | the inner argonaut, unsupervised |
| `Load`, `LoadFails` | `AppConfig::load_from_file`, and `main` returning its error |
| `Loop`, `Ask` | the loops of `Policy`, and a request that comes through both bridges |

`make` and the scripts refuse to run without an enclave, and a push that nothing
listens to fails: these are the guards. While a loop of `Policy` runs nothing
else happens (`Settled`), as it only looks at what the process has. argonaut is
external: it is modelled from its use in the scripts and the comments there.

`OneDelivery`: no file of another enclave and none sent later decides anything.
`CutOffForGood`: once the push is spent and the host bridges elsewhere (as it
does after `make stop` and `make run-eif` without stopping the old `make
expose`), or the inner bridges are dead, no command makes this enclave
reachable. `DeliveredComesUp`: otherwise a file that was accepted brings the
gateway up without another command, or ends the enclave.

## Streams

`StreamAccumulator` models both accumulators and the loops in `server.rs` that
feed them. A stream is a sequence of events, a line of two halves and a blank
line each, and arrives in chunks of any size; in a *wide* event the middle of
the line lies inside a character of several bytes. Actions: `Feed` (decode a
chunk, add it to the buffer), `Handle` (one round of the loop in `feed`), `End`
and `Break` (the two ways out of the loop in `server.rs`, each with `finish`). Text and tool
input are sequences of the pieces they came in; `Json` says which sequences
parse. Ids, tiers and the other metadata of a response are left out; so are
events that are not JSON (skipped), and lines ended by CR LF.

`BufferHoldsPartial` is the invariant of the buffer between chunks.
`CompleteStreamIsWhole` compares with `to_canonical_response` of the same answer
(`Whole`), which is code of its own: it takes Anthropic's tool input as it is and
parses OpenAI's, makes a block of an OpenAI text even if there is nothing in it, and
hashes all of an opaque block. The comparison has three exceptions, each a
difference of the code: a character was cut (see `chunk_cut` below); deltas of a
block that is not modelled (thinking) were dropped, so that the streamed descriptor
covers the block's first event only (`DroppedDelta`); or an OpenAI text is empty, of
which the accumulator makes no block (`SilentText`). `PartialIsPrefix` holds at
every moment, since the stream may break at any: the assembled blocks are blocks of
the answer in its order, each cut short. Of Anthropic's they are the first ones; of
OpenAI's they may be any, since the calls come under their indices in any order, and
the text, which is the first block, may come after them.

What a stream's `response` has to do with its events is up to the provider, and
`Framing` says it in the words of `provider-apis.md`: a block is started and
then grown under its index, texts and inputs come in pieces to be put together
in their order, a count is never reported above what it comes to and is last
reported as that. `AnswersAreFramed` assumes no more than this of the streams
that have a `response`; a stream without one may be anything. In which order the calls
of an OpenAI stream are first seen is not said: the `BTreeMap` puts them into theirs.

`StreamClient` adds the way to the client. `FeedChunk` and `HandleBlock` are the
accumulator's, `Relay` is the `yield` that follows them, `Finish` the end of the
loop; `Read`, `Yield` and `Close` are `parseSSE`. Between gateway and client the
bytes are cut anew. The SDK's decoder keeps half a character (`stream: true`),
so no cut harms there. The two parsers frame differently: the SDK waits for two newlines in
a row, the OpenAI accumulator takes every line. `SeenIsHandled` says that the
client is never ahead of the receipt. `ClientAgrees` says that at the end the
client's events, put together, are the response that was committed to, also
where the stream broke. A transport error is not passed on, so the client cannot
tell such a stream from a whole one except by what it lacks. One exception: an
OpenAI stream that breaks between the two newlines of a blank line has an event
more in the receipt than the client got.

## Exchanges

`Exchange` follows one request from its JSON to a signed receipt, and the
receipt's record to a client that checks it. There is no concurrency in it:
`Gateway` has that. Actions are the ways out of a handler: `Deny`,
`Unconfigured`, `Lost`, `Declined`, `Garbled`, `Answered`, `Streamed`; then
`Fetch`, or `FetchChanged` by a host that relays the record and may rewrite it.

`CanonicalForm` is `canonical.rs` with the conversions of both adapters. A JSON
body is a record of the members the code reads and `rest` for the others; a
text is a sequence of lines, so that joining is putting sequences together.
Hashes and blob ids are injective. In `SignedMessage` bytes are digits and the
radix is a parameter, so that with a small one lengths of two prefix digits
occur. `WriteUleb128` is the loop of `receipt.rs`; `BcsLength` says what BCS
means by a length. `JsonNumber` is the rounding of `JSON.parse`.

Each request of the run carries `asks`, what it asks for place by place;
`Uncommitted` lists the places the canonical form leaves out, and so states what the
code does not commit to: `stream`, members that are not in the schema (`seed`,
`strict`), and on the OpenAI surface what a tool message holds besides text.
`RequestBlobBinds` says the form tells all other places apart and only those.
`UpstreamBlobBinds` says that the blob of the upstream request says no less than
that, and of an OpenAI stream, which alone is dispatched with a body of its own,
what went out to the last member. `ResponseExplainsReceipt` relates a receipt's
fields to the response it commits to, and its model to what the answer said: `named`
keeps the model that the provider named. The receipt has that one whatever was asked
for, and the requested one (`ModelHint`) where none was named, in a stream that does
not say it and with every error. `HonestRecordVerifies` and `VerifiedIsSigned`
relate the three encodings: what was not changed verifies (while counters are below
2^53), what verifies says what was signed, and SDK and contract agree.

## Deployments

`Deployment` puts the enclave next to the chain. A boot is its key, since each
start of the process makes one; `image` says what was booted, `issued` which
documents bound to an address were handed out. `ChainStep` lets an operator
submit a document at any later time, as `register_enclave.ts` does
when the enclave reboots between its request and its transaction. (It only
warns of a wrong nonce; the contract refuses it.) Which receipts a boot has
signed is `Gateway`'s affair: here any receipt of a boot may turn up.

| TLA+ | TypeScript |
|---|---|
| `question` | file and Gateway on the command line; the file is a partial function of PCR indices, since `parsePcrsFile` skips malformed lines |
| `FetchAttestation`, `FetchFails` | `main` up to `fetchLiveAttestation` |
| `ComparePcrs`, `PcrStatus` | `loadExpectedPcrs`, `comparePcrs` |
| `ReadCheckpoint`, `MatchIndex`, `EntryStatus` | `checkOnChain` up to the reading of the Gateway |
| `Shapes`, `FieldToHex`, `ReadsAs` | `fieldToHex` and the comparison with the live triple |
| `ReadGateway`, `KeyStatus`, `VersionStatus` | the rest of it |
| `results`, `Verdict` | `results`, `printSummary` |

Whether a Checkpoint id was given and what `code_ref` says are left open.
Warnings about fields of an unexpected type have no case.

The script verifies neither the COSE signature of the document it fetches nor its
certificate chain, and says so (`verify_deployment.ts:20`). `FetchAttestation` assumes
that the document is genuine: that the URL leads to the enclave and what comes back is of
the boot that is running. `AlarmsJustified` and `KeyImpliesVersion` rest on that. A plain
`PASS` rests on it less: it needs a Gateway with the document's key and with the index of
its PCRs, and `register`, which does verify the signature, has bound the two.

`FieldToHex` has the one thing that can go wrong in reading a `vector<u8>` that
comes as text: hex is tried before base64, so a base64 text made of hex digits only
is taken for other bytes (`HexLike`, `Misread`). The all-zero PCRs of an enclave in
debug mode are such a value. Which of the three shapes a reader of the chain gives
is left open at each reading.

`EventsFromAttestedBoots` is the system's promise end to end. `PassIsSound` says
what a plain PASS binds together: the key, the published build, the Gateway and
its receipts, before and after; it does not say that the boot is still
running, and the script cannot know. `AlarmsJustified` is the converse: a `FAIL` has a
reason in the deployment, or there is one kind of bytes that `fieldToHex` misreads and the
line is that no entry matches;
`KeyImpliesVersion` rules out that script and contract disagree on an index.

## Runs

| Run | Configuration | States | Shows |
|---|---|---|---|
| `verification` | `MCVerification.cfg` | 33 thousand | types, `VersionNamesMeasurement`, `EventsAttested`, `RevocationFinal`, `ImplementsRegistry` |
| `gateway` | `MCGateway.cfg` | 309 thousand | types, `PermitAccounting`, `ReceiptsTruthful`, `RepliesBacked`, `FetchReturnsNewest`, `ImplementsNotary`, `CallsEnd`, `PermitsReturn`, `HeaderRedeemed` |
| `boot` | `MCBoot.cfg` | 59 thousand | types, `VerdictFollowsPolicy`, `DiagnosticsComplete`, `CapsBind`, `ServesOnlyValid`, `OneDelivery`, `CutOffForGood`, `DeliveredComesUp` |
| `stream` | `MCStreamClient.cfg` | 371 thousand | types, `BufferHoldsPartial`, `CompleteStreamIsWhole`, `PartialIsPrefix`, `SeenIsHandled`, `ClientAgrees` |
| `exchange` | `MCExchange.cfg` | 16 thousand | types, `RequestBlobBinds`, `UpstreamBlobBinds`, `ResponseExplainsReceipt`, `HonestRecordVerifies`, `VerifiedIsSigned` |
| `deployment` | `MCDeployment.cfg` | 2.2 million | types, `EventsFromAttestedBoots`, `PassIsSound`, `AlarmsJustified`, `KeyImpliesVersion` |
| `reinstate`, `streams_limit`, `receipt_per_response`, `no_call_honest`, `in_band_error`, `chunk_cut` | see below | | one counterexample each |

Bounds of `MCVerification`. Two builds can be approved and a third never is;
three entries (`MaxEntries`) are the fewest that allow a duplicate next to
another build; two registrations (`MaxGateways`) allow one document to be
used twice, or a teardown and a second registration. Seven documents have
every kind of defect, and one boot is attested for two operators. Three
receipts: one for each registered key, one for a key no chain knows.

Bounds of `MCGateway`. Calls interact through permits and store only: they compete
for one permit (`Limit`) and for a ring of two (`Capacity`). Two calls make any two
of the requests; a third is denied and gives a receipt under the id that the others
may have chosen. Three receipts are the fewest for a ring of two to evict one and to
hold two of one id, in the order of signing and not of calling. Calls differ in
their requests only, so `ThreeCallsSpec` starts with each pair of requests once and
not once in either order; everything after `Init` is `FairSpec`'s. That a configured
size of 0 is taken for 1 is left to the theorem `FetchCorrect`, which holds for
every capacity. `SafetyRequests` has both surfaces and modes, shared and absent
nonces, and pairs of flaws whose order matters. Two boots (`MaxBoots`) show what a
reboot takes along. `FALSE` in `SignResults` makes signing fail. Deadlock is not
checked: calls and boots are finite, so every behaviour ends.

Bounds of `MCBoot`. Documents have up to three rules: two rules show
every effect of order between a pair, a third that skipping goes on. The rules
include both actions, a disabled one, one without a name, each cap, an empty
list of patterns and an empty list of callers; requests lie on both sides of each
cap and leave `max_tokens` out. One file more cannot be read. Two enclaves
(`MaxBoots`) are enough for a bridge and a file that belong to the one
before. Deadlock is not checked: with the last enclave gone there is nothing to do.

Bounds of `MCStreamClient`. Seven streams: thinking, text and a tool call in
pieces with partial usage reports; a redacted block, a tool without input and a
refusal; a ping, an error event and a delta for a block that was never
started; two tool calls with mixed parts, one begun before the text and one of
which does not parse; more cached than prompt tokens; an empty text, and a call seen
before one of a lower index; a call and no text. Every sequence of chunk
sizes is tried on each, on both ways. Deadlock is not checked: a stream ends.

Bounds of `MCExchange`. 37 requests: a base for each surface and one that
differs from it in each place, so that two that differ in one place only are
compared for every place. Three answers: one with every member, one refused,
one that never says its model. `Base` is 2, so that a length prefix grows a digit at
two bytes already and the names of one to five bytes need one to three digits;
numbers have two bytes and `MaxSafe` is 7, with counters on either side. The host's
changes: each counter, the outcome, each hash or name by another, and
a byte moved from one name into the next. Deadlock is not checked: an exchange ends.

Bounds of `MCDeployment`. Two builds that differ in one PCR, the PCRs of debug mode,
and two boots of any, interchangeable (hence the symmetry); two approvals, so that a
build can be approved twice or two once; one operator and one registration. With one
operator the part of `EventsFromAttestedBoots` that names the operator says little
in this run: it is `EventsAttested`'s in `verification`, and
`EventsFromBootsCorrect` proves it for any number. Gateways do not interact, and
with one the cases that matter are there: it is of the boot that was read, of an
earlier or a later one, or destroyed. One run of the script, started at any moment,
stands for all, since runs share nothing. Files: one complete, one that lost a line,
none.

## Fairness

`FairSpec` of `Gateway` assumes two things.

* `HandlersRun`: a handler that can go on without waiting does so. This is
  tokio's scheduling.
* `ProvidersRespond`: an exchange goes on. It is an assumption about the
  world: the HTTP client is built without a timeout (`providers/mod.rs:38`), so
  nothing in the code ends a call whose provider keeps silent, or a stream whose
  client neither reads nor leaves. Without it `CallsEnd` and `PermitsReturn`
  are false, and a silent provider keeps its permit.

`BootSpec` assumes that the enclave's programs run: `run.sh` goes on to its next
command, argonaut comes to listen, a loop comes to its end. The operator need
not do anything, and whatever can end a program may do so at any time.

None of this says which way an exchange goes: failing is a way to go on. Clients
need not leave, reboots need not happen.

## Proofs

All obligations are proved by TLAPS, without assumptions other than the named
`ASSUME`s of the modules (`CheckpointAssumption`, `ReceiptsAssumption`,
`CapacityAssumption`, `GatewayAssumption`, `PolicyAssumption`, `MatcherAssumption`,
`BootAssumption`, `StreamAssumption`, `AnswersAreFramed`, `DoneIsLast`,
`SignedMessageAssumption`, `ExchangeAssumption`, `DeploymentAssumption`), which TLC
evaluates in the runs. None bounds the number of addresses, documents, calls,
permits, entries or rules, the length of a stream or a name, or the radix and width
of the signed integers. Where a proof speaks of what a recursive function or a fold
computes, it goes by minimal counterexample: `LeastOfNats` and `GreatestOfNats` give
the first place where two sequences differ, and the step to that place is the
induction step.

`VerificationProofs`:

* `TypeCorrect`. Object ids stay unique because each is below `objects`.
* `ChainInvariant`, the strengthening the rest needs. `VersionNamesMeasurement`
  alone is not inductive for verification: an event outlives its Gateway and
  keeps what `verify` read from it. The invariant also says of each Gateway that
  the document it was registered with names its operator and its key
  (`GatewaysAttested`), and then of each event the same (`EventsAttested`).
  Two lemmas carry it: appending an entry, or raising a flag, changes neither
  the entries' PCRs nor which entry matches first.
* `VersionsCorrect`, `EventsCorrect`, `RevocationIsFinal` follow from it.
* `Refinement`: the initial state maps to an empty registry, and each action to
  the abstract step of its name or to a stutter. Approving a known measurement
  and revoking an entry that is not the first are stutters; destroying one of
  two Gateways with the same enrolment is one too.

`GatewayProofs`:

* `TypeCorrect`. `permits \in Nat` needs the guard of `Authenticate`.
* `PermitsAccounted`: each action moves one call, so the set of holders gains
  or loses that call exactly when a permit is taken or returned; a reboot
  empties it and starts a new semaphore.
* `FetchCorrect`, by the invariant that the store is the end of the log: its
  `k` entries are the last `k` receipts of the log, all of this boot, and when
  `k` is less than `Cap` every receipt before them is of an earlier boot.
* `ReceiptsTellTruth`, `RepliesAreBacked`, `GatewayIsNotary`, by an invariant
  with one formula for each phase of a call: what has passed on the wire, what
  the client was told and which receipts there are belong together. A
  receipt's fields never change, so it is enough to look at the step that signs
  it, and at what later steps of the same call do to `exchange` and `said`. In
  the refinement, signing is the notary's step and `Dispatch`,
  `ConnectFails` are its contact; a reboot is a stutter for every call that is over.

`PolicyProofs` (all five properties of `Policy`):

* `PolicyInvariant`. The properties speak of the document and the loops of the
  compiled lists, so the invariant relates the two (`Follows`): there is an
  increasing function from the entries of a list to the selected rules of the
  document, and it is onto. Existence and order of that function are what makes the
  first entry that matches stand for the first rule that does (`FirstMatch`).
  The rest says that the entries a loop has passed did not decide and that the
  diagnostics name those among them that concern the caller.
* `VerdictCorrect` and `DiagnosticsCorrect` are conjuncts; `CapsCorrect` follows
  from `VerdictCorrect`, and `LoadingCorrect` from `Follows`.

`BootProofs`:

* `BootIsPolicy`: what the chain does to the engine is to start one, stop it and
  ask it, so the theorems of `PolicyProofs` hold of every enclave
  (`BootedVerdicts`, `BootedLoading`).
* `BootTypeCorrect`, the invariant of the chain; `DeliveryIsOne` needs from it
  that a process is there only after its file, and nothing writes the file then.
* `CutOffIsFinal`, from the same: the bridge is set only by `Expose`, which
  needs an enclave whose first port still listens.

`StreamProofs`, for streams of any length, cut anywhere:

* Every argument is about places. The stream is a sequence of bytes, and each
  sequence they pass through (the wire, the accumulator's buffer, the chunk being
  relayed, the pipe, the client's buffer) holds an interval of it (`Holds`). The
  invariant says which; cutting and joining sequences are then two lemmas
  (`CutHolds`, `JoinHolds`), and where a newline or a blank line comes first is
  arithmetic on the place (`BlankLines`, `FirstNewline`).
* `StreamInv`: what left the accumulator's buffer is a whole number of events, less
  one newline when an OpenAI event's first newline was seen and not the second.
  `EventsHandledOnce` follows, and with the types of the counters `StreamTypeSafe`.
  The assumption on the streams is that usage, where an event has it, is in natural
  numbers.
* `ClientImplements`: relaying and reading are stutters of the accumulator.
* `ClientInv`: the three sequences on the way to the client follow one another, the
  client's buffer begins with an event, and the accumulator has handled all events
  of which the gateway passed on a last byte. From it `ClientTypeSafe` and
  `NothingSeenUnhandled`.
* `AccumulatorReplays` and `FramingCannotBeTold` are about content. `ReplayInv` adds
  to `StreamInv` that the accumulator is what its handled events come to when they
  are put in one after the other (`HoldsReplay`), and that a committed response was
  read off it then (`Settled`). Chunks do not occur in the formula; that is what
  "framing is no content" means. It ends with the first cut character, as it does in
  the code (`chunk_cut` below).
* `CompleteStreamsAreWhole` and `PartialStreamsArePrefixes` compare that replay with
  the answer. The replay of a prefix of the events holds of each block what is at
  the places of its pieces in that prefix, in their order (`BlockPart`, `CallPart`),
  and of each count and of the stop reason what was last reported (`IsPart`; the
  step from a prefix to the next is `ReplayIsPart`). At the end of the stream all
  places are in it, so blocks, counts and reason are the answer's (`InvWhole`); the
  two sides are brought together by what `Whole` has in place of each block
  (`WholeContent`, `CanonicalEnds`) and by the empty text left out
  (`ExpectedContent`). Before, the blocks that have begun stand where their indices
  say: of Anthropic's these are the first of the answer (`InitialSegment`); of
  OpenAI's any, so the place of a call among those seen is its rank, which is mapped
  to its place in the answer (`EveryRank`, `Positions`, `PositionsAscend`). A text
  is a prefix of the answer's, and a tool's input that parses is all of it, because
  no JSON object begins with another (`IsBlock`); that is `InvPrefix`. Both follow
  from `ReplayInv`, so they hold however the stream is cut.
* `ReceiptIsWhatClientGot`, by `AgreeInv`: the committed response is that of the
  events handled, and what the client has yielded is a prefix of the same sequence,
  so at the end the two have the same events or the receipt one more. It needs
  `DoneIsLast` (`provider-apis.md:117`): the client leaves at `[DONE]`, and the
  accumulator would go on.

`ExchangeProofs`:

* The message determines the receipt. A length prefix and an integer can be read
  off the bytes that follow (`UlebDelimited`, `LittleEndianInjective`), so a
  field ends where it says (`BcsDelimited`), and pieces of which this is
  true can be taken apart one after the other (`FlattenInjective`, `MessageInjective`).
* The writers agree. The enclave's loop and BCS's definition give the same length
  prefix (`LengthsWrittenAlike`); the record turned and turned back gives the
  same integers (`EnclaveWritesBcs`); positional arguments and struct fields come
  to the SDK's order (`OnChainAlike`). With these the signed bytes are the SDK's
  and the contract's for the receipt itself.
* `ExchangeInvariant`. The first two parts hold of receipts whose fields have the kinds the
  encoding relies on, so the invariant says that every way out of a handler signs
  such a one (`SignMakesReceipt`, `StepsSign`), that the signature is of this
  receipt, that a record carries this signature, and, as conjuncts of their own, what the
  receipt says of its response and of the upstream request.
* `ResponsesExplain`, `UpstreamBlobsBind` are read off the invariant;
  `HonestRecordsVerify` is the agreement of the writers; `VerifiedReceiptsWereSigned`
  needs all three parts. The lemmas behind it (`VerifiersAgree`, `SignedIsOne`) hold of
  every record whose fields have the right kinds (`Servable`), which is more than
  the host of the model sends, and of names of any length.

`DeploymentProofs`:

* `ChainOfDeployment`. Every step of a deployment is a step of `Verification` or
  invisible to it, so the invariant of the chain holds here as well. Added to it:
  documents are those of boots (`BootInv`); Gateways come from issued documents, and
  events agree with Gateways of the same id (`LinkInv`), which gives
  `EventsFromBootsCorrect`; what the script has printed stays true (`ScriptInv`).
  The last holds because every fact the script reads is one that cannot be taken
  back: a boot's PCRs, the first index of a measurement (which is what the script
  finds if it finds one, `FoundIsMatching`), the key of an id, and, read backwards,
  that an entry not revoked now was not revoked at the start. `PassIsSoundCorrect`
  and `KeyImpliesVersionCorrect` follow. `AlarmsCorrect` has an invariant of its
  own, `AlarmInv`: every `FAIL` has a reason stated in facts that are never taken
  back (no entry seen matches, the first match is revoked, no Gateway of that id has
  the key, a PCR has a text that is misread), so that `ReasonsLast` carries it over
  every step that is not the script's.

Left to TLC:

* liveness (`CallsEnd`, `PermitsReturn`, `HeaderRedeemed`, `DeliveredComesUp`), which
  needs `ENABLED`;
* `RequestBlobBinds`: it compares the canonical form with `asks`, which is data of each
  request and not computed from it. An assumption that relates the two for all requests
  would have to say place by place what the canonical form keeps, which is the property.

## Disagreements between code and documentation

Each is a run whose property is the documented sentence and which TLC refutes.

1. `streams_limit`: "concurrency is bounded by a semaphore" (`server.rs:7`).
   The permit is a local of the handler and a streaming handler returns with the
   response head.
2. `receipt_per_response`: "every inference response yields a receipt"
   (`README.md:83`). Not when the client leaves during a stream.
3. `no_call_honest`: `no_upstream_call` is "for paths where no upstream call is
   ever attempted" (`server.rs:271`). Transport and decode errors after the
   request was sent use it as well.
4. `in_band_error`: mid-stream errors "produce receipts with the right
   `outcome`" (`SPEC.md:140`). An `error` event in a stream that then ends is
   receipted as `Ok`. Both accumulators skip it, the OpenAI one as a chunk without choices.
5. `reinstate`: any enclave that matches "an approved, non-revoked entry may
   register" (`checkpoint.move:63`). Not when an older entry with the same PCRs is
   revoked. Revocation of a measurement is thereby final, which
   `TrustRegistry` takes as the intended meaning.
6. `chunk_cut`: "hash the final assembled message, never the raw SSE byte
   stream; chunk boundaries are explicitly not a content guarantee"
   (`provider-apis.md:177`). Each chunk is decoded by itself with
   `from_utf8_lossy`: a character cut in two is committed as replacement
   characters, while the client receives it intact.

Others have no run of their own; the models follow the code.

* `canonical.rs:75`: the canonical request "includes everything that affects
  generation". Members outside its schema (`seed`, `top_p`, `stop`, a tool's
  `strict`) are dropped, and an OpenAI tool message commits to its text only,
  although parts that are not text are to be kept "rather than silently dropped"
  (`canonical.rs:32`). `Uncommitted` lists the places.
* `SPEC.md:131`: both surfaces "canonicalize into ONE internal request/response
  schema before hashing, so the same logical request yields the same `request_hash`
  regardless of entry surface". Not if it has a system prompt (a message on the
  OpenAI surface, whose `system` is empty; taken out of the messages on the other)
  or a tool result (role `tool` against `user`). `RequestBlobBinds` therefore
  compares requests of one surface.
* `SPEC.md:84`, `canonical.rs:104` and `receipt.ts:44`: the model is "read off the
  response, never the request". A stream that does not name one gets the request's
  (`anthropic.rs:667`, `openai.rs:586`), and so does every error receipt
  (`server.rs:407`), for want of a response. `ResponseExplainsReceipt` says which
  receipts these are.
* `anthropic.rs:173`: the descriptor of a block that is not modelled is "the SHA-256
  of its raw JSON, so any change to unmodeled content still changes the canonical
  hash". In a stream it is of the block's first event: deltas of a thinking block
  fall into the catch-all arm (`anthropic.rs:539`), so two answers that differ in
  their thinking have one hash. `DroppedDelta` is this exception.
* `openai.rs:116`: "the four counters sum to the provider's total token accounting".
  Not when a provider reports more cached than prompt tokens: the subtraction
  saturates (`openai.rs:127`) and the sum is larger than prompt and completion. The
  fifth stream has this usage.
* `provider-apis.md:177` has the hash not depend on framing. Besides `chunk_cut`: an
  OpenAI answer with the text `""` commits to an empty text block in one piece
  (`openai.rs:143`) and to none when streamed (`openai.rs:568`). `SilentText` is
  this exception.
* `verify_deployment.ts:145`: bytes come as base64, as numbers or as hex, "Handle
  all three". A base64 text of hex digits only is read as hex, so the script finds
  "no entry in approved_pcrs" for an approved build whose PCRs are all zero, as
  `make run-eif-debug` makes them. `AlarmsJustified` has this as a reason of its
  own.
* `canonical.rs:17`: the role `Tool` is "synthesized on the Anthropic side from
  `tool_result` content blocks". `message_to_canonical` leaves them in a `user`
  message.
* `types.ts:127`: blob ids and `u64` fields of the record are "decimal strings
  (never JSON numbers)". `StoredReceipt` writes blobs in hex and counters as
  numbers; `HonestRecordVerifies` therefore has a bound.
* `config.rs:15`: `config_hash` is of the policy only, "so key rotation doesn't
  change the attested policy identity and no secret is ever hash-committed". Rules
  name callers by their bearer keys (`policy.rs:36`) and are hashed whole
  (`config.rs:162`), so rotating such a key does change it.
* `run.sh:20` and `send_boot_config.sh:15`: `config_hash` is the hash of the
  delivered file. It is that of the policy document in it (`config.rs:162`).
* `SPEC.md:160` has the configuration come over port 7777; it is 7778.
* `client.ts:47`: events are separated by a blank line, "`\n\n`, or `\r\n\r\n`". The
  search is for `\n\n`, which the other does not contain.

## Not modelled

Cryptography and hash functions; timing, and with it the constant-time comparison of
caller keys; parsing of JSON, of COSE documents and of command lines;
the environment as a source of configuration, which is for development; the image build
and the bridge topology; `verify_vectors`; the SDK's plain request methods;
the viewer, build and CI. The store's poisoned-lock recovery has no case:
no code panics while it holds the lock. Lines ended by CR LF and events that are not
JSON have no case in the stream models.

## Plan

Every part with a state of its own has its model now. What is left, in this order:

1. A theorem that an event on the chain names the model and counters of the response
   whose blob it carries: `ResponseExplainsReceipt` and `VerifiedIsSigned` composed
   with `EventsFromBootsCorrect`, through a module that instantiates both.
2. `extract_bearer` and `identify_caller` as operators in the guard of
   `Policy!Evaluate`, with keys of one configuration that are equal or prefixes of
   each other.
3. Lines ended by CR LF in the stream models, where `parseSSE` and the
   accumulators differ.
