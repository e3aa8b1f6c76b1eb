--------------------------- MODULE SignedMessage ---------------------------
(***************************************************************************)
(* The message a receipt's signature covers, written three times over: by  *)
(* hand in the enclave (receipt.rs), from a schema in the SDK (receipt.ts) *)
(* and by bcs::to_bytes on chain (receipt.move).  Between the first and    *)
(* the others lies the JSON of GET /receipts/{id}.                         *)
(*                                                                         *)
(* The code is parametric in its radix: bytes are digits below 2 * Base,   *)
(* a length prefix has Base values to a byte, Base being 128.  A hash of   *)
(* 32 bytes is two bytes here, its first and its last.                     *)
(***************************************************************************)
EXTENDS Integers, Sequences, SequencesExt

CONSTANTS
  Base,       \* 128: values in one byte of a length prefix
  U64Bytes,   \* 8: bytes in a u64
  MaxSafe     \* 2^53 - 1: the integers a JSON parser in JavaScript keeps

Power(base) ==
  LET power[k \in Nat] == IF k = 0 THEN 1 ELSE base * power[k - 1]
  IN  power

ASSUME SignedMessageAssumption ==
  /\ Base \in Nat \ {0, 1} /\ U64Bytes \in Nat \ {0}
  /\ MaxSafe \in Nat /\ MaxSafe < Power(2 * Base)[U64Bytes]

Byte(n) == [byte |-> n]
HashBytes(hash) == << [first |-> hash], [last |-> hash] >>
ZeroHash == <<Byte(0), Byte(0)>>
U64 == 0 .. Power(2 * Base)[U64Bytes] - 1

(* The types of the fields, which the three agree on.                      *)
Counters == {"input_tokens", "cache_creation_tokens", "cache_read_tokens",
             "output_tokens"}
Numbers == Counters \cup {"timestamp_ms"}
Blobs == {"request_blob", "upstream_request_blob", "response_blob"}

Kind(field) ==
  CASE field \in {"provider", "outcome"} -> "u8"
    [] field \in Numbers -> "u64"
    [] field \in Blobs -> "u256"
    [] OTHER -> "sequence"

LittleEndian(n) ==
  [i \in 1 .. U64Bytes |-> Byte((n \div Power(2 * Base)[i - 1]) % (2 * Base))]

-----------------------------------------------------------------------------
(* The enclave.  write_uleb128: seven bits a byte, the eighth saying that  *)
(* more follow.                                                            *)
WriteUleb128[n \in Nat] ==
  IF n < Base THEN <<Byte(n)>>
  ELSE <<Byte(Base + (n % Base))>> \o WriteUleb128[n \div Base]

Write(kind, value) ==
  CASE kind = "u8"     -> <<Byte(value)>>
    [] kind = "u64"    -> LittleEndian(value)
    [] kind = "u256"   -> value
    [] OTHER           -> WriteUleb128[Len(value)] \o value

EnclaveFieldsRepeated ==                                   \* mutant
  <<"timestamp_ms", "receipt_id", "config_hash", "provider", "endpoint_host",
    "tls_cert_sha256", "request_blob", "request_blob",
    "upstream_headers_hash", "model_id", "provider_request_id",
    "response_blob", "provider_meta_hash", "input_tokens",
    "cache_creation_tokens", "cache_read_tokens", "output_tokens", "outcome">>

(* serialize_intent_message, after the intent byte.                        *)
EnclaveFields ==
  <<"timestamp_ms", "receipt_id", "config_hash", "provider", "endpoint_host",
    "tls_cert_sha256", "request_blob", "upstream_request_blob",
    "upstream_headers_hash", "model_id", "provider_request_id",
    "response_blob", "provider_meta_hash", "input_tokens",
    "cache_creation_tokens", "cache_read_tokens", "output_tokens", "outcome">>

SerializeIntentMessage(receipt) ==
  <<Byte(0)>> \o FlattenSeq([i \in DOMAIN EnclaveFields |->
     Write(Kind(EnclaveFields[i]), receipt[EnclaveFields[i]])])

(* StoredReceipt: every field that is bytes in hex, which is to say its    *)
(* bytes in the order they have; numbers as JSON numbers.                  *)
StoredReceipt(receipt, signature) ==
  [fields |-> receipt, signature |-> signature]

-----------------------------------------------------------------------------
(* The client.  res.json() makes doubles of numbers: beyond MaxSafe only   *)
(* even ones are left, and ties go to the even half.                       *)
JsonNumber(n) ==
  IF n <= MaxSafe THEN n ELSE IF n % 4 = 3 THEN n + 1 ELSE n - (n % 2)

ParseBlobIdBigEndian(bytes) == bytes                       \* mutant

(* parseBlobId: the u256 of little-endian bytes, as its digits from the    *)
(* most significant.                                                       *)
ParseBlobId(bytes) == Reverse(bytes)

(* The Receipt of receipt.ts, as e2e_demo.ts makes it from the record.     *)
Decoded(record) ==
  [f \in DOMAIN record.fields |->
     CASE f \in Numbers -> JsonNumber(record.fields[f])
       [] f \in Blobs   -> ParseBlobId(record.fields[f])
       [] OTHER         -> record.fields[f]]

(* BCS, by @mysten/bcs and by Move: a length is written in the fewest      *)
(* digits that hold it, an integer in little-endian order.                 *)
Digits(n) ==
  CHOOSE k \in 1 .. n + 1 :
    n < Power(Base)[k] /\ \A j \in 1 .. k - 1 : Power(Base)[j] <= n

BcsLength(n) ==
  [i \in 1 .. Digits(n) |->
     Byte(((n \div Power(Base)[i - 1]) % Base)
            + (IF i < Digits(n) THEN Base ELSE 0))]

Bcs(kind, value) ==
  CASE kind = "u8"   -> <<Byte(value)>>
    [] kind = "u64"  -> LittleEndian(value)
    [] kind = "u256" -> Reverse(value)
    [] OTHER         -> BcsLength(Len(value)) \o value

(* IntentMessageReceipt, the SDK's schema.                                 *)
SdkFields ==
  <<"timestamp_ms", "receipt_id", "config_hash", "provider", "endpoint_host",
    "tls_cert_sha256", "request_blob", "upstream_request_blob",
    "upstream_headers_hash", "model_id", "provider_request_id",
    "response_blob", "provider_meta_hash", "input_tokens",
    "cache_creation_tokens", "cache_read_tokens", "output_tokens", "outcome">>

SerializeReceipt(receipt) ==
  <<Byte(0)>> \o FlattenSeq([i \in DOMAIN SdkFields |->
     Bcs(Kind(SdkFields[i]), receipt[SdkFields[i]])])

(* A u64 that is too large is refused by both builders.                    *)
Encodable(receipt) == \A f \in Numbers : receipt[f] \in U64

(* verifyReceipt, with the key that signed: a signature is good for the    *)
(* bytes it was made over.                                                 *)
VerifyReceipt(record) ==
  /\ Encodable(Decoded(record))
  /\ SerializeReceipt(Decoded(record)) = record.signature

(* buildVerifyTransaction: new_receipt is called by position, and the      *)
(* struct's fields are serialised in their order within the IntentMessage. *)
NewReceiptArguments ==
  <<"receipt_id", "config_hash", "provider", "endpoint_host",
    "tls_cert_sha256", "request_blob", "upstream_request_blob",
    "upstream_headers_hash", "model_id", "provider_request_id",
    "response_blob", "provider_meta_hash", "input_tokens",
    "cache_creation_tokens", "cache_read_tokens", "output_tokens", "outcome">>

MoveFields ==
  <<"receipt_id", "config_hash", "provider", "endpoint_host",
    "tls_cert_sha256", "request_blob", "upstream_request_blob",
    "upstream_headers_hash", "model_id", "provider_request_id",
    "response_blob", "provider_meta_hash", "input_tokens",
    "cache_creation_tokens", "cache_read_tokens", "output_tokens", "outcome">>

VerifyOnChain(record) ==
  LET receipt == Decoded(record)
      field(i) == Bcs(Kind(MoveFields[i]), receipt[NewReceiptArguments[i]])
  IN  Encodable(receipt) /\ record.signature =
        <<Byte(0)>> \o LittleEndian(receipt.timestamp_ms)
          \o FlattenSeq([i \in DOMAIN MoveFields |-> field(i)])
=============================================================================
