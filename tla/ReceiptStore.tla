---------------------------- MODULE ReceiptStore ----------------------------
(***************************************************************************)
(* The in-memory ring of signed receipts (receipt.rs, ReceiptStore): new   *)
(* receipts at the back, the oldest evicted at the front when it is full,  *)
(* and a lookup by receipt id that the newest match wins.  Each operation  *)
(* holds the lock for its whole length, so operators are enough.           *)
(***************************************************************************)
EXTENDS Integers, Sequences

CONSTANTS
  Capacity,   \* receipt_ring_buffer_size of the boot config
  NotFound    \* None: the route answers 404

ASSUME CapacityAssumption == Capacity \in Nat

(* A configured size of zero is taken for one.                             *)
Cap == IF Capacity = 0 THEN 1 ELSE Capacity

Insert(entries, receipt) ==
  Append(IF Len(entries) >= Cap THEN Tail(entries) ELSE entries, receipt)

Hits(entries, id) == {i \in DOMAIN entries : entries[i].id = id}

GetOldest(entries, id) ==                                  \* mutant
  IF Hits(entries, id) = {} THEN NotFound
  ELSE entries[CHOOSE i \in Hits(entries, id) :
                 \A j \in Hits(entries, id) : i <= j]

Get(entries, id) ==
  IF Hits(entries, id) = {} THEN NotFound
  ELSE entries[CHOOSE i \in Hits(entries, id) :
                 \A j \in Hits(entries, id) : j <= i]
=============================================================================
