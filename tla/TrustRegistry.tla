--------------------------- MODULE TrustRegistry ---------------------------
(***************************************************************************)
(* What the chain promises the reader of a receipt, without vectors,       *)
(* indices or objects: each measurement is unknown, approved or revoked,   *)
(* and for good once revoked; only under an approved measurement can an    *)
(* operator be enrolled with a key, or a receipt of such a key be vouched  *)
(* for.  Verification (which see) implements this.                         *)
(***************************************************************************)
CONSTANTS Measurements, Addresses, Keys, Receipts

VARIABLES
  status,     \* of each measurement
  enrolled,   \* who may have receipts vouched for, with which key
  vouched     \* every receipt ever vouched for, and on whose behalf

trVars == <<status, enrolled, vouched>>

Enrolment == [operator : Addresses, pk : Keys, pcrs : Measurements]
Voucher == [operator : Addresses, pcrs : Measurements, receipt : Receipts]

TRInit ==
  /\ status = [m \in Measurements |-> "unknown"]
  /\ enrolled = {}
  /\ vouched = {}

Approve(m) ==
  /\ status[m] = "unknown"
  /\ status' = [status EXCEPT ![m] = "approved"]
  /\ UNCHANGED <<enrolled, vouched>>

Revoke(m) ==
  /\ status[m] = "approved"
  /\ status' = [status EXCEPT ![m] = "revoked"]
  /\ UNCHANGED <<enrolled, vouched>>

Enrol(e) ==
  /\ status[e.pcrs] = "approved"
  /\ enrolled' = enrolled \cup {e}
  /\ UNCHANGED <<status, vouched>>

Withdraw(e) ==
  /\ enrolled' = enrolled \ {e}
  /\ UNCHANGED <<status, vouched>>

Vouch(e, receipt) ==
  /\ e \in enrolled
  /\ status[e.pcrs] = "approved"
  /\ receipt.signer = e.pk
  /\ vouched' = vouched \cup
       {[operator |-> e.operator, pcrs |-> e.pcrs, receipt |-> receipt]}
  /\ UNCHANGED <<status, enrolled>>

TRNext ==
  \/ \E m \in Measurements : Approve(m) \/ Revoke(m)
  \/ \E e \in Enrolment : Enrol(e) \/ Withdraw(e)
  \/ \E e \in Enrolment, r \in Receipts : Vouch(e, r)

TRSpec == TRInit /\ [][TRNext]_trVars
=============================================================================
