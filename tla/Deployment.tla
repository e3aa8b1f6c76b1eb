----------------------------- MODULE Deployment -----------------------------
(***************************************************************************)
(* Enclave boots and the chain together: the boots behind one gateway URL, *)
(* the attestation documents they hand out, the receipts they sign, the    *)
(* operators who register (scripts/register_enclave.ts) and a run of       *)
(* scripts/verify_deployment.ts, which puts together what it reads of the  *)
(* enclave and of two objects on the chain at three different moments,     *)
(* while enclaves reboot and the chain moves on.                           *)
(*                                                                         *)
(* A key stands for a boot: every start of the process makes a new one.    *)
(***************************************************************************)
EXTENDS Verification

CONSTANTS
  Images,      \* what can be booted, approved or not, by its PCRs
  Published,   \* nitro.pcrs files: the indices they have a well-formed line for
  HexLike,     \* PCRs whose base64 text consists of hex digits only
  Misread      \* such a text read as hex: 32 bytes, which no PCR has

BootDocument(image, key, nonce) ==
  [pcrs |-> image, nonce |-> nonce, public_key |-> key, timestamp |-> 0]

ASSUME DeploymentAssumption ==
  /\ \A i \in Images \cup Measurements : i = [x \in PcrIndices |-> i[x]]
  /\ \A i \in Images, x \in PcrIndices : i[x] # Misread
  /\ \A p \in Published :
       DOMAIN p \subseteq PcrIndices /\ p = [x \in DOMAIN p |-> p[x]]
  /\ Absent \notin Images \cup Published \cup Nat
  /\ \A i \in Images, k \in Keys, n \in Addresses \cup {Absent} :
       BootDocument(i, k, n) \in Documents

VARIABLES
  image,     \* of each boot so far, by its key
  running,   \* the latest boot, or Absent before the first
  issued,    \* history: the documents handed out with a nonce
  stage,     \* how far verify_deployment has come
  question,  \* what it was asked: a published file, a Gateway
  live,      \* the document it fetched
  matched,   \* matchIndex
  results,   \* the lines it has printed
  seen       \* history: approved_pcrs when it was started

bootVars == <<image, running, issued>>
scriptVars == <<stage, question, live, matched, results, seen>>
deployVars == <<vars, bootVars, scriptVars>>

Booted == {k \in Keys : image[k] # Absent}

Shapes == {"base64", "hex", "numbers"}

Question ==
  [published : Published \cup {Absent}, gateway : Nat \cup {Absent}]

Checks == {"fetch", "load", "pcr", "checkpoint", "approved", "code_ref",
           "gateway", "pk", "pcr_version"}
Statuses == {"PASS", "FAIL", "WARN", "SKIP"}
CheckResult == [check : Checks, status : Statuses]

Line(check, status) == [check |-> check, status |-> status]
PassIf(condition) == IF condition THEN "PASS" ELSE "FAIL"
-----------------------------------------------------------------------------
(* The enclave.                                                            *)

(* main: a start of the process, first or not, makes its own key.  The     *)
(* time between two boots, in which nothing answers, needs no state of its *)
(* own: nothing has to be asked, and asking may fail at any time.          *)
BootKeepingKey(key, i) ==                                  \* mutant
  /\ image[key] = Absent \/ key = running
  /\ image' = [image EXCEPT ![key] = i]
  /\ running' = key
  /\ UNCHANGED <<vars, issued, scriptVars>>

Boot(key, i) ==
  /\ image[key] = Absent
  /\ image' = [image EXCEPT ![key] = i]
  /\ running' = key
  /\ UNCHANGED <<vars, issued, scriptVars>>

(* POST /attestation, as register_enclave.ts calls it: anyone may ask for  *)
(* a document bound to any address.  (The chain has no use for a document  *)
(* without a nonce, which Verification has among its documents.)           *)
PostAttestation(nonce) ==
  /\ running # Absent
  /\ issued' = issued \cup {BootDocument(image[running], running, nonce)}
  /\ UNCHANGED <<vars, image, running, scriptVars>>

(* The chain.  A document may be submitted long after it was issued, when  *)
(* its boot is over, by anyone.  So may a receipt; which ones a boot has   *)
(* signed is left open (Gateway has that), so any of a boot may turn up.   *)
Signable == {r \in Receipts : r.signer \in Booted}

ChainStep ==
  /\ \/ (\E m \in Measurements : ApprovePcrs(m)) /\ UNCHANGED events
     \/ (\E v \in Versions : RevokePcrs(v)) /\ UNCHANGED events
     \/ (\E a \in Addresses, d \in issued : Register(a, d)) /\ UNCHANGED events
     \/ (\E a \in Addresses : \E g \in gateways : DestroyGateway(a, g))
        /\ UNCHANGED events
     \/ \E a \in Addresses, r \in Signable : \E g \in gateways : Verify(a, g, r)
  /\ UNCHANGED <<bootVars, scriptVars>>
-----------------------------------------------------------------------------
(* verify_deployment.ts: one action from one await to the next.            *)

(* main to its first await and fetchLiveAttestation.  The script checks    *)
(* neither the document's COSE signature nor its certificate chain: it is  *)
(* assumed here that the gateway's URL leads to the enclave, so that what  *)
(* comes back is a document of the boot that is running.  The caller knows *)
(* ids of Gateways that exist or have existed.  Runs share nothing, so     *)
(* one, started at any moment, stands for all.                             *)
FetchAttestation(q) ==
  /\ stage = "idle"
  /\ running # Absent
  /\ stage' = "fetched"
  /\ question' = q
  /\ live' = BootDocument(image[running], running, Absent)
  /\ results' = {Line("fetch", "PASS")}
  /\ seen' = approved_pcrs
  /\ UNCHANGED <<vars, bootVars, matched>>

FetchFails ==
  /\ stage = "idle"
  /\ stage' = "done"
  /\ results' = {Line("fetch", "FAIL")}
  /\ UNCHANGED <<vars, bootVars, question, live, matched, seen>>

(* comparePcrs, one line per index.                                        *)
PcrStatusLenient(i) ==                                     \* mutant
  PassIf(i \in DOMAIN question.published =>
           live.pcrs[i] = question.published[i])

PcrStatus(i) ==
  PassIf(/\ i \in DOMAIN live.pcrs \cap DOMAIN question.published
         /\ live.pcrs[i] = question.published[i])

ComparePcrs ==
  /\ stage = "fetched"
  /\ stage' = "compared"
  /\ IF question.published = Absent
     THEN results' = results \cup {Line("load", "SKIP")}
     ELSE \/ results' = results \cup {Line("load", "FAIL")}
          \/ results' = results \cup
               {Line("pcr", PcrStatus(i)) : i \in PcrIndices}
  /\ UNCHANGED <<vars, bootVars, question, live, matched, seen>>

(* fieldToHex: a vector<u8> of an object's JSON is a base64 text, a hex    *)
(* text or an array of numbers.  A text is tried as hex first, so a base64 *)
(* one of hex digits only, as that of the all-zero PCRs of a debug-mode    *)
(* enclave, comes out as other bytes.  (A key's 32 bytes never do: their   *)
(* base64 text ends in "=".)                                               *)
FieldToHexOnly(value, shape) ==                            \* mutant
  IF shape = "base64" THEN Misread ELSE value

FieldToHex(value, shape) ==
  IF shape = "base64" /\ value \in HexLike THEN Misread ELSE value

ReadsAs(version, pcrs, shape) ==
  \A i \in PcrIndices : FieldToHex(Entry(version).pcrs[i], shape) = pcrs[i]

Found(pcrs, shape) == {v \in Versions : ReadsAs(v, pcrs, shape)}

(* The loop over approvedPcrs stops at the first entry that reads as the   *)
(* triple: the one find_matching_entry has, if the triple can be read.     *)
MatchIndexLast(pcrs, shape) ==                             \* mutant
  CHOOSE v \in Found(pcrs, shape) : \A w \in Found(pcrs, shape) : w <= v

MatchIndex(pcrs, shape) ==
  CHOOSE v \in Found(pcrs, shape) : \A w \in Found(pcrs, shape) : v <= w

EntryStatus(version) == PassIf(~IsRevoked(version))

(* checkOnChain up to the second getObjects.  What code_ref says is typed  *)
(* by hand at approval: it may match --ref or not.                         *)
ReadCheckpoint(shape) ==
  LET pcrs == MeasurementOf(live) IN
  /\ stage = "compared"
  /\ \/ /\ stage' = "done"            \* no id given, no client; no answer
        /\ \E s \in {"SKIP", "FAIL"} :
             results' = results \cup {Line("checkpoint", s)}
        /\ UNCHANGED matched
     \/ /\ Found(pcrs, shape) = {}
        /\ stage' = "done"
        /\ results' = results \cup {Line("approved", "FAIL")}
        /\ UNCHANGED matched
     \/ /\ Found(pcrs, shape) # {}
        /\ matched' = MatchIndex(pcrs, shape)
        /\ \E s \in {"PASS", "WARN"} :
             results' = results \cup
               {Line("approved", EntryStatus(matched')), Line("code_ref", s)}
               \cup (IF question.gateway = Absent
                     THEN {Line("gateway", "SKIP")} ELSE {})
        /\ stage' = IF question.gateway = Absent THEN "done" ELSE "matched"
  /\ UNCHANGED <<vars, bootVars, question, live, seen>>

KeyStatus(gateway) == PassIf(gateway.pk = live.public_key)

VersionStatus(gateway) == PassIf(gateway.pcr_version = matched)

(* The rest of checkOnChain.  A Gateway destroyed by now cannot be read.   *)
(* The warnings about fields that are missing or of another type than the  *)
(* Move structs give them are left out, here and above.                    *)
ReadGateway ==
  /\ stage = "matched"
  /\ stage' = "done"
  /\ \/ results' = results \cup {Line("fetch", "FAIL")}
     \/ /\ \A g \in gateways : g.id # question.gateway
        /\ results' = results \cup {Line("gateway", "FAIL")}
     \/ \E g \in gateways :
          /\ g.id = question.gateway
          /\ results' = results \cup {Line("pk", KeyStatus(g)),
                                      Line("pcr_version", VersionStatus(g))}
  /\ UNCHANGED <<vars, bootVars, question, live, matched, seen>>

(* printSummary.                                                           *)
Verdict ==
  LET statuses == {r.status : r \in results}
  IN  IF "FAIL" \in statuses THEN "FAIL"
      ELSE IF statuses \cap {"SKIP", "WARN"} # {} THEN "PASS with warnings"
      ELSE "PASS"
-----------------------------------------------------------------------------
DeployInit ==
  /\ Init
  /\ image = [k \in Keys |-> Absent]
  /\ running = Absent
  /\ issued = {}
  /\ stage = "idle"
  /\ question = Absent
  /\ live = Absent
  /\ matched = Absent
  /\ results = {}
  /\ seen = <<>>

DeployNext ==
  \/ \E k \in Keys, i \in Images : Boot(k, i)
  \/ \E n \in Addresses : PostAttestation(n)
  \/ ChainStep
  \/ \E p \in Published \cup {Absent}, g \in 0 .. objects - 1 \cup {Absent} :
       FetchAttestation([published |-> p, gateway |-> g])
  \/ FetchFails
  \/ ComparePcrs
  \/ \E shape \in Shapes : ReadCheckpoint(shape)
  \/ ReadGateway

DeploySpec == DeployInit /\ [][DeployNext]_deployVars

-----------------------------------------------------------------------------
(* The state's types; every document is one of a boot.                     *)
DeployTypeOK ==
  /\ TypeOK
  /\ image \in [Keys -> Images \cup {Absent}]
  /\ running \in Booted \cup {Absent}
  /\ issued \subseteq
       {BootDocument(image[k], k, n) : k \in Booted, n \in Addresses}
  /\ stage \in {"idle", "fetched", "compared", "matched", "done"}
  /\ question \in Question \cup {Absent}
  /\ live \in {BootDocument(image[k], k, Absent) : k \in Booted} \cup {Absent}
  /\ matched \in Versions \cup {Absent}
  /\ results \subseteq CheckResult
  /\ seen \in Seq(PcrSet)

(* A verified receipt was signed by a boot of the very build its event     *)
(* names, and that boot had handed the event's operator a document bound   *)
(* to the operator's address; reboots with other builds, late              *)
(* registrations and Gateways whose boot is over change nothing about it   *)
(* (README: a receipt proves which code relayed the call).                 *)
EventsFromAttestedBoots ==
  \A e \in events :
    /\ image[e.receipt.signer] = Entry(e.pcr_version).pcrs
    /\ BootDocument(image[e.receipt.signer], e.receipt.signer, e.operator)
         \in issued

(* What a plain PASS is worth, whatever happened between its three reads   *)
(* and since: the key it read belongs to a boot of the published build;    *)
(* the Gateway it was asked about has that key, its entry has the          *)
(* published PCRs and was not revoked when the script started; and every   *)
(* receipt ever verified with that Gateway was signed by that boot.  It    *)
(* does not say that this boot is still running.                           *)
PassIsSound ==
  stage = "done" /\ Verdict = "PASS" =>
    /\ image[live.public_key] = question.published
    /\ \A g \in gateways : g.id = question.gateway =>
         /\ g.pk = live.public_key
         /\ Entry(g.pcr_version).pcrs = question.published
         /\ g.pcr_version < Len(seen) => ~seen[g.pcr_version + 1].revoked
    /\ \A e \in events : e.gateway = question.gateway =>
         e.receipt.signer = live.public_key

(* No false alarm: a FAIL that is not one of reading has a reason in the   *)
(* deployment.  The published PCRs are not those of the boot, or no entry  *)
(* had them when the script started, or the first that has them is revoked,*)
(* or the Gateway is gone or is another boot's.  One alarm has no reason   *)
(* in the deployment but in fieldToHex: no entry is found for PCRs one of  *)
(* which has a base64 text that reads as hex.                              *)
AlarmsJustified ==
  stage = "done" /\ Verdict = "FAIL" =>
    LET pcrs == image[live.public_key]
    IN  \/ \E r \in results : r.check \in {"fetch", "load", "checkpoint"}
                              /\ r.status = "FAIL"
        \/ question.published \notin {pcrs, Absent}
        \/ \A i \in DOMAIN seen : seen[i].pcrs # pcrs
        \/ IsRevoked(FindMatchingEntry(pcrs))
        \/ /\ question.gateway # Absent
           /\ \A g \in gateways :
                g.id = question.gateway => g.pk # live.public_key
        \/ /\ Line("approved", "FAIL") \in results
           /\ \E i \in PcrIndices : pcrs[i] \in HexLike

(* If the Gateway has the key that was read, then its version is the index *)
(* the script found, although approvals and reboots may lie between the    *)
(* registration, the reading of the Checkpoint and that of the Gateway:    *)
(* "a mismatch means this Gateway was registered against different code"   *)
(* (verify_deployment.ts).                                                 *)
KeyImpliesVersion ==
  Line("pk", "PASS") \in results => Line("pcr_version", "FAIL") \notin results
=============================================================================
