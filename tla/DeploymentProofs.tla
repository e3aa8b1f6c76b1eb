-------------------------- MODULE DeploymentProofs --------------------------
(***************************************************************************)
(* Theorems about deployments, for any number of boots, builds, operators, *)
(* approvals and registrations.                                            *)
(*                                                                         *)
(* The argument: as far as the chain can see, a deployment is a behaviour  *)
(* of Verification (ChainOfDeployment), so what VerificationProofs has     *)
(* proved holds here.  What is new are two links: from a Gateway to the    *)
(* boot that issued its document (LinkInv), and from what the script has   *)
(* printed to the chain as it has become since (ScriptInv).                *)
(***************************************************************************)
EXTENDS Deployment, VerificationProofs

(* The enclave's part of the state.                                        *)
BootInv ==
  /\ image \in [Keys -> Images \cup {Absent}]
  /\ running \in Booted \cup {Absent}
  /\ issued \subseteq
       {BootDocument(image[k], k, n) : k \in Booted, n \in Addresses}

(* A boot's document names the boot and carries its PCRs.                  *)
LEMMA BootDocuments ==
  ASSUME BootInv, NEW k \in Booted, NEW n \in Addresses \cup {Absent}
  PROVE  LET d == BootDocument(image[k], k, n)
         IN  /\ d \in Documents
             /\ d.public_key = k /\ d.nonce = n /\ d.pcrs = image[k]
             /\ image[k] \in Images
             /\ MeasurementOf(d) = image[k]
<1>1. image[k] \in Images /\ k \in Keys
  BY DEF BootInv, Booted
<1>2. image[k] = [x \in PcrIndices |-> image[k][x]]
  BY <1>1, DeploymentAssumption
<1>3. BootDocument(image[k], k, n) \in Documents
  BY <1>1, DeploymentAssumption
<1> QED BY <1>1, <1>2, <1>3 DEF BootDocument, MeasurementOf

(* A boot stays what it was.                                               *)
LEMMA BootsKept ==
  ASSUME BootInv, [DeployNext]_deployVars
  PROVE  /\ \A k \in Booted : k \in Booted' /\ image'[k] = image[k]
         /\ issued \subseteq issued'
<1>1. CASE UNCHANGED bootVars
  BY <1>1 DEF bootVars, Booted
<1>2. ASSUME NEW k \in Keys, NEW i \in Images, Boot(k, i)
      PROVE  /\ \A j \in Booted : j \in Booted' /\ image'[j] = image[j]
             /\ issued \subseteq issued'
  BY <1>2 DEF Boot, BootInv, Booted
<1>3. ASSUME NEW n \in Addresses, PostAttestation(n)
      PROVE  /\ \A j \in Booted : j \in Booted' /\ image'[j] = image[j]
             /\ issued \subseteq issued'
  BY <1>3 DEF PostAttestation, Booted
<1>4. \/ UNCHANGED bootVars
      \/ \E k \in Keys, i \in Images : Boot(k, i)
      \/ \E n \in Addresses : PostAttestation(n)
  BY DEF DeployNext, deployVars, ChainStep, FetchAttestation, FetchFails,
         ComparePcrs, ReadCheckpoint, ReadGateway
<1> QED BY <1>1, <1>2, <1>3, <1>4

(* Booting makes a new key and issuing makes a document of the latest boot. *)
LEMMA BootInvStep == BootInv /\ [DeployNext]_deployVars => BootInv'
<1> SUFFICES ASSUME BootInv, [DeployNext]_deployVars
             PROVE  BootInv'
  OBVIOUS
<1>1. CASE UNCHANGED bootVars
  BY <1>1 DEF bootVars, BootInv, Booted
<1>2. ASSUME NEW k \in Keys, NEW i \in Images, Boot(k, i)
      PROVE  BootInv'
  <2>1. /\ image' = [image EXCEPT ![k] = i] /\ image[k] = Absent
        /\ running' = k /\ issued' = issued
    BY <1>2 DEF Boot
  <2>2. i # Absent
    BY DeploymentAssumption
  <2>3. image' \in [Keys -> Images \cup {Absent}] /\ k \in Booted'
    BY <2>1, <2>2 DEF BootInv, Booted
  <2>4. issued' \subseteq
          {BootDocument(image'[j], j, n) : j \in Booted', n \in Addresses}
    BY <2>1, BootsKept DEF BootInv
  <2> QED BY <2>1, <2>3, <2>4 DEF BootInv
<1>3. ASSUME NEW n \in Addresses, PostAttestation(n)
      PROVE  BootInv'
  <2>1. /\ running \in Booted /\ image' = image /\ running' = running
        /\ issued' = issued \cup {BootDocument(image[running], running, n)}
    BY <1>3 DEF PostAttestation, BootInv
  <2>2. Booted' = Booted
    BY <2>1 DEF Booted
  <2> QED BY <2>1, <2>2 DEF BootInv
<1>4. \/ UNCHANGED bootVars
      \/ \E k \in Keys, i \in Images : Boot(k, i)
      \/ \E n \in Addresses : PostAttestation(n)
  BY DEF DeployNext, deployVars, ChainStep, FetchAttestation, FetchFails,
         ComparePcrs, ReadCheckpoint, ReadGateway
<1> QED BY <1>1, <1>2, <1>3, <1>4

(* Every document ever issued is one of a boot, with that boot's PCRs.     *)
THEOREM BootInvariant == DeploySpec => []BootInv
<1>1. DeployInit => BootInv
  BY DEF DeployInit, BootInv
<1> QED BY <1>1, BootInvStep, PTL DEF DeploySpec
-----------------------------------------------------------------------------
(* Every step is one of the chain as Verification has it, or invisible to  *)
(* it.                                                                     *)
LEMMA ChainSteps == BootInv /\ [DeployNext]_deployVars => [Next]_vars
<1> SUFFICES ASSUME BootInv, [DeployNext]_deployVars
             PROVE  [Next]_vars
  OBVIOUS
<1>1. CASE ChainStep
  <2>1. issued \subseteq Documents
    BY BootDocuments DEF BootInv
  <2>2. Signable \subseteq Receipts
    BY DEF Signable
  <2> QED BY <1>1, <2>1, <2>2 DEF ChainStep, Next
<1>2. CASE ~ChainStep
  BY <1>2 DEF DeployNext, deployVars, Boot, PostAttestation,
     FetchAttestation, FetchFails, ComparePcrs, ReadCheckpoint, ReadGateway
<1> QED BY <1>1, <1>2

(* To the chain a deployment is a behaviour of Verification: every theorem *)
(* about the chain is one about deployments.                               *)
THEOREM ChainOfDeployment == DeploySpec => Spec
<1>1. DeployInit => Init
  BY DEF DeployInit
<1> QED BY <1>1, ChainSteps, BootInvariant, PTL DEF DeploySpec, Spec

(* The invariant of the chain (VerificationProofs) holds in deployments.   *)
COROLLARY ChainInvInDeployment == DeploySpec => []ChainInv
BY ChainOfDeployment, ChainInvariant, PTL
-----------------------------------------------------------------------------
(* Every Gateway was registered with a document some boot had issued, and  *)
(* every event leads to such a document: the inductive form of             *)
(* EventsFromAttestedBoots.                                                *)
GatewaysIssued == \A g \in gateways : g.document \in issued

(* Events and Gateways with one id agree on key and version, and ids are   *)
(* never used twice: what has been verified with a Gateway that is gone    *)
(* stays what it was.                                                      *)
EventsOfGateway ==
  \A e \in events :
    /\ e.gateway < objects
    /\ \A g \in gateways : g.id = e.gateway => e.receipt.signer = g.pk

LinkInv == GatewaysIssued /\ EventsFromAttestedBoots /\ EventsOfGateway

(* A Gateway's key is that of a boot, its version that boot's build.       *)
LEMMA GatewayBoot ==
  ASSUME BootInv, ChainInv, GatewaysIssued, NEW g \in gateways
  PROVE  /\ g.pk \in Booted
         /\ g.document = BootDocument(image[g.pk], g.pk, g.operator)
         /\ g.pcr_version \in Versions
         /\ Entry(g.pcr_version).pcrs = image[g.pk]
         /\ g.pcr_version = FindMatchingEntry(image[g.pk])
<1>1. PICK k \in Booted, n \in Addresses :
        g.document = BootDocument(image[k], k, n)
  BY DEF GatewaysIssued, BootInv
<1>2. /\ g.document.public_key = k /\ g.document.nonce = n
      /\ MeasurementOf(g.document) = image[k]
  BY <1>1, BootDocuments
<1>3. k = g.pk /\ n = g.operator
  BY <1>2 DEF ChainInv, GatewaysAttested
<1>4. /\ g.pcr_version \in Versions
      /\ Entry(g.pcr_version).pcrs = MeasurementOf(g.document)
  BY GatewayVersion DEF ChainInv
<1>5. g.pcr_version = FindMatchingEntry(MeasurementOf(g.document))
  BY DEF ChainInv, VersionNamesMeasurement
<1> QED BY <1>1, <1>2, <1>3, <1>4, <1>5

(* A Gateway that a step of the deployment adds is registered with an      *)
(* issued document, and takes a fresh id.                                  *)
LEMMA RegisteredInDeployment ==
  ASSUME [DeployNext]_deployVars, NEW g \in gateways', g \notin gateways
  PROVE  /\ g.document \in issued
         /\ g.id = objects /\ objects' = objects + 1
         /\ UNCHANGED events
<1>1. ChainStep
  BY DEF DeployNext, deployVars, vars, cpVars, Boot, PostAttestation,
         FetchAttestation, FetchFails, ComparePcrs, ReadCheckpoint, ReadGateway
<1>2. PICK a \in Addresses, d \in issued : Register(a, d) /\ UNCHANGED events
  BY <1>1 DEF ChainStep, ApprovePcrs, RevokePcrs, DestroyGateway, Verify, cpVars
<1> QED BY <1>2 DEF Register

(* Object ids are handed out in increasing order.                          *)
LEMMA ObjectsGrow ==
  ASSUME TypeOK, [Next]_vars
  PROVE  objects \in Nat /\ objects' \in Nat /\ objects <= objects'
<1>1. \/ objects' = objects
      \/ objects' = objects + 1
  BY DEF Next, ApprovePcrs, RevokePcrs, Register, DestroyGateway, Verify,
         vars, cpVars
<1> QED BY <1>1 DEF TypeOK

(* Registering takes an issued document, and verifying a key of a Gateway. *)
LEMMA LinkInvStep ==
  ASSUME BootInv, ChainInv, LinkInv, [DeployNext]_deployVars
  PROVE  LinkInv'
<1> USE DEF LinkInv
<1>1. [Next]_vars /\ TypeOK
  BY ChainSteps DEF ChainInv
<1>2. GatewaysIssued'
  <2> SUFFICES ASSUME NEW g \in gateways'
               PROVE  g.document \in issued'
    BY DEF GatewaysIssued
  <2>1. CASE g \in gateways
    BY <2>1, BootsKept DEF GatewaysIssued
  <2>2. CASE g \notin gateways
    BY <2>2, RegisteredInDeployment, BootsKept
  <2> QED BY <2>1, <2>2
<1>3. ASSUME NEW e \in events', e \notin events
      PROVE  /\ image[e.receipt.signer] = Entry(e.pcr_version).pcrs
             /\ e.receipt.signer \in Booted
             /\ e.pcr_version \in Versions
             /\ BootDocument(image[e.receipt.signer], e.receipt.signer,
                             e.operator) \in issued
             /\ e.gateway < objects
             /\ UNCHANGED cpVars
             /\ \A g \in gateways : g.id = e.gateway => e.receipt.signer = g.pk
  <2>1. PICK g \in gateways, r \in Receipts :
          /\ r.signer = g.pk
          /\ e.gateway = g.id /\ e.operator = g.operator
          /\ e.pcr_version = g.pcr_version /\ e.receipt = r
    BY <1>1, <1>3, NewEvents
  <2>2. UNCHANGED cpVars
    BY <1>1, <1>3, NewEvents
  <2>3. /\ g.pk \in Booted
        /\ g.document = BootDocument(image[g.pk], g.pk, g.operator)
        /\ g.pcr_version \in Versions
        /\ Entry(g.pcr_version).pcrs = image[g.pk]
    BY GatewayBoot
  <2>4. g.document \in issued
    BY DEF GatewaysIssued
  <2>5. g.id < objects /\ \A h \in gateways : h.id = g.id => h = g
    BY <1>1 DEF TypeOK
  <2> QED BY <2>1, <2>2, <2>3, <2>4, <2>5
<1>4. EventsFromAttestedBoots'
  <2> SUFFICES ASSUME NEW e \in events'
               PROVE  /\ image'[e.receipt.signer] = Entry(e.pcr_version)'.pcrs
                      /\ BootDocument(image'[e.receipt.signer],
                                      e.receipt.signer, e.operator) \in issued'
    BY DEF EventsFromAttestedBoots
  <2>1. /\ image[e.receipt.signer] = Entry(e.pcr_version).pcrs
        /\ BootDocument(image[e.receipt.signer], e.receipt.signer, e.operator)
             \in issued
        /\ e.pcr_version \in Versions
    <3>1. CASE e \in events
      BY <3>1 DEF EventsFromAttestedBoots, ChainInv, EventsAttested
    <3> QED BY <3>1, <1>3
  <2>2. e.receipt.signer \in Booted
    <3>1. PICK k \in Booted, n \in Addresses :
            BootDocument(image[e.receipt.signer], e.receipt.signer, e.operator)
              = BootDocument(image[k], k, n)
      BY <2>1 DEF BootInv
    <3> QED BY <3>1 DEF BootDocument
  <2>3. Entry(e.pcr_version)'.pcrs = Entry(e.pcr_version).pcrs
    BY <1>1, <2>1, EntriesKept
  <2> QED BY <2>1, <2>2, <2>3, BootsKept
<1>5. EventsOfGateway'
  <2> SUFFICES ASSUME NEW e \in events'
               PROVE  /\ e.gateway < objects'
                      /\ \A g \in gateways' :
                           g.id = e.gateway => e.receipt.signer = g.pk
    BY DEF EventsOfGateway
  <2>1. CASE e \notin events
    BY <2>1, <1>3 DEF cpVars
  <2>2. CASE e \in events
    <3>1. e.gateway < objects /\ e.gateway \in Nat
      BY <2>2, <1>1 DEF EventsOfGateway, TypeOK, Event
    <3>2. e.gateway < objects'
      BY <3>1, <1>1, ObjectsGrow
    <3>3. ASSUME NEW g \in gateways', g.id = e.gateway
          PROVE  g \in gateways
      BY <3>1, <3>3, <1>1, ObjectsGrow, RegisteredInDeployment
    <3> QED BY <2>2, <3>2, <3>3 DEF EventsOfGateway
  <2> QED BY <2>1, <2>2
<1> QED BY <1>2, <1>4, <1>5

(* Gateways and events stay linked to the boots they came from.            *)
THEOREM LinkInvariant == DeploySpec => []LinkInv
<1>1. DeployInit => LinkInv
  BY DEF DeployInit, Init, CheckpointInit, LinkInv, GatewaysIssued,
         EventsFromAttestedBoots, EventsOfGateway
<1> QED BY <1>1, LinkInvStep, BootInvariant, ChainInvInDeployment, PTL
        DEF DeploySpec

(* A verified receipt was signed by a boot of the build its event names,   *)
(* and that boot was attested for the event's operator.                    *)
THEOREM EventsFromBootsCorrect == DeploySpec => []EventsFromAttestedBoots
BY LinkInvariant, PTL DEF LinkInv
-----------------------------------------------------------------------------
(* The script.  What it has in hand at each stage.                         *)
LiveDocuments == {BootDocument(image[k], k, Absent) : k \in Booted}

ScriptTypes ==
  /\ stage \in {"idle", "fetched", "compared", "matched", "done"}
  /\ question \in Question \cup {Absent}
  /\ live \in LiveDocuments \cup {Absent}
  /\ matched \in Versions \cup {Absent}
  /\ results \subseteq CheckResult
  /\ seen \in Seq(PcrSet)

(* What was there when the script started is there, and what was revoked   *)
(* is revoked.                                                             *)
SeenKept ==
  /\ Len(seen) <= Len(approved_pcrs)
  /\ \A v \in Versions : v < Len(seen) =>
       /\ seen[v + 1].pcrs = Entry(v).pcrs
       /\ seen[v + 1].revoked => IsRevoked(v)

AllPass == \A r \in results : r.status = "PASS"

GatewayUnread == \A r \in results : r.check \notin {"pk", "pcr_version"}

(* Before the Gateway is read no line speaks of it.                        *)
LEMMA UnreadAgrees == GatewayUnread' => KeyImpliesVersion'
BY DEF GatewayUnread, KeyImpliesVersion, Line

Underway ==
  stage \in {"fetched", "compared", "matched"} =>
    /\ live \in LiveDocuments
    /\ question \in Question
    /\ question.gateway # Absent => question.gateway < objects
    /\ GatewayUnread

(* The file agreed in all three PCRs, if nothing but PASS was printed.     *)
PublishedAgrees ==
  /\ stage = "fetched" => results = {Line("fetch", "PASS")}
  /\ stage \in {"compared", "matched"} /\ AllPass =>
       question.published = live.pcrs

(* The index found is the one register would find, still, and was not      *)
(* revoked at the start if nothing but PASS was printed.                   *)
MatchAgrees ==
  stage = "matched" =>
    /\ question.gateway \in Nat
    /\ Matching(live.pcrs) # {}
    /\ matched = FindMatchingEntry(live.pcrs)
    /\ AllPass => (matched < Len(seen) => ~seen[matched + 1].revoked)

Sound ==
  stage = "done" /\ AllPass =>
    /\ live \in LiveDocuments
    /\ question.published = live.pcrs
    /\ question.gateway \in Nat /\ question.gateway < objects
    /\ \A g \in gateways : g.id = question.gateway =>
         /\ g.pk = live.public_key
         /\ g.pcr_version < Len(seen) => ~seen[g.pcr_version + 1].revoked
    /\ \A e \in events : e.gateway = question.gateway =>
         e.receipt.signer = live.public_key

ScriptInv ==
  /\ ScriptTypes
  /\ SeenKept
  /\ stage = "idle" => results = {}
  /\ Underway
  /\ PublishedAgrees
  /\ MatchAgrees
  /\ Sound
  /\ KeyImpliesVersion

(* The document that was fetched carries its boot's PCRs.                  *)
LEMMA LiveDocument ==
  ASSUME BootInv, live \in LiveDocuments
  PROVE  /\ live.public_key \in Booted
         /\ live.pcrs = image[live.public_key]
         /\ live.pcrs = MeasurementOf(live)
         /\ live.pcrs \in Images
BY BootDocuments DEF LiveDocuments

(* What the rest of the world does takes nothing away from the script.     *)
LEMMA ScriptUnmoved ==
  ASSUME BootInv, ChainInv, LinkInv, ScriptInv, [DeployNext]_deployVars,
         UNCHANGED scriptVars
  PROVE  ScriptInv'
<1> USE DEF scriptVars
<1>1. [Next]_vars /\ TypeOK
  BY ChainSteps DEF ChainInv
<1>2. LiveDocuments \subseteq LiveDocuments'
  BY BootsKept DEF LiveDocuments
<1>3. Versions \subseteq Versions'
  BY <1>1, EntriesKept
<1>4. objects \in Nat /\ objects' \in Nat /\ objects <= objects'
  BY <1>1, ObjectsGrow
<1>5. ScriptTypes'
  BY <1>2, <1>3 DEF ScriptInv, ScriptTypes
<1>6. SeenKept'
  <2>1. Len(seen) \in Nat
    BY DEF ScriptInv, ScriptTypes
  <2>2. ASSUME NEW v \in Versions', v < Len(seen)
        PROVE  v \in Versions
    BY <2>1, <2>2, <1>1, EntriesKept DEF ScriptInv, SeenKept, Versions
  <2>3. Len(seen) <= Len(approved_pcrs)'
    BY <2>1, <1>1, EntriesKept DEF ScriptInv, SeenKept
  <2> QED BY <2>2, <2>3, <1>1, EntriesKept DEF ScriptInv, SeenKept
<1>7. Underway'
  BY <1>2, <1>4 DEF ScriptInv, Underway, Question, GatewayUnread
<1>8. PublishedAgrees'
  BY DEF ScriptInv, PublishedAgrees, AllPass
<1>9. MatchAgrees'
  BY <1>1, FirstEntryStays DEF ScriptInv, MatchAgrees, AllPass
<1>10. Sound'
  <2> SUFFICES ASSUME stage = "done", AllPass
               PROVE  /\ live \in LiveDocuments'
                      /\ question.published = live.pcrs
                      /\ question.gateway \in Nat /\ question.gateway < objects'
                      /\ \A g \in gateways' : g.id = question.gateway =>
                           /\ g.pk = live.public_key
                           /\ g.pcr_version < Len(seen) =>
                                ~seen[g.pcr_version + 1].revoked
                      /\ \A e \in events' : e.gateway = question.gateway =>
                           e.receipt.signer = live.public_key
    BY DEF Sound, AllPass
  <2> USE DEF ScriptInv, Sound
  <2>1. question.gateway \in Nat /\ question.gateway < objects
    OBVIOUS
  <2>2. ASSUME NEW g \in gateways', g.id = question.gateway
        PROVE  g \in gateways
    BY <2>1, <2>2, <1>4, RegisteredInDeployment
  <2>3. ASSUME NEW e \in events', e.gateway = question.gateway
        PROVE  e.receipt.signer = live.public_key
    <3>1. CASE e \in events
      BY <2>3, <3>1
    <3>2. CASE e \notin events
      BY <1>1, <2>3, <3>2, NewEvents
    <3> QED BY <3>1, <3>2
  <2> QED BY <2>1, <2>2, <2>3, <1>2, <1>4
<1>11. KeyImpliesVersion'
  BY DEF ScriptInv, KeyImpliesVersion
<1> QED BY <1>5, <1>6, <1>7, <1>8, <1>9, <1>10, <1>11 DEF ScriptInv

(* The four steps of the script; each leaves the world as it is.           *)
LEMMA FetchStep ==
  ASSUME BootInv, ChainInv, ScriptInv,
         NEW p \in Published \cup {Absent},
         NEW i \in 0 .. objects - 1 \cup {Absent},
         FetchAttestation([published |-> p, gateway |-> i])
  PROVE  ScriptInv'
<1> DEFINE q == [published |-> p, gateway |-> i]
<1>1. /\ stage' = "fetched" /\ question' = q /\ matched' = matched
      /\ live' = BootDocument(image[running], running, Absent)
      /\ results' = {Line("fetch", "PASS")}
      /\ seen' = approved_pcrs
      /\ UNCHANGED <<vars, bootVars>>
  BY DEF FetchAttestation
<1>2. objects \in Nat /\ approved_pcrs \in Seq(PcrSet)
  BY DEF ChainInv, TypeOK
<1>3. q \in Question /\ (q.gateway # Absent => q.gateway < objects)
  BY <1>2, DeploymentAssumption DEF Question
<1>4. live' \in LiveDocuments /\ LiveDocuments' = LiveDocuments
  BY <1>1 DEF FetchAttestation, BootInv, LiveDocuments, bootVars, Booted
<1>5. /\ Versions' = Versions /\ objects' = objects
      /\ approved_pcrs' = approved_pcrs
  BY <1>1 DEF vars, cpVars, Versions
<1>6. Line("fetch", "PASS") \in CheckResult
      /\ Line("fetch", "PASS").check \notin {"pk", "pcr_version"}
  BY DEF Line, CheckResult, Checks, Statuses
<1> HIDE DEF q
<1>7. ScriptTypes'
  BY <1>1, <1>2, <1>3, <1>4, <1>5, <1>6 DEF ScriptInv, ScriptTypes
<1>8. SeenKept'
  BY <1>1, <1>2, <1>5 DEF SeenKept, Versions, IsRevoked, Entry
<1>9. GatewayUnread'
  BY <1>1, <1>6 DEF GatewayUnread
<1>10. Underway'
  BY <1>1, <1>3, <1>4, <1>5, <1>9 DEF Underway
<1>11. PublishedAgrees' /\ MatchAgrees' /\ Sound' /\ KeyImpliesVersion'
  BY <1>1, <1>9, UnreadAgrees DEF PublishedAgrees, MatchAgrees, Sound
<1> QED BY <1>1, <1>7, <1>8, <1>10, <1>11 DEF ScriptInv

(* What a step of the script cannot disturb.                               *)
LEMMA WorldUnmoved ==
  ASSUME ScriptInv, UNCHANGED <<vars, bootVars, question, live, seen>>
  PROVE  /\ SeenKept' /\ LiveDocuments' = LiveDocuments
         /\ live' \in LiveDocuments' \cup {Absent}
         /\ question' \in Question \cup {Absent}
         /\ seen' \in Seq(PcrSet)
         /\ Versions' = Versions /\ objects' = objects
         /\ gateways' = gateways /\ events' = events
         /\ \A m : Matching(m)' = Matching(m)
         /\ \A m : FindMatchingEntry(m)' = FindMatchingEntry(m)
<1>1. /\ approved_pcrs' = approved_pcrs /\ gateways' = gateways
      /\ objects' = objects /\ events' = events
      /\ image' = image
  BY DEF vars, cpVars, bootVars
<1>2. LiveDocuments' = LiveDocuments
  BY <1>1 DEF LiveDocuments, Booted
<1>3. Versions' = Versions /\ \A m : Matching(m)' = Matching(m)
  BY <1>1 DEF Versions, Matching, Entry
<1>4. \A m : FindMatchingEntry(m)' = FindMatchingEntry(m)
  BY <1>1, <1>3 DEF FindMatchingEntry
<1>5. SeenKept'
  BY <1>1, <1>3 DEF ScriptInv, SeenKept, IsRevoked, Entry
<1> QED BY <1>1, <1>2, <1>3, <1>4, <1>5 DEF ScriptInv, ScriptTypes

(* A script that cannot fetch the document ends with a FAIL.              *)
LEMMA FetchFailsStep ==
  ASSUME ScriptInv, FetchFails
  PROVE  ScriptInv'
<1>1. /\ stage' = "done" /\ results' = {Line("fetch", "FAIL")}
      /\ matched' = matched
      /\ UNCHANGED <<vars, bootVars, question, live, seen>>
  BY DEF FetchFails
<1>2. /\ Line("fetch", "FAIL") \in CheckResult
      /\ Line("fetch", "FAIL").status # "PASS"
      /\ Line("fetch", "FAIL").check \notin {"pk", "pcr_version"}
  BY DEF Line, CheckResult, Checks, Statuses
<1>3. ~AllPass' /\ KeyImpliesVersion'
  BY <1>1, <1>2, UnreadAgrees DEF AllPass, GatewayUnread
<1>4. ScriptTypes'
  BY <1>1, <1>2, WorldUnmoved DEF ScriptTypes, ScriptInv
<1> QED BY <1>1, <1>3, <1>4, WorldUnmoved
        DEF ScriptInv, Underway, PublishedAgrees, MatchAgrees, Sound

(* If every index compared prints PASS then the file has the boot's PCRs:  *)
(* both are functions on the three indices.                                *)
LEMMA CompareStep ==
  ASSUME BootInv, ScriptInv, ComparePcrs
  PROVE  ScriptInv'
<1>1. /\ stage = "fetched" /\ stage' = "compared" /\ matched' = matched
      /\ UNCHANGED <<vars, bootVars, question, live, seen>>
  BY DEF ComparePcrs
<1>2. results = {Line("fetch", "PASS")}
  BY <1>1 DEF ScriptInv, PublishedAgrees
<1>3. /\ results' \subseteq CheckResult
      /\ GatewayUnread'
      /\ AllPass' => question.published = live.pcrs
  <2>1. CASE results' = results \cup {Line("load", "SKIP")}
    BY <1>2, <2>1 DEF AllPass, GatewayUnread, Line, CheckResult, Checks,
          Statuses
  <2>2. CASE results' = results \cup {Line("load", "FAIL")}
    BY <1>2, <2>2 DEF AllPass, GatewayUnread, Line, CheckResult, Checks,
          Statuses
  <2>3. CASE /\ question.published # Absent
             /\ results' = results \cup
                  {Line("pcr", PcrStatus(i)) : i \in PcrIndices}
    <3>1. \A i \in PcrIndices :
            /\ PcrStatus(i) \in {"PASS", "FAIL"}
            /\ Line("pcr", PcrStatus(i)) \in results'
      BY <2>3 DEF PcrStatus, PassIf
    <3>2. ASSUME AllPass'
          PROVE  question.published = live.pcrs
      <4>1. ASSUME NEW i \in PcrIndices
            PROVE  PcrStatus(i) = "PASS"
        BY <3>1, <3>2 DEF AllPass, Line
      <4>2. \A i \in PcrIndices :
              /\ i \in DOMAIN question.published
              /\ live.pcrs[i] = question.published[i]
        BY <4>1 DEF PcrStatus, PassIf
      <4>3. question.published \in Published
        BY <1>1, <2>3 DEF ScriptInv, Underway, Question
      <4> DEFINE p == question.published
      <4>4. DOMAIN p \subseteq PcrIndices /\ p = [x \in DOMAIN p |-> p[x]]
        BY <4>3, DeploymentAssumption
      <4>5. DOMAIN p = PcrIndices
        BY <4>2, <4>4
      <4>6. live.pcrs = [x \in PcrIndices |-> live.pcrs[x]]
        BY <1>1, LiveDocument, DeploymentAssumption DEF ScriptInv, Underway
      <4> HIDE DEF p
      <4>7. \A x \in PcrIndices : p[x] = live.pcrs[x]
        BY <4>2 DEF p
      <4>8. p = [x \in PcrIndices |-> p[x]]
        BY <4>4, <4>5
      <4>9. p = live.pcrs
        BY <4>6, <4>7, <4>8
      <4> QED BY <4>9 DEF p
    <3>3. ASSUME NEW r \in results'
          PROVE  r \in CheckResult /\ r.check \notin {"pk", "pcr_version"}
      <4>1. CASE r \in results
        BY <1>2, <4>1 DEF Line, CheckResult, Checks, Statuses
      <4>2. ASSUME NEW i \in PcrIndices, r = Line("pcr", PcrStatus(i))
            PROVE  r \in CheckResult /\ r.check \notin {"pk", "pcr_version"}
        <5>1. PcrStatus(i) \in Statuses
          BY <3>1 DEF Statuses
        <5> QED BY <4>2, <5>1 DEF Line, CheckResult, Checks
      <4> QED BY <2>3, <4>1, <4>2
    <3> QED BY <3>2, <3>3 DEF GatewayUnread
  <2> QED BY <2>1, <2>2, <2>3 DEF ComparePcrs
<1>4. ScriptTypes'
  BY <1>1, <1>3, WorldUnmoved DEF ScriptTypes, ScriptInv
<1>5. Underway'
  BY <1>1, <1>3, WorldUnmoved DEF ScriptInv, Underway
<1>6. PublishedAgrees'
  BY <1>1, <1>3 DEF PublishedAgrees
<1> QED BY <1>1, <1>3, <1>4, <1>5, <1>6, WorldUnmoved, UnreadAgrees
        DEF ScriptInv, MatchAgrees, Sound

(* A PASS for the entry means that it is the first that matches and is not *)
(* revoked now, hence was not at the start.                                *)
(* What fieldToHex can read it reads right, so that the loop finds the     *)
(* entries with these PCRs, or none if one of them is read wrongly.        *)
LEMMA FoundIsMatching ==
  ASSUME approved_pcrs \in Seq(PcrSet), NEW m \in Images, NEW shape
  PROVE  /\ Found(m, shape) # {} => Found(m, shape) = Matching(m)
         /\ Found(m, shape) = {} =>
              Matching(m) = {} \/ \E i \in PcrIndices : m[i] \in HexLike
<1>1. m = [x \in PcrIndices |-> m[x]] /\ \A x \in PcrIndices : m[x] # Misread
  BY DeploymentAssumption
<1>2. ASSUME NEW v \in Versions
      PROVE  /\ v \in Found(m, shape) => v \in Matching(m)
             /\ v \in Found(m, shape) =>
                  \A i \in PcrIndices : shape = "base64" => m[i] \notin HexLike
             /\ v \in Matching(m) =>
                  \/ v \in Found(m, shape)
                  \/ \E i \in PcrIndices : shape = "base64" /\ m[i] \in HexLike
  <2>1. Entry(v).pcrs \in Measurements
    <3>1. v + 1 \in 1 .. Len(approved_pcrs)
      BY DEF Versions
    <3>2. Entry(v) \in PcrSet
      BY <3>1 DEF Entry
    <3> QED BY <3>2 DEF PcrSet
  <2>2. Entry(v).pcrs = [x \in PcrIndices |-> Entry(v).pcrs[x]]
    BY <2>1, DeploymentAssumption
  <2>3. v \in Matching(m) <=> \A x \in PcrIndices : Entry(v).pcrs[x] = m[x]
    BY <1>1, <2>2 DEF Matching
  <2>4. v \in Found(m, shape) <=>
          \A x \in PcrIndices : FieldToHex(Entry(v).pcrs[x], shape) = m[x]
    BY DEF Found, ReadsAs
  <2>5. \A x \in PcrIndices :
          FieldToHex(Entry(v).pcrs[x], shape) = m[x] <=>
            /\ Entry(v).pcrs[x] = m[x]
            /\ ~(shape = "base64" /\ m[x] \in HexLike)
    BY <1>1 DEF FieldToHex
  <2> QED BY <2>3, <2>4, <2>5
<1>3. Found(m, shape) \subseteq Versions /\ Matching(m) \subseteq Versions
  BY DEF Found, Matching
<1> QED BY <1>2, <1>3

LEMMA ReadCheckpointStep ==
  ASSUME BootInv, ChainInv, ScriptInv, NEW shape, ReadCheckpoint(shape)
  PROVE  ScriptInv'
<1>1. /\ stage = "compared"
      /\ UNCHANGED <<vars, bootVars, question, live, seen>>
  BY DEF ReadCheckpoint
<1>2. /\ live \in LiveDocuments /\ question \in Question
      /\ question.gateway # Absent => question.gateway < objects
      /\ GatewayUnread
      /\ AllPass => question.published = live.pcrs
      /\ results \subseteq CheckResult
  BY <1>1 DEF ScriptInv, Underway, PublishedAgrees, ScriptTypes
<1>3. /\ live.pcrs = MeasurementOf(live)
      /\ Found(live.pcrs, shape) # {} =>
           Found(live.pcrs, shape) = Matching(live.pcrs)
  BY <1>2, LiveDocument, FoundIsMatching DEF ChainInv, TypeOK
<1>4. CASE /\ stage' = "done" /\ matched' = matched
           /\ \E c \in {"checkpoint", "approved"}, s \in {"SKIP", "FAIL"} :
                results' = results \cup {Line(c, s)}
  <2>1. PICK c \in {"checkpoint", "approved"}, s \in {"SKIP", "FAIL"} :
          results' = results \cup {Line(c, s)}
    BY <1>4
  <2>2. /\ Line(c, s) \in CheckResult
        /\ Line(c, s).status # "PASS"
        /\ Line(c, s).check \notin {"pk", "pcr_version"}
    BY DEF Line, CheckResult, Checks, Statuses
  <2>3. /\ results' \subseteq CheckResult
        /\ ~AllPass' /\ GatewayUnread'
    BY <1>2, <2>1, <2>2 DEF AllPass, GatewayUnread
  <2>4. ScriptTypes'
    BY <1>4, <2>3, WorldUnmoved, <1>1 DEF ScriptTypes, ScriptInv
  <2> QED BY <1>1, <1>4, <2>3, <2>4, WorldUnmoved, UnreadAgrees
          DEF ScriptInv, Underway, PublishedAgrees, MatchAgrees, Sound
<1>5. ASSUME Found(MeasurementOf(live), shape) # {},
             matched' = MatchIndex(MeasurementOf(live), shape),
             NEW s \in {"PASS", "WARN"},
             results' = results \cup
               {Line("approved", EntryStatus(matched')), Line("code_ref", s)}
               \cup (IF question.gateway = Absent
                     THEN {Line("gateway", "SKIP")} ELSE {}),
             stage' = IF question.gateway = Absent THEN "done" ELSE "matched"
      PROVE  ScriptInv'
  <2> DEFINE approved == Line("approved", EntryStatus(matched'))
  <2>1. matched' = FindMatchingEntry(live.pcrs)
    BY <1>3, <1>5 DEF MatchIndex, FindMatchingEntry
  <2>2. matched' \in Matching(live.pcrs) /\ matched' \in Versions
    BY <1>3, <1>5, <2>1, FindMatchingEntryIsFirst
       DEF ChainInv, TypeOK, Matching
  <2>3. EntryStatus(matched') \in {"PASS", "FAIL"}
        /\ (EntryStatus(matched') = "PASS" => ~IsRevoked(matched'))
    BY DEF EntryStatus, PassIf
  <2>4. /\ approved \in CheckResult
        /\ approved.check \notin {"pk", "pcr_version"}
        /\ approved.status = EntryStatus(matched')
        /\ approved \in results' /\ results \subseteq results'
    BY <1>5, <2>3 DEF Line, CheckResult, Checks, Statuses
  <2>5. /\ Line("code_ref", s) \in CheckResult
        /\ Line("code_ref", s).check \notin {"pk", "pcr_version"}
        /\ Line("gateway", "SKIP") \in CheckResult
        /\ Line("gateway", "SKIP").check \notin {"pk", "pcr_version"}
        /\ Line("gateway", "SKIP").status # "PASS"
    BY DEF Line, CheckResult, Checks, Statuses
  <2> HIDE DEF approved
  <2>6. results' \subseteq results \cup
          {approved, Line("code_ref", s), Line("gateway", "SKIP")}
    BY <1>5 DEF approved
  <2>7. results' \subseteq CheckResult /\ GatewayUnread'
    BY <1>2, <2>4, <2>5, <2>6 DEF GatewayUnread
  <2>8. AllPass' => AllPass /\ ~IsRevoked(matched')
    BY <2>3, <2>4 DEF AllPass
  <2>9. question.gateway = Absent => ~AllPass'
    BY <1>5, <2>5 DEF AllPass
  <2>10. ScriptTypes'
    BY <1>1, <1>5, <2>2, <2>7, WorldUnmoved DEF ScriptTypes
  <2>11. Underway'
    BY <1>1, <1>2, <2>7, WorldUnmoved DEF Underway
  <2>12. PublishedAgrees'
    BY <1>1, <1>2, <1>5, <2>8 DEF PublishedAgrees
  <2>13. MatchAgrees'
    <3> SUFFICES ASSUME stage' = "matched"
                 PROVE  /\ question.gateway \in Nat
                        /\ Matching(live.pcrs) # {}
                        /\ AllPass' => (matched' < Len(seen) =>
                             ~seen[matched' + 1].revoked)
      BY <1>1, <2>1, WorldUnmoved DEF MatchAgrees
    <3>1. question.gateway \in Nat
      BY <1>2, <1>5 DEF Question
    <3>2. AllPass' => (matched' < Len(seen) => ~seen[matched' + 1].revoked)
      BY <2>2, <2>8 DEF ScriptInv, SeenKept
    <3> QED BY <1>3, <1>5, <3>1, <3>2
  <2>14. Sound' /\ KeyImpliesVersion'
    BY <1>5, <2>7, <2>9, UnreadAgrees DEF Sound
  <2> QED BY <1>1, <1>5, <2>10, <2>11, <2>12, <2>13, <2>14, WorldUnmoved
          DEF ScriptInv
<1> QED BY <1>4, <1>5 DEF ReadCheckpoint

(* A PASS for the key makes the Gateway the boot's own, and its version by *)
(* GatewayBoot the index found.                                            *)
LEMMA ReadGatewayStep ==
  ASSUME BootInv, ChainInv, LinkInv, ScriptInv, ReadGateway
  PROVE  ScriptInv'
<1>1. /\ stage = "matched" /\ stage' = "done" /\ matched' = matched
      /\ UNCHANGED <<vars, bootVars, question, live, seen>>
  BY DEF ReadGateway
<1>2. /\ live \in LiveDocuments /\ question.gateway \in Nat
      /\ question.gateway < objects
      /\ GatewayUnread
      /\ results \subseteq CheckResult
      /\ AllPass => question.published = live.pcrs
      /\ matched = FindMatchingEntry(live.pcrs)
      /\ AllPass => (matched < Len(seen) => ~seen[matched + 1].revoked)
  BY <1>1, DeploymentAssumption
     DEF ScriptInv, Underway, PublishedAgrees, MatchAgrees, ScriptTypes
<1>3. CASE \E c \in {"fetch", "gateway"} :
             results' = results \cup {Line(c, "FAIL")}
  <2>1. PICK c \in {"fetch", "gateway"} :
          results' = results \cup {Line(c, "FAIL")}
    BY <1>3
  <2>2. /\ Line(c, "FAIL") \in CheckResult
        /\ Line(c, "FAIL").status # "PASS"
        /\ Line(c, "FAIL").check \notin {"pk", "pcr_version"}
    BY DEF Line, CheckResult, Checks, Statuses
  <2>3. /\ results' \subseteq CheckResult
        /\ ~AllPass' /\ GatewayUnread'
    BY <1>2, <2>1, <2>2 DEF AllPass, GatewayUnread
  <2>4. ScriptTypes'
    BY <1>1, <2>3, WorldUnmoved DEF ScriptTypes, ScriptInv
  <2> QED BY <1>1, <2>3, <2>4, WorldUnmoved, UnreadAgrees
          DEF ScriptInv, Underway, PublishedAgrees, MatchAgrees, Sound
<1>4. ASSUME NEW g \in gateways, g.id = question.gateway,
             results' = results \cup {Line("pk", KeyStatus(g)),
                                      Line("pcr_version", VersionStatus(g))}
      PROVE  ScriptInv'
  <2> DEFINE pk == Line("pk", KeyStatus(g))
             version == Line("pcr_version", VersionStatus(g))
  <2>1. /\ KeyStatus(g) \in {"PASS", "FAIL"}
        /\ VersionStatus(g) \in {"PASS", "FAIL"}
        /\ KeyStatus(g) = "PASS" <=> g.pk = live.public_key
        /\ VersionStatus(g) = "PASS" <=> g.pcr_version = matched
    BY DEF KeyStatus, VersionStatus, PassIf
  <2>2. /\ pk \in CheckResult /\ version \in CheckResult
        /\ pk.status = KeyStatus(g)
        /\ version # Line("pk", "PASS")
        /\ pk = Line("pk", "PASS") => KeyStatus(g) = "PASS"
        /\ pk # Line("pcr_version", "FAIL")
        /\ version = Line("pcr_version", "FAIL") => VersionStatus(g) = "FAIL"
    BY <2>1 DEF Line, CheckResult, Checks, Statuses
  <2>3. results' = results \cup {pk, version}
    BY <1>4
  <2> HIDE DEF pk, version
  <2>4. g.pk = live.public_key => g.pcr_version = matched
    BY <1>2, GatewayBoot, LiveDocument DEF LinkInv
  <2>5. results' \subseteq CheckResult
    BY <1>2, <2>2, <2>3
  <2>6. AllPass' => AllPass /\ g.pk = live.public_key
    BY <2>1, <2>2, <2>3 DEF AllPass
  <2>7. ScriptTypes'
    BY <1>1, <2>5, WorldUnmoved DEF ScriptTypes, ScriptInv
  <2>8. \A h \in gateways : h.id = question.gateway => h = g
    BY <1>4 DEF ChainInv, TypeOK
  <2>9. \A e \in events : e.gateway = question.gateway =>
          e.receipt.signer = g.pk
    BY <1>4 DEF LinkInv, EventsOfGateway
  <2>10. Sound'
    BY <1>1, <1>2, <2>4, <2>6, <2>8, <2>9, WorldUnmoved DEF Sound
  <2>11. KeyImpliesVersion'
    <3> SUFFICES ASSUME Line("pk", "PASS") \in results',
                        Line("pcr_version", "FAIL") \in results'
                 PROVE  FALSE
      BY DEF KeyImpliesVersion
    <3>1. g.pcr_version = matched
      BY <1>2, <2>1, <2>2, <2>3, <2>4 DEF GatewayUnread, Line
    <3>2. Line("pcr_version", "FAIL") \in results
      BY <2>1, <2>2, <2>3, <3>1
    <3> QED BY <3>2, <1>2 DEF GatewayUnread, Line
  <2> QED BY <1>1, <2>7, <2>10, <2>11, WorldUnmoved
          DEF ScriptInv, Underway, PublishedAgrees, MatchAgrees
<1> QED BY <1>3, <1>4 DEF ReadGateway

(* Every step of a deployment is one of the script or leaves it alone.     *)
LEMMA ScriptInvStep ==
  ASSUME BootInv, ChainInv, LinkInv, ScriptInv, [DeployNext]_deployVars
  PROVE  ScriptInv'
<1>1. CASE UNCHANGED scriptVars
  BY <1>1, ScriptUnmoved
<1>2. ASSUME NEW p \in Published \cup {Absent},
             NEW i \in 0 .. objects - 1 \cup {Absent},
             FetchAttestation([published |-> p, gateway |-> i])
      PROVE  ScriptInv'
  BY <1>2, FetchStep
<1>3. CASE FetchFails
  BY <1>3, FetchFailsStep
<1>4. CASE ComparePcrs
  BY <1>4, CompareStep
<1>5. CASE \E shape \in Shapes : ReadCheckpoint(shape)
  BY <1>5, ReadCheckpointStep
<1>6. CASE ReadGateway
  BY <1>6, ReadGatewayStep
<1> QED BY <1>1, <1>2, <1>3, <1>4, <1>5, <1>6
        DEF DeployNext, deployVars, Boot, PostAttestation, ChainStep

(* What the script has printed stays true of the chain.                    *)
THEOREM ScriptInvariant == DeploySpec => []ScriptInv
<1>1. DeployInit => ScriptInv
  BY DEF DeployInit, Init, CheckpointInit, ScriptInv, ScriptTypes, SeenKept,
         Underway, PublishedAgrees, MatchAgrees, Sound, KeyImpliesVersion,
         Versions
<1> QED BY <1>1, ScriptInvStep, BootInvariant, ChainInvInDeployment,
           LinkInvariant, PTL DEF DeploySpec

(* The state's types, for every deployment.                                *)
THEOREM DeploymentTypeCorrect == DeploySpec => []DeployTypeOK
<1>1. BootInv /\ ChainInv /\ ScriptInv => DeployTypeOK
  BY DEF BootInv, ChainInv, ScriptInv, ScriptTypes, LiveDocuments, DeployTypeOK
<1> QED BY <1>1, BootInvariant, ChainInvInDeployment, ScriptInvariant, PTL

(* If the Gateway read has the key that was read, its version is the index *)
(* that was found: the script never contradicts itself.                    *)
THEOREM KeyImpliesVersionCorrect == DeploySpec => []KeyImpliesVersion
BY ScriptInvariant, PTL DEF ScriptInv

(* A plain PASS is worth what PassIsSound says, whatever the world did     *)
(* between the reads and since.                                            *)
THEOREM PassIsSoundCorrect == DeploySpec => []PassIsSound
<1>1. ASSUME BootInv, ChainInv, LinkInv, ScriptInv
      PROVE  PassIsSound
  <2> SUFFICES ASSUME stage = "done", Verdict = "PASS"
               PROVE  /\ image[live.public_key] = question.published
                      /\ \A g \in gateways : g.id = question.gateway =>
                           /\ g.pk = live.public_key
                           /\ Entry(g.pcr_version).pcrs = question.published
                           /\ g.pcr_version < Len(seen) =>
                                ~seen[g.pcr_version + 1].revoked
                      /\ \A e \in events : e.gateway = question.gateway =>
                           e.receipt.signer = live.public_key
    BY DEF PassIsSound
  <2> USE <1>1
  <2>1. AllPass
    BY DEF Verdict, AllPass, ScriptInv, ScriptTypes, CheckResult, Statuses
  <2>2. Sound
    BY DEF ScriptInv
  <2>3. image[live.public_key] = question.published
    BY <2>1, <2>2, LiveDocument DEF Sound
  <2>4. \A g \in gateways : Entry(g.pcr_version).pcrs = image[g.pk]
    BY GatewayBoot DEF LinkInv
  <2> QED BY <2>1, <2>2, <2>3, <2>4 DEF Sound
<1> QED BY <1>1, BootInvariant, ChainInvInDeployment, LinkInvariant,
           ScriptInvariant, PTL
-----------------------------------------------------------------------------
(* Why a line may say FAIL, in facts that cannot be taken back: the        *)
(* inductive form of AlarmsJustified.                                      *)
NoneApproved == \A i \in DOMAIN seen : seen[i].pcrs # live.pcrs

FirstRevoked ==
  /\ Matching(live.pcrs) # {}
  /\ IsRevoked(FindMatchingEntry(live.pcrs))

Misled == \E i \in PcrIndices : live.pcrs[i] \in HexLike

NotItsGateway ==
  /\ question \in Question /\ question.gateway # Absent
  /\ question.gateway < objects
  /\ \A g \in gateways : g.id = question.gateway => g.pk # live.public_key

Justified(check) ==
  \/ check \in {"fetch", "load", "checkpoint"}
  \/ /\ live \in LiveDocuments
     /\ \/ check = "pcr" /\ question.published \notin {live.pcrs, Absent}
        \/ check = "approved" /\ (NoneApproved \/ FirstRevoked \/ Misled)
        \/ check \in {"gateway", "pk", "pcr_version"} /\ NotItsGateway

AlarmInv == \A r \in results : r.status = "FAIL" => Justified(r.check)

(* Reasons last: the step of a deployment that takes one away would have   *)
(* to be the script's own.                                                 *)
LEMMA ReasonsLast ==
  ASSUME BootInv, ChainInv, LinkInv, [DeployNext]_deployVars,
         UNCHANGED <<question, live, seen>>, NEW c, Justified(c)
  PROVE  Justified(c)'
<1>1. [Next]_vars /\ TypeOK
  BY ChainSteps DEF ChainInv
<1>2. live \in LiveDocuments => live' \in LiveDocuments'
  BY BootsKept DEF LiveDocuments
<1>3. NoneApproved => NoneApproved'
  BY DEF NoneApproved
<1>4. FirstRevoked => FirstRevoked'
  <2> SUFFICES ASSUME FirstRevoked PROVE FirstRevoked'
    OBVIOUS
  <2>1. PICK m : m = live.pcrs
    OBVIOUS
  <2>2. PICK v : v = FindMatchingEntry(m)
    OBVIOUS
  <2>3. Matching(m) # {} /\ IsRevoked(v)
    BY <2>1, <2>2 DEF FirstRevoked
  <2>4. Matching(m)' # {} /\ FindMatchingEntry(m)' = v
    BY <1>1, <2>2, <2>3, FirstEntryStays
  <2>5. v \in Versions
    BY <1>1, <2>2, <2>3, FindMatchingEntryIsFirst DEF TypeOK, Matching
  <2>6. IsRevoked(v)'
    BY <1>1, <2>3, <2>5, EntriesKept
  <2>7. IsRevoked(FindMatchingEntry(m))'
    BY <2>4, <2>6 DEF IsRevoked, Entry
  <2>8. m = live.pcrs'
    BY <2>1
  <2> QED BY <2>4, <2>7, <2>8 DEF FirstRevoked
<1>5. NotItsGateway => NotItsGateway'
  <2> SUFFICES ASSUME NotItsGateway PROVE NotItsGateway'
    OBVIOUS
  <2>1. question.gateway \in Nat /\ question.gateway < objects
    BY DEF NotItsGateway, Question
  <2>2. objects \in Nat /\ objects' \in Nat /\ objects <= objects'
    BY <1>1, ObjectsGrow
  <2>3. ASSUME NEW g \in gateways', g.id = question.gateway
        PROVE  g \in gateways
    BY <2>1, <2>2, <2>3, RegisteredInDeployment
  <2>4. question' = question /\ live' = live
    OBVIOUS
  <2>5. question.gateway < objects'
    BY <2>1, <2>2
  <2> QED BY <2>3, <2>4, <2>5 DEF NotItsGateway
<1>6. Misled => Misled'
  BY DEF Misled
<1> QED BY <1>2, <1>3, <1>4, <1>5, <1>6 DEF Justified

(* The lines each step of the script adds are justified when printed.      *)
LEMMA CompareJustified ==
  ASSUME BootInv, ScriptInv, ComparePcrs, NEW r \in results',
         r \notin results, r.status = "FAIL"
  PROVE  Justified(r.check)
<1>1. live \in LiveDocuments
  BY DEF ScriptInv, Underway, ComparePcrs
<1>2. CASE r \in {Line("load", "SKIP"), Line("load", "FAIL")}
  BY <1>2 DEF Justified, Line
<1>3. ASSUME question.published # Absent,
             NEW i \in PcrIndices, r = Line("pcr", PcrStatus(i))
      PROVE  Justified(r.check)
  <2>1. live.pcrs = [x \in PcrIndices |-> live.pcrs[x]]
    BY <1>1, LiveDocument, DeploymentAssumption
  <2>2. DOMAIN live.pcrs = PcrIndices
    BY <2>1
  <2>3. PcrStatus(i) # "PASS"
    BY <1>3 DEF Line
  <2>4. question.published # live.pcrs
    BY <2>2, <2>3 DEF PcrStatus, PassIf
  <2> QED BY <1>1, <1>3, <2>4 DEF Justified, Line
<1> QED BY <1>2, <1>3 DEF ComparePcrs

LEMMA ReadCheckpointJustified ==
  ASSUME BootInv, ChainInv, ScriptInv, NEW shape, ReadCheckpoint(shape),
         NEW r \in results', r \notin results, r.status = "FAIL"
  PROVE  Justified(r.check)
<1>1. live \in LiveDocuments
  BY DEF ScriptInv, Underway, ReadCheckpoint
<1>2. /\ live.pcrs = MeasurementOf(live)
      /\ Found(live.pcrs, shape) # {} =>
           Found(live.pcrs, shape) = Matching(live.pcrs)
      /\ Found(live.pcrs, shape) = {} => Matching(live.pcrs) = {} \/ Misled
  BY <1>1, LiveDocument, FoundIsMatching DEF ChainInv, TypeOK, Misled
<1>3. CASE \E s \in {"SKIP", "FAIL"} : r = Line("checkpoint", s)
  BY <1>3 DEF Justified, Line
<1>4. CASE r = Line("approved", "FAIL") /\ Matching(live.pcrs) = {}
  <2>1. ASSUME NEW i \in DOMAIN seen
        PROVE  seen[i].pcrs # live.pcrs
    <3>1. seen \in Seq(PcrSet) /\ Len(seen) <= Len(approved_pcrs)
      BY DEF ScriptInv, ScriptTypes, SeenKept
    <3>2. approved_pcrs \in Seq(PcrSet)
      BY DEF ChainInv, TypeOK
    <3>3. i - 1 \in Versions /\ i - 1 < Len(seen) /\ (i - 1) + 1 = i
      BY <2>1, <3>1, <3>2 DEF Versions
    <3>4. seen[i].pcrs = Entry(i - 1).pcrs
      BY <3>3 DEF ScriptInv, SeenKept
    <3> QED BY <1>4, <3>3, <3>4 DEF Matching
  <2> QED BY <1>1, <1>4, <2>1 DEF Justified, NoneApproved, Line
<1>5. CASE /\ Found(live.pcrs, shape) # {}
           /\ r = Line("approved", EntryStatus(MatchIndex(live.pcrs, shape)))
  <2>1. MatchIndex(live.pcrs, shape) = FindMatchingEntry(live.pcrs)
    BY <1>2, <1>5 DEF MatchIndex, FindMatchingEntry
  <2>2. IsRevoked(MatchIndex(live.pcrs, shape))
    BY <1>5 DEF Line, EntryStatus, PassIf
  <2>3. r.check = "approved"
    BY <1>5 DEF Line
  <2> QED BY <1>1, <1>2, <1>5, <2>1, <2>2, <2>3 DEF Justified, FirstRevoked
<1>6. CASE r = Line("approved", "FAIL") /\ Misled
  BY <1>1, <1>6 DEF Justified, Line
<1>7. r \notin {Line("code_ref", "PASS"), Line("code_ref", "WARN"),
                Line("gateway", "SKIP")}
  BY DEF Line
<1> QED BY <1>2, <1>3, <1>4, <1>5, <1>6, <1>7 DEF ReadCheckpoint

LEMMA ReadGatewayJustified ==
  ASSUME BootInv, ChainInv, LinkInv, ScriptInv, ReadGateway, NEW r \in results',
         r \notin results, r.status = "FAIL"
  PROVE  Justified(r.check)
<1>1. /\ live \in LiveDocuments /\ question \in Question
      /\ question.gateway \in Nat /\ question.gateway # Absent
      /\ question.gateway < objects
      /\ matched = FindMatchingEntry(live.pcrs)
  BY DeploymentAssumption
     DEF ScriptInv, Underway, MatchAgrees, ReadGateway
<1>2. CASE r = Line("fetch", "FAIL")
  BY <1>2 DEF Justified, Line
<1>3. CASE /\ \A g \in gateways : g.id # question.gateway
           /\ r = Line("gateway", "FAIL")
  BY <1>1, <1>3 DEF Justified, NotItsGateway, Line
<1>4. ASSUME NEW g \in gateways, g.id = question.gateway,
             \/ r = Line("pk", KeyStatus(g))
             \/ r = Line("pcr_version", VersionStatus(g))
      PROVE  Justified(r.check)
  <2>1. g.pk = live.public_key => g.pcr_version = matched
    BY <1>1, GatewayBoot, LiveDocument DEF LinkInv
  <2>2. g.pk # live.public_key
    BY <1>4, <2>1 DEF KeyStatus, VersionStatus, PassIf, Line
  <2>3. \A h \in gateways : h.id = question.gateway => h = g
    BY <1>4 DEF ChainInv, TypeOK
  <2>4. r.check \in {"pk", "pcr_version"}
    BY <1>4 DEF Line
  <2> QED BY <1>1, <2>2, <2>3, <2>4 DEF Justified, NotItsGateway
<1> QED BY <1>2, <1>3, <1>4 DEF ReadGateway

(* A line is justified when it is printed, and from then on.               *)
LEMMA AlarmInvStep ==
  ASSUME BootInv, ChainInv, LinkInv, ScriptInv, AlarmInv,
         [DeployNext]_deployVars
  PROVE  AlarmInv'
<1>1. CASE UNCHANGED scriptVars
  BY <1>1, ReasonsLast DEF scriptVars, AlarmInv
<1>2. ASSUME NEW q, FetchAttestation(q)
      PROVE  AlarmInv'
  BY <1>2 DEF FetchAttestation, AlarmInv, Line
<1>3. CASE FetchFails
  BY <1>3 DEF FetchFails, AlarmInv, Justified, Line
<1>4. CASE \/ ComparePcrs
           \/ \E shape \in Shapes : ReadCheckpoint(shape)
           \/ ReadGateway
  <2> SUFFICES ASSUME NEW r \in results', r.status = "FAIL"
               PROVE  Justified(r.check)'
    BY DEF AlarmInv
  <2>1. UNCHANGED <<question, live, seen>>
    BY <1>4 DEF ComparePcrs, ReadCheckpoint, ReadGateway
  <2>2. Justified(r.check)
    BY <1>4, CompareJustified, ReadCheckpointJustified, ReadGatewayJustified
       DEF AlarmInv
  <2> QED BY <2>1, <2>2, ReasonsLast
<1> QED BY <1>1, <1>2, <1>3, <1>4
        DEF DeployNext, deployVars, Boot, PostAttestation, ChainStep

(* A FAIL that is not one of reading has a reason in the deployment, and   *)
(* still has it whenever one looks.                                        *)
THEOREM AlarmsCorrect == DeploySpec => []AlarmsJustified
<1>1. DeployInit => AlarmInv
  BY DEF DeployInit, AlarmInv
<1>2. ASSUME BootInv, AlarmInv, ScriptInv
      PROVE  AlarmsJustified
  <2> SUFFICES ASSUME Verdict = "FAIL",
                      \A r \in results :
                        r.check \in {"fetch", "load", "checkpoint"} =>
                          r.status # "FAIL"
               PROVE  \/ question.published \notin
                           {image[live.public_key], Absent}
                      \/ \A i \in DOMAIN seen :
                           seen[i].pcrs # image[live.public_key]
                      \/ IsRevoked(FindMatchingEntry(image[live.public_key]))
                      \/ /\ question.gateway # Absent
                         /\ \A g \in gateways :
                              g.id = question.gateway => g.pk # live.public_key
                      \/ /\ Line("approved", "FAIL") \in results
                         /\ \E i \in PcrIndices :
                              image[live.public_key][i] \in HexLike
    BY DEF AlarmsJustified
  <2>1. PICK r \in results : r.status = "FAIL"
    BY DEF Verdict
  <2>2. Justified(r.check) /\ r.check \notin {"fetch", "load", "checkpoint"}
    BY <1>2, <2>1 DEF AlarmInv
  <2>3. live.pcrs = image[live.public_key]
    BY <1>2, <2>2, LiveDocument DEF Justified
  <2>4. r.check = "approved" => r = Line("approved", "FAIL")
    BY <1>2, <2>1 DEF ScriptInv, ScriptTypes, CheckResult, Line
  <2> QED BY <2>1, <2>2, <2>3, <2>4
          DEF Justified, NoneApproved, FirstRevoked, NotItsGateway, Misled
<1> QED BY <1>1, <1>2, AlarmInvStep, BootInvariant, ChainInvInDeployment,
           LinkInvariant, ScriptInvariant, PTL DEF DeploySpec
=============================================================================
