----------------------------- MODULE BootProofs -----------------------------
(***************************************************************************)
(* Theorems about the boot chain, for all configurations and any number of *)
(* enclaves: what it starts is the policy engine of Policy, so all that is *)
(* proved there holds of it; one file decides what an enclave's gateway    *)
(* does; and an enclave that is cut off stays so.                          *)
(***************************************************************************)
EXTENDS Boot, PolicyProofs

-----------------------------------------------------------------------------
(* The chain implements the engine.                                        *)
LEMMA BootInitImplements == BootInit => Init
  BY DEF BootInit

LEMMA GoneImplements == Gone => [Next]_vars
<1> SUFFICES ASSUME Gone PROVE [Next]_vars
  OBVIOUS
<1>1. CASE stage = "off"
  BY <1>1 DEF Gone
<1>2. CASE stage # "off"
  BY <1>2 DEF Gone, Next
<1> QED
  BY <1>1, <1>2

LEMMA BootStepImplements == [BootNext]_allVars => [Next]_vars
<1> SUFFICES ASSUME [BootNext]_allVars PROVE [Next]_vars
  OBVIOUS
<1>1. CASE RunEif
  BY <1>1 DEF RunEif
<1>2. CASE Expose
  BY <1>2 DEF Expose
<1>3. CASE CloseBridge
  BY <1>3 DEF CloseBridge
<1>4. CASE Terminate
  BY <1>4, GoneImplements DEF Terminate
<1>5. ASSUME NEW file \in Files, Send(file) PROVE [Next]_vars
  BY <1>5 DEF Send
<1>6. CASE BridgesListen
  BY <1>6 DEF BridgesListen
<1>7. CASE BridgesDie
  BY <1>7 DEF BridgesDie
<1>8. CASE StartBridges
  BY <1>8 DEF StartBridges
<1>9. CASE HandOff
  BY <1>9 DEF HandOff
<1>10. CASE Load
  BY <1>10 DEF Load, Next
<1>11. CASE LoadFails
  BY <1>11, GoneImplements DEF LoadFails
<1>12. ASSUME NEW r \in Requests, Ask(r) PROVE [Next]_vars
  BY <1>12 DEF Ask, Next
<1>13. CASE Loop
  BY <1>13 DEF Loop, Next
<1>14. CASE UNCHANGED allVars
  BY <1>14 DEF allVars
<1> QED
  BY <1>1, <1>2, <1>3, <1>4, <1>5, <1>6, <1>7, <1>8, <1>9, <1>10, <1>11,
     <1>12, <1>13, <1>14 DEF BootNext, Run

(* run.sh and the operator's commands start and end a policy engine and do *)
(* nothing else to it: every behaviour of the chain is one of Policy.      *)
THEOREM BootIsPolicy == BootSpec => Spec
  BY BootInitImplements, BootStepImplements, PTL DEF BootSpec, Spec

(* Hence the gateway of every enclave decides by its document.             *)
THEOREM BootedVerdicts == BootSpec => []VerdictFollowsPolicy
  BY BootIsPolicy, VerdictCorrect, PTL

(* And it has loaded all of it or nothing.                                 *)
THEOREM BootedLoading == BootSpec => []ServesOnlyValid
  BY BootIsPolicy, LoadingCorrect, PTL

-----------------------------------------------------------------------------
(* The types of the chain alone.                                           *)
ChainType ==
  /\ boot \in 0 .. MaxBoots
  /\ init \in Inits
  /\ delivered \in Files \cup {None}
  /\ delivered # None <=> init \in {"received", "bridged", "gateway"}
  /\ inner \in {"none", "starting", "up", "dead"}
  /\ inner # "none" <=> init \in {"bridged", "gateway"}
  /\ bridge \in 0 .. boot
  /\ stage # "off" => init = "gateway"

(* Between two gateways there is no verdict: OneDelivery alone would allow *)
(* one to outlive its document.                                            *)
ChainInv == ChainType /\ OneDelivery /\ (stage = "off" => verdict = None)

LEMMA ChainInit == BootInit => ChainInv
  BY BootAssumption
  DEF BootInit, Init, ChainInv, ChainType, OneDelivery, Inits, Files

(* The steps of the engine's loops keep its document, and a verdict is     *)
(* given on that.                                                          *)
LEMMA LoopKeeps ==
  ASSUME PolicyInv, OneDelivery, stage # "off",
         \/ CompileNext \/ Compiled \/ DenyNext \/ NotDenied
         \/ AllowNext \/ Exhausted \/ \E r \in Requests : Evaluate(r)
  PROVE  /\ raw' = raw /\ stage' # "off"
         /\ verdict' # None => verdict'.config_hash = raw.policy
<1> DEFINE Goal == /\ raw' = raw /\ stage' # "off"
                   /\ verdict' # None => verdict'.config_hash = raw.policy
<1>0. verdict # None => verdict.config_hash = raw.policy
  BY DEF OneDelivery
<1>1. ASSUME NEW result, NEW by, Decide(result, by) PROVE Goal
  BY <1>1 DEF Decide
<1>2. CASE CompileNext
  BY <1>0, <1>2 DEF CompileNext
<1>3. CASE Compiled
  BY <1>0, <1>3 DEF Compiled
<1>4. CASE DenyNext
  BY <1>0, <1>1, <1>4 DEF DenyNext
<1>5. CASE NotDenied
  BY <1>0, <1>5 DEF NotDenied
<1>6. CASE AllowNext
  BY <1>0, <1>1, <1>6 DEF AllowNext
<1>7. CASE Exhausted
  BY <1>1, <1>7 DEF Exhausted
<1>8. ASSUME NEW r \in Requests, Evaluate(r) PROVE Goal
  BY <1>8 DEF Evaluate
<1> QED
  BY <1>2, <1>3, <1>4, <1>5, <1>6, <1>7, <1>8

LEMMA GoneInv == ChainInv /\ Gone => ChainInv'
<1> SUFFICES ASSUME ChainInv, Gone PROVE ChainInv'
  OBVIOUS
<1>1. stage' = "off" /\ verdict' = None
  BY DEF ChainInv, Gone, Restart, vars
<1> QED
  BY <1>1 DEF ChainInv, ChainType, OneDelivery, Gone, Inits, Files

LEMMA ChainNext == ChainInv /\ PolicyInv /\ [BootNext]_allVars => ChainInv'
<1> SUFFICES ASSUME ChainInv, PolicyInv, [BootNext]_allVars PROVE ChainInv'
  OBVIOUS
<1> USE BootAssumption
<1>1. CASE RunEif
  BY <1>1 DEF RunEif, vars, ChainInv, ChainType, OneDelivery, Inits, Files
<1>2. CASE Expose
  BY <1>2 DEF Expose, vars, ChainInv, ChainType, OneDelivery, Inits, Files
<1>3. CASE CloseBridge
  BY <1>3 DEF CloseBridge, vars, ChainInv, ChainType, OneDelivery, Inits, Files
<1>4. CASE Terminate
  BY <1>4, GoneInv DEF Terminate
<1>5. ASSUME NEW file \in Files, Send(file) PROVE ChainInv'
  BY <1>5 DEF Send, vars, ChainInv, ChainType, OneDelivery, Inits, Files
<1>6. CASE BridgesListen
  BY <1>6 DEF BridgesListen, vars, ChainInv, ChainType, OneDelivery, Inits, Files
<1>7. CASE BridgesDie
  BY <1>7 DEF BridgesDie, vars, ChainInv, ChainType, OneDelivery, Inits, Files
<1>8. CASE StartBridges
  BY <1>8 DEF StartBridges, vars, ChainInv, ChainType, OneDelivery, Inits, Files
<1>9. CASE HandOff
  BY <1>9 DEF HandOff, vars, ChainInv, ChainType, OneDelivery, Inits, Files
<1>10. CASE Load
  <2>1. /\ raw' = delivered /\ stage' # "off" /\ verdict' = None
        /\ UNCHANGED bootVars /\ init = "gateway"
    BY <1>10 DEF Load, Boot, ChainInv
  <2> QED
    BY <2>1 DEF bootVars, ChainInv, ChainType, OneDelivery
<1>11. CASE LoadFails
  BY <1>11, GoneInv DEF LoadFails
<1>12. CASE Loop \/ \E r \in Requests : Ask(r)
  <2>1. stage # "off" /\ UNCHANGED bootVars
    BY <1>12 DEF Loop, Ask, CompileNext, Compiled, DenyNext, NotDenied,
                AllowNext, Exhausted, Evaluate
  <2>2. /\ raw' = raw /\ stage' # "off"
        /\ verdict' # None => verdict'.config_hash = raw.policy
    <3>1. \/ CompileNext \/ Compiled \/ DenyNext \/ NotDenied
          \/ AllowNext \/ Exhausted \/ \E r \in Requests : Evaluate(r)
      BY <1>12 DEF Loop, Ask
    <3> QED
      BY <2>1, <3>1, LoopKeeps DEF ChainInv
  <2>3. raw' = delivered'
    BY <2>1, <2>2 DEF ChainInv, OneDelivery, bootVars
  <2>4. ChainType'
    BY <2>1, <2>2 DEF ChainInv, ChainType, bootVars
  <2> QED
    BY <2>1, <2>2, <2>3, <2>4 DEF ChainInv, OneDelivery
<1>13. CASE UNCHANGED allVars
  BY <1>13 DEF allVars, bootVars, vars, ChainInv, ChainType, OneDelivery
<1> QED
  BY <1>1, <1>2, <1>3, <1>4, <1>5, <1>6, <1>7, <1>8, <1>9, <1>10, <1>11,
     <1>12, <1>13 DEF BootNext, Run

LEMMA ChainInvariant == BootSpec => []ChainInv
<1>1. BootSpec => []PolicyInv
  BY BootIsPolicy, PolicyInvariant, PTL
<1>2. BootSpec => BootInit /\ [][BootNext]_allVars
  BY PTL DEF BootSpec
<1> QED
  BY <1>1, <1>2, ChainInit, ChainNext, PTL

(* The chain is well typed: a file and a process need an enclave, and no   *)
(* bridge leads to an enclave that was never started.                      *)
THEOREM BootTypeCorrect == BootSpec => []BootTypeOK
<1>1. TypeOK /\ ChainInv => BootTypeOK
  BY DEF ChainInv, ChainType, BootTypeOK
<1>2. BootSpec => []TypeOK
  BY BootIsPolicy, TypeCorrect, PTL
<1> QED
  BY <1>1, <1>2, ChainInvariant, PTL

(* The gateway of an enclave decides by the one file that enclave was sent *)
(* and accepted.                                                           *)
THEOREM DeliveryIsOne == BootSpec => []OneDelivery
<1>1. ChainInv => OneDelivery
  BY DEF ChainInv
<1> QED
  BY <1>1, ChainInvariant, PTL

-----------------------------------------------------------------------------
CutOffStays == CutOff /\ boot' = boot /\ init' # "none" => CutOff'

LEMMA CutOffStep == ChainInv /\ [BootNext]_allVars => [CutOffStays]_allVars
<1> SUFFICES ASSUME ChainInv, [BootNext]_allVars,
                    CutOff, boot' = boot, init' # "none"
             PROVE  CutOff'
  BY DEF CutOffStays
<1> USE DEF ChainInv, ChainType, CutOff, Inits
<1>1. CASE RunEif
  BY <1>1, BootAssumption DEF RunEif
<1>2. CASE Expose
  BY <1>2 DEF Expose
<1>3. CASE CloseBridge
  BY <1>3, BootAssumption DEF CloseBridge
<1>4. CASE Terminate
  BY <1>4 DEF Terminate, Gone
<1>5. ASSUME NEW file \in Files, Send(file) PROVE CutOff'
  BY <1>5 DEF Send
<1>6. CASE BridgesListen
  BY <1>6 DEF BridgesListen
<1>7. CASE BridgesDie
  BY <1>7 DEF BridgesDie
<1>8. CASE StartBridges
  BY <1>8 DEF StartBridges
<1>9. CASE HandOff
  BY <1>9 DEF HandOff
<1>10. CASE LoadFails
  BY <1>10 DEF LoadFails, Gone
<1>11. CASE UNCHANGED bootVars
  BY <1>11 DEF bootVars
<1>12. Load \/ Loop \/ (\E r \in Requests : Ask(r)) \/ UNCHANGED allVars
         => UNCHANGED bootVars
  BY DEF Load, Loop, Ask, allVars
<1> QED
  BY <1>1, <1>2, <1>3, <1>4, <1>5, <1>6, <1>7, <1>8, <1>9, <1>10, <1>11,
     <1>12 DEF BootNext, Run

(* No command of the operator brings back an enclave that is cut off.      *)
THEOREM CutOffIsFinal == BootSpec => CutOffForGood
<1>1. BootSpec => BootInit /\ [][BootNext]_allVars
  BY PTL DEF BootSpec
<1>2. BootSpec => [][CutOffStays]_allVars
  BY <1>1, ChainInvariant, CutOffStep, PTL
<1> QED
  BY <1>2, PTL DEF CutOffForGood, CutOffStays
=============================================================================
