-------------------------------- MODULE Boot --------------------------------
(***************************************************************************)
(* From a measured image to a gateway that can be reached: run.sh inside   *)
(* the enclave, the operator's make run-eif, expose_enclave.sh,            *)
(* send_boot_config.sh and make stop on the host.  Both configuration      *)
(* channels are one-shot and are drained in a fixed order; of the programs *)
(* that carry traffic afterwards, one in the enclave and one on the host,  *)
(* neither is restarted by anything.                                       *)
(*                                                                         *)
(* The gateway run.sh hands over to is Policy: `Load` is its Boot, and its *)
(* loops run with nothing of the rest between their rounds, as they only   *)
(* look at what the process already has (see Settled).                     *)
(***************************************************************************)
EXTENDS Policy

CONSTANTS
  Unreadable,   \* a file that is no RawConfig: not JSON, a field unknown
                \* or missing
  MaxBoots      \* bound: enclaves started

ASSUME BootAssumption ==
  /\ Unreadable \notin Configs
  /\ None \notin Configs \cup {Unreadable}
  /\ MaxBoots \in Nat

VARIABLES
  boot,       \* counts the enclaves started; the number of the latest
  init,       \* where its run.sh is, see Inits
  delivered,  \* /tmp/sekisho-config.json
  inner,      \* argonaut's bridges in the enclave
  bridge      \* the enclave the host's argonaut bridges to, or 0

bootVars == <<boot, init, delivered, inner, bridge>>
allVars == <<vars, bootVars>>

Inits == {"none", "draining", "receiving", "received", "bridged", "gateway"}
Files == Configs \cup {Unreadable}

Settled == stage \in {"off", "failed", "serving"}

BootInit ==
  /\ Init
  /\ boot = 0 /\ init = "none" /\ delivered = None /\ inner = "none"
  /\ bridge = 0

-----------------------------------------------------------------------------
(* The operator.  describe-enclaves is asked for the enclave there is.     *)
RunEif ==
  /\ init = "none" /\ boot < MaxBoots
  /\ boot' = boot + 1
  /\ init' = "draining"
  /\ UNCHANGED <<vars, delivered, inner, bridge>>

ExposeAgain ==                                             \* mutant
  /\ Settled /\ init \in {"draining", "receiving", "received", "bridged", "gateway"}
  /\ init' = IF init = "draining" THEN "receiving" ELSE init
  /\ bridge' = IF bridge = 0 THEN boot ELSE bridge
  /\ UNCHANGED <<vars, boot, delivered, inner>>

(* argonaut host pushes its configuration to port 7777 before it bridges;  *)
(* the push fails, and with it the program, unless something listens.  If  *)
(* another still has the TCP port, the push was for nothing.               *)
Expose ==
  /\ init = "draining"
  /\ init' = "receiving"                   \* recv 7777, discarded
  /\ bridge' = IF bridge = 0 THEN boot ELSE bridge
  /\ UNCHANGED <<vars, boot, delivered, inner>>

(* It runs in the foreground of a shell until it is stopped or dies.       *)
CloseBridge ==
  /\ Settled /\ bridge # 0
  /\ bridge' = 0
  /\ UNCHANGED <<vars, boot, init, delivered, inner>>

SendAgain(file) ==                                         \* mutant
  /\ Settled /\ init \in {"receiving", "received", "bridged", "gateway"}
  /\ delivered' = file
  /\ init' = IF init = "receiving" THEN "received" ELSE init
  /\ UNCHANGED <<vars, boot, inner, bridge>>

(* To port 7778, where run.sh listens once.                                *)
Send(file) ==
  /\ init = "receiving"
  /\ delivered' = file
  /\ init' = "received"
  /\ UNCHANGED <<vars, boot, inner, bridge>>

(* Whatever ends the enclave: its memory is gone, and the host's bridge is *)
(* left behind.                                                            *)
Gone ==
  /\ init' = "none" /\ delivered' = None /\ inner' = "none"
  /\ IF stage = "off" THEN UNCHANGED vars ELSE Restart
  /\ UNCHANGED <<boot, bridge>>

(* make stop; also a crash, or a transfer that breaks off, which set -e    *)
(* turns into the end of run.sh.                                           *)
Terminate == Settled /\ init # "none" /\ Gone

-----------------------------------------------------------------------------
(* run.sh.                                                                 *)
StartBridges ==
  /\ init = "received"
  /\ init' = "bridged"
  /\ inner' = "starting"                   \* in the background
  /\ UNCHANGED <<vars, boot, delivered, bridge>>

BridgesListen ==
  /\ Settled /\ inner = "starting"
  /\ inner' = "up"
  /\ UNCHANGED <<vars, boot, init, delivered, bridge>>

BridgesDie ==
  /\ Settled /\ inner \in {"starting", "up"}
  /\ inner' = "dead"
  /\ UNCHANGED <<vars, boot, init, delivered, bridge>>

HandOffUnbridged ==                                        \* mutant
  /\ init = "received"
  /\ init' = "gateway"
  /\ UNCHANGED <<vars, boot, delivered, inner, bridge>>

HandOff ==
  /\ init = "bridged"
  /\ init' = "gateway"
  /\ UNCHANGED <<vars, boot, delivered, inner, bridge>>

(* load_from_file.  A process that fails takes the enclave with it: it is  *)
(* what run.sh has become.                                                 *)
Load ==
  /\ init = "gateway" /\ stage = "off" /\ delivered \in Configs
  /\ Boot(delivered)
  /\ UNCHANGED bootVars

LoadFails ==
  /\ init = "gateway"
  /\ (stage = "off" /\ delivered \notin Configs) \/ stage = "failed"
  /\ Gone

-----------------------------------------------------------------------------
(* A request comes in through both bridges.                                *)
Connected == bridge = boot /\ inner = "up"
Reachable == stage \in Loaded /\ Connected

Ask(r) == Connected /\ Evaluate(r) /\ UNCHANGED bootVars

Loop ==
  /\ CompileNext \/ Compiled \/ DenyNext \/ NotDenied \/ AllowNext \/ Exhausted
  /\ UNCHANGED bootVars

Run == StartBridges \/ HandOff \/ Load \/ LoadFails

BootNext ==
  \/ RunEif \/ Expose \/ CloseBridge \/ Terminate
  \/ \E file \in Files : Send(file)
  \/ BridgesListen \/ BridgesDie \/ Run
  \/ \E r \in Requests : Ask(r)
  \/ Loop

(* The enclave's programs run on; the operator, and what ends a program,   *)
(* may do as they like.                                                    *)
BootSpec ==
  /\ BootInit /\ [][BootNext]_allVars
  /\ WF_allVars(Run) /\ WF_allVars(BridgesListen) /\ WF_allVars(Loop)

-----------------------------------------------------------------------------
(* The state's types; a process and a file need an enclave.                *)
BootTypeOK ==
  /\ TypeOK
  /\ boot \in 0 .. MaxBoots
  /\ init \in Inits
  /\ delivered \in Files \cup {None}
  /\ delivered # None <=> init \in {"received", "bridged", "gateway"}
  /\ inner \in {"none", "starting", "up", "dead"}
  /\ inner # "none" <=> init \in {"bridged", "gateway"}
  /\ bridge \in 0 .. boot
  /\ stage # "off" => init = "gateway"

(* What the enclave's gateway decides by is the one file this enclave was  *)
(* sent: no file of an earlier enclave, and none sent later.  The receipts *)
(* of a boot carry one config_hash.                                        *)
OneDelivery ==
  /\ stage # "off" => raw = delivered
  /\ verdict # None => verdict.config_hash = delivered.policy

(* Once the push to port 7777 is spent and the host does not bridge to     *)
(* this enclave, or the inner bridges are dead, no order of the operator's *)
(* commands makes the gateway reachable: it takes another enclave, and so  *)
(* another key to register.                                                *)
CutOff ==
  \/ init \notin {"none", "draining"} /\ bridge # boot
  \/ inner = "dead"

CutOffForGood == [][CutOff /\ boot' = boot /\ init' # "none" => CutOff']_allVars

(* A file once accepted, the gateway comes up and can be reached without   *)
(* another command, unless the enclave ends first (as it does by itself    *)
(* over a file it cannot use) or is cut off.                               *)
DeliveredComesUp ==
  \A b \in 1 .. MaxBoots :
    boot = b /\ delivered # None
      ~> boot # b \/ init = "none" \/ CutOff \/ Reachable
=============================================================================
