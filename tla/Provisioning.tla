---------------------------- MODULE Provisioning ----------------------------
(***************************************************************************)
(* The scripts that set the Lightning tools of a network up beside its     *)
(* ring: the Electrum swap server and the sidecar that funds it, the       *)
(* channel of the Ark bridge, and Fedimint's key ceremony and gateways.    *)
(*                                                                         *)
(* Each script keeps its progress in marker files, is restarted by docker  *)
(* from its first line when it ends in an error or is killed, and polls    *)
(* for what other containers provide.  One action per step of a script; a  *)
(* script that is killed starts over, its files staying, and so does one   *)
(* that ends in an error under set -e: that is a Kill too.  The errors     *)
(* counted here are those a script does not stop for.                      *)
(***************************************************************************)
EXTENDS Integers, FiniteSets

CONSTANTS
  Guardians,  \* guardians, and gateways paired with them
  MaxKills,   \* bound: containers killed or started once more
  MaxErrors,  \* bound: calls whose error the script ignores, and daemons that die
  Openings,   \* channels that the coins of one funding of the swap server pay for
  Networks    \* the choices of tools a network may have

Tools == {"electrum", "ark", "fedimint"}

ASSUME ProvisioningAssumption ==
  Guardians \in Nat \ {0} /\ MaxKills \in Nat /\ MaxErrors \in Nat /\ Openings \in Nat
  /\ Networks \subseteq SUBSET Tools

Peers == 1..Guardians

\* The steps that take effect outside of the container that takes them.
Fund == <<"fund", 0>>      \* coins for the swap server
Swap == <<"swap", 0>>      \* the swap server's channel
Bridge == <<"bridge", 0>>  \* the Ark bridge's channel
Float(i) == <<"float", i>> \* coins pegged in by gateway i
Steps == {Fund, Swap, Bridge} \cup {Float(i) : i \in Peers}

Scripts == {"electrum", "fund", "bridge", "setup", "gateways"}
ToolOf == [electrum |-> "electrum", fund |-> "electrum", bridge |-> "ark",
           setup |-> "fedimint", gateways |-> "fedimint"]

\* Files that are no marker of a step.
ElectrumWallet == <<"electrum_wallet", 0>>
ElectrumAddr == <<"electrum_addr", 0>>
BridgeAddr == <<"cln_deposit", 0>>

VARIABLES
  pc,        \* the step each script is at
  at,        \* the guardian or gateway a looping script is at
  marked,    \* the steps whose marker file is there
  files,     \* the other files the scripts leave
  effects,   \* how often each step has taken effect
  daemon,    \* Electrum's daemon: off, up, up with the wallet loaded, or dead
  coins,     \* the wallets with confirmed coins
  guardian,  \* what each guardian has been told
  gateway,   \* what is true of each gateway
  pending,   \* the PENDING flag of the gateways' script
  kills, errors,
  unread     \* the gateways whose federation the script could not read in this run

world == <<daemon, coins, guardian, gateway>>
faults == <<kills, errors, unread>>
vars == <<pc, at, marked, files, effects, daemon, coins, guardian, gateway, pending,
          kills, errors, unread>>

Goto(script, step) == pc' = [pc EXCEPT ![script] = step]
Take(step) == effects' = [effects EXCEPT ![step] = @ + 1]
MarkDone(step) == marked' = marked \cup {step}

\* A call fails, or seems to, and the script goes on.
Error ==
  /\ errors < MaxErrors
  /\ errors' = errors + 1
  /\ UNCHANGED <<kills, unread>>

First == [script \in Scripts |-> IF script = "bridge" THEN "address" ELSE "start"]

Init ==
  /\ \E tools \in Networks :
       pc = [script \in Scripts |-> IF ToolOf[script] \in tools THEN First[script] ELSE "off"]
  /\ at = [setup |-> 1, gateways |-> 1]
  /\ marked = {} /\ files = {}
  /\ effects = [s \in Steps |-> 0]
  /\ daemon = "off" /\ coins = {}
  /\ guardian = [i \in Peers |-> "awaiting"]
  /\ gateway = [i \in Peers |->
                  [wallet |-> FALSE, joined |-> FALSE, addr |-> 0, confirmed |-> 0,
                   ecash |-> FALSE]]
  /\ pending = FALSE
  /\ kills = 0 /\ errors = 0 /\ unread = {}

-----------------------------------------------------------------------------
(* electrum-entrypoint.sh.  Only its last step watches the daemon, and no  *)
(* error but the daemon's end makes it stop.                               *)

\* A wallet is made where none was, and the daemon is started as a job of the shell.
ElectrumStart ==
  /\ pc["electrum"] = "start"
  /\ \/ files' = files \cup {ElectrumWallet} /\ UNCHANGED faults
     \/ ElectrumWallet \notin files /\ Error /\ UNCHANGED files
  /\ daemon' = "up"
  /\ Goto("electrum", "wallet")
  /\ UNCHANGED <<at, marked, effects, coins, guardian, gateway, pending>>

\* Once the daemon answers it is told, once, to load the wallet.
ElectrumLoad ==
  /\ pc["electrum"] = "wallet" /\ daemon = "up"
  /\ \/ ElectrumWallet \in files /\ daemon' = "loaded" /\ UNCHANGED faults
     \/ ElectrumWallet \notin files /\ UNCHANGED <<daemon, faults>>
     \/ ElectrumWallet \in files /\ Error /\ UNCHANGED daemon
  /\ Goto("electrum", "address")
  /\ UNCHANGED <<at, marked, files, effects, coins, guardian, gateway, pending>>

\* The address is published if the wallet gives one; with a channel there is no more to do.
ElectrumAddress ==
  /\ pc["electrum"] = "address"
  /\ \/ daemon = "loaded" /\ files' = files \cup {ElectrumAddr} /\ UNCHANGED faults
     \/ daemon # "loaded" /\ UNCHANGED <<files, faults>>
     \/ ElectrumAddr \notin files /\ Error /\ UNCHANGED files
  /\ Goto("electrum", IF Swap \in marked THEN "supervise" ELSE "open")
  /\ UNCHANGED <<at, marked, effects, world, pending>>

\* What an opening waits for: the daemon and its wallet, coins, and the ring node's key.
SwapCoins == "electrum" \in coins /\ effects[Swap] < Openings * effects[Fund]
CanOpenSwap ==
  pc["electrum"] = "open" /\ daemon = "loaded" /\ SwapCoins /\ "ring" \in coins

ElectrumOpen ==
  /\ CanOpenSwap
  /\ Take(Swap)
  /\ Goto("electrum", "mark")
  /\ UNCHANGED <<at, marked, files, world, pending, faults>>

\* The channel opens, the call reports an error, and the script tries again.
ElectrumOpenUnheard ==
  /\ CanOpenSwap
  /\ Take(Swap) /\ Error
  /\ UNCHANGED <<pc, at, marked, files, world, pending>>

ElectrumMark ==
  /\ pc["electrum"] = "mark"
  /\ MarkDone(Swap)
  /\ Goto("electrum", "supervise")
  /\ UNCHANGED <<at, files, effects, world, pending, faults>>

MutantSleepsForever ==
  pc["electrum"] = "supervise" /\ daemon = "dead" /\ UNCHANGED vars

\* wait returns, the script exits with an error and docker starts it again.
ElectrumExit ==
  /\ pc["electrum"] = "supervise" /\ daemon = "dead"
  /\ daemon' = "off"
  /\ Goto("electrum", "start")
  /\ UNCHANGED <<at, marked, files, effects, coins, guardian, gateway, pending, faults>>

DaemonDies ==
  /\ daemon \in {"up", "loaded"} /\ Error
  /\ daemon' = "dead"
  /\ UNCHANGED <<pc, at, marked, files, effects, coins, guardian, gateway, pending>>

-----------------------------------------------------------------------------
(* electrum-fund.sh, on a network Argus mines.                             *)

MutantFundAgain ==
  /\ pc["fund"] = "start"
  /\ ElectrumAddr \in files
  /\ Goto("fund", "send")
  /\ UNCHANGED <<at, marked, files, effects, world, pending, faults>>

FundStart ==
  /\ pc["fund"] = "start"
  /\ \/ Fund \in marked /\ Goto("fund", "done")
     \/ Fund \notin marked /\ ElectrumAddr \in files /\ Goto("fund", "send")
  /\ UNCHANGED <<at, marked, files, effects, world, pending, faults>>

FundSend ==
  /\ pc["fund"] = "send"
  /\ Take(Fund)
  /\ Goto("fund", "mark")
  /\ UNCHANGED <<at, marked, files, world, pending, faults>>

FundMark ==
  /\ pc["fund"] = "mark"
  /\ MarkDone(Fund)
  /\ Goto("fund", "done")
  /\ UNCHANGED <<at, files, effects, world, pending, faults>>

-----------------------------------------------------------------------------
(* ark-channel.sh; the operator funds the bridge.                          *)

BridgeAddress ==
  /\ pc["bridge"] = "address"
  /\ \/ files' = files \cup {BridgeAddr} /\ UNCHANGED faults
     \/ BridgeAddr \notin files /\ Error /\ UNCHANGED files
  /\ Goto("bridge", IF Bridge \in marked THEN "done" ELSE "open")
  /\ UNCHANGED <<at, marked, effects, world, pending>>

\* A channel takes the coins the operator sent for it.
OpenBridge ==
  /\ pc["bridge"] = "open" /\ {"bridge", "ring"} \subseteq coins
  /\ Take(Bridge)
  /\ coins' = coins \ {"bridge"}
  /\ UNCHANGED <<at, marked, files, daemon, guardian, gateway, pending>>

BridgeOpen == OpenBridge /\ Goto("bridge", "mark") /\ UNCHANGED faults

\* The channel opens, but the answer shows no txid, and the script tries again.
BridgeOpenUnheard == OpenBridge /\ Error /\ UNCHANGED pc

BridgeMark ==
  /\ pc["bridge"] = "mark"
  /\ MarkDone(Bridge)
  /\ Goto("bridge", "done")
  /\ UNCHANGED <<at, files, effects, world, pending, faults>>

-----------------------------------------------------------------------------
(* fedimint's setup.sh: the key ceremony.                                  *)

\* Every guardian must be found where a fresh one is.
SetupStart ==
  /\ pc["setup"] = "start"
  /\ \/ <<"invite", 0>> \in files /\ Goto("setup", "done")
     \/ /\ <<"invite", 0>> \notin files
        /\ \A i \in Peers : guardian[i] = "awaiting"
        /\ Goto("setup", "params")
  /\ at' = [at EXCEPT !["setup"] = 1]
  /\ UNCHANGED <<marked, files, effects, world, pending, faults>>

\* One call to each guardian in turn; the peers are exchanged between the two rounds.
Tell(round, before, after, next) ==
  LET i == at["setup"] IN
  /\ pc["setup"] = round
  /\ guardian[i] = before
  /\ guardian' = [guardian EXCEPT ![i] = after]
  /\ at' = [at EXCEPT !["setup"] = IF i = Guardians THEN 1 ELSE i + 1]
  /\ Goto("setup", IF i = Guardians THEN next ELSE round)
  /\ UNCHANGED <<marked, files, effects, daemon, coins, gateway, pending, faults>>

SetParams == Tell("params", "awaiting", "params", "start-dkg")
StartDkg == Tell("start-dkg", "params", "dkg", "invite")

\* The leader publishes the invite code once every guardian takes part.
Federated == \A i \in Peers : guardian[i] = "dkg"

CopyInvite ==
  /\ pc["setup"] = "invite" /\ Federated
  /\ files' = files \cup {<<"invite", 0>>}
  /\ Goto("setup", "done")
  /\ UNCHANGED <<at, marked, effects, world, pending, faults>>

-----------------------------------------------------------------------------
(* fedimint's gateways.sh, gateway after gateway.                          *)

G == at["gateways"]
GwFile(name) == <<name, G>>

MutantPastTheLast(isPending) ==
  /\ at' = [at EXCEPT !["gateways"] = G + 1]
  /\ Goto("gateways", IF G <= Guardians THEN "wallet" ELSE "done")
  /\ pending' = isPending

\* The next gateway; after the last, an error when a float is still pending.
NextGateway(isPending) ==
  IF G < Guardians
  THEN /\ at' = [at EXCEPT !["gateways"] = G + 1]
       /\ Goto("gateways", "wallet")
       /\ pending' = isPending
  ELSE /\ at' = [at EXCEPT !["gateways"] = 1]
       /\ Goto("gateways", IF isPending THEN "start" ELSE "done")
       /\ pending' = FALSE

GatewaysStart ==
  /\ pc["gateways"] = "start" /\ <<"invite", 0>> \in files
  /\ Goto("gateways", "wallet")
  /\ unread' = {}
  /\ UNCHANGED <<at, marked, files, effects, world, pending, kills, errors>>

\* A call whose error is ignored: what it was to bring about, or an error.
Try(fact) ==
  /\ files' = files \cup {GwFile(fact)}
  /\ \/ gateway' = [gateway EXCEPT ![G][fact] = TRUE] /\ UNCHANGED faults
     \/ Error /\ UNCHANGED gateway

GatewayWallet ==
  /\ pc["gateways"] = "wallet"
  /\ IF GwFile("wallet") \in files THEN UNCHANGED <<files, gateway, faults>> ELSE Try("wallet")
  /\ Goto("gateways", "join")
  /\ UNCHANGED <<at, marked, effects, daemon, coins, guardian, pending>>

\* Polls until the gateway runs, which it does once it has a wallet.
GatewayJoin ==
  /\ pc["gateways"] = "join" /\ gateway[G].wallet
  /\ IF GwFile("joined") \in files THEN UNCHANGED <<files, gateway, faults>> ELSE Try("joined")
  /\ Goto("gateways", "send")
  /\ UNCHANGED <<at, marked, effects, daemon, coins, guardian, pending>>

\* A gateway that is in no federation, or has its float, is passed over.
GatewaySkip ==
  /\ pc["gateways"] = "send"
  /\ ~gateway[G].joined \/ GwFile("funded") \in files
  /\ NextGateway(pending)
  /\ UNCHANGED <<marked, files, effects, world, faults>>

ToBeFunded ==
  pc["gateways"] = "send" /\ gateway[G].joined /\ GwFile("funded") \notin files

\* So is one whose federation cannot be read just now, with nothing left pending.
GatewayUnread ==
  /\ ToBeFunded /\ errors < MaxErrors
  /\ errors' = errors + 1
  /\ unread' = unread \cup {G}
  /\ NextGateway(pending)
  /\ UNCHANGED <<marked, files, effects, world, kills>>

MutantMarkedFirst ==
  /\ ToBeFunded /\ Float(G) \notin marked
  /\ "ring" \in coins
  /\ Take(Float(G))
  /\ MarkDone(Float(G))
  /\ Goto("gateways", "addr")
  /\ UNCHANGED <<at, files, world, pending, faults>>

GatewaySend ==
  /\ ToBeFunded /\ Float(G) \notin marked
  /\ "ring" \in coins
  /\ Take(Float(G))
  /\ Goto("gateways", "addr")
  /\ UNCHANGED <<at, marked, files, world, pending, faults>>

\* The float is sent, the call reports an error, and the send is left to the next run.
GatewaySendUnheard ==
  /\ ToBeFunded /\ Float(G) \notin marked
  /\ "ring" \in coins
  /\ Take(Float(G)) /\ Error
  /\ pending' = TRUE
  /\ Goto("gateways", "claim")
  /\ UNCHANGED <<at, marked, files, world>>

\* The address is written, then the marker.
GatewayAddr ==
  /\ pc["gateways"] = "addr"
  /\ gateway' = [gateway EXCEPT ![G].addr = effects[Float(G)]]
  /\ Goto("gateways", "sent")
  /\ UNCHANGED <<at, marked, files, effects, daemon, coins, guardian, pending, faults>>

GatewaySent ==
  /\ pc["gateways"] = "sent"
  /\ MarkDone(Float(G))
  /\ Goto("gateways", "claim")
  /\ UNCHANGED <<at, files, effects, world, pending, faults>>

\* Sent by an earlier attempt, not to be sent yet, or refused.
GatewayNotSent ==
  /\ ToBeFunded
  /\ \/ (Float(G) \in marked \/ "ring" \notin coins) /\ UNCHANGED faults
     \/ Error
  /\ pending' = (pending \/ Float(G) \notin marked)
  /\ Goto("gateways", "claim")
  /\ UNCHANGED <<at, marked, files, effects, world>>

\* The deposit at the recorded address becomes ecash once it is confirmed.
GatewayClaim ==
  /\ pc["gateways"] = "claim" /\ gateway[G].addr > 0
  /\ gateway[G].addr <= gateway[G].confirmed
  /\ gateway' = [gateway EXCEPT ![G].ecash = TRUE]
  /\ files' = files \cup {GwFile("funded")}
  /\ NextGateway(pending)
  /\ UNCHANGED <<marked, effects, daemon, coins, guardian, faults>>

GatewayGivesUp ==
  /\ pc["gateways"] = "claim"
  /\ gateway[G].addr = 0 \/ gateway[G].addr > gateway[G].confirmed
  /\ NextGateway(pending \/ gateway[G].addr > 0)
  /\ UNCHANGED <<marked, files, effects, world, faults>>

-----------------------------------------------------------------------------
(* What the scripts wait for, and what befalls them.                       *)

\* The ring's nodes are funded and publish their keys; the operator funds the bridge whose
\* address is published; a block confirms what was sent.
Funded(wallet) ==
  /\ wallet \notin coins
  /\ wallet = "bridge" => BridgeAddr \in files
  /\ wallet = "electrum" => effects[Fund] > 0
  /\ coins' = coins \cup {wallet}
  /\ UNCHANGED <<pc, at, marked, files, effects, daemon, guardian, gateway, pending, faults>>

Confirm(i) ==
  /\ gateway[i].confirmed < effects[Float(i)]
  /\ gateway' = [gateway EXCEPT ![i].confirmed = effects[Float(i)]]
  /\ UNCHANGED <<pc, at, marked, files, effects, daemon, coins, guardian, pending, faults>>

\* A container is killed and started again, or its finished script is run once more by
\* docker compose up.  Electrum's daemon goes with it.
Kill(script) ==
  /\ kills < MaxKills /\ pc[script] # "off"
  /\ pc' = [pc EXCEPT ![script] = First[script]]
  /\ kills' = kills + 1
  /\ at' = IF script \in DOMAIN at THEN [at EXCEPT ![script] = 1] ELSE at
  /\ daemon' = IF script = "electrum" THEN "off" ELSE daemon
  /\ pending' = (pending /\ script # "gateways")
  /\ UNCHANGED <<marked, files, effects, coins, guardian, gateway, errors, unread>>

-----------------------------------------------------------------------------
Electrum ==
  \/ ElectrumStart \/ ElectrumLoad \/ ElectrumAddress \/ ElectrumOpen \/ ElectrumMark
  \/ ElectrumExit
ElectrumFund == FundStart \/ FundSend \/ FundMark
ArkBridge == BridgeAddress \/ BridgeOpen \/ BridgeMark
Ceremony == SetupStart \/ SetParams \/ StartDkg \/ CopyInvite
GatewayScript ==
  \/ GatewaysStart \/ GatewayWallet \/ GatewayJoin \/ GatewaySkip \/ GatewayUnread \/ GatewaySend
  \/ GatewayAddr \/ GatewaySent \/ GatewayNotSent \/ GatewayClaim \/ GatewayGivesUp
Outside ==
  \/ \E wallet \in {"ring", "bridge", "electrum"} : Funded(wallet)
  \/ \E i \in Peers : Confirm(i)

\* What was done and is not known to be done.
Unheard == ElectrumOpenUnheard \/ BridgeOpenUnheard \/ GatewaySendUnheard

Next ==
  \/ Electrum \/ ElectrumFund \/ ArkBridge \/ Ceremony \/ GatewayScript
  \/ Outside
  \/ DaemonDies \/ Unheard
  \/ \E script \in Scripts : Kill(script)

\* Every script goes on, coins arrive where an address is known and blocks come; nothing has
\* to fail.
Fairness ==
  /\ WF_vars(Electrum) /\ WF_vars(ElectrumFund) /\ WF_vars(ArkBridge)
  /\ WF_vars(Ceremony) /\ WF_vars(GatewayScript)
  /\ \A wallet \in {"ring", "bridge", "electrum"} : WF_vars(Funded(wallet))
  /\ \A i \in Peers : WF_vars(Confirm(i))

Spec == Init /\ [][Next]_vars /\ Fairness

-----------------------------------------------------------------------------
(* What the scripts promise.                                               *)

Places ==
  {"off", "start", "address", "open", "mark", "supervise", "send", "params", "start-dkg",
   "invite", "wallet", "join", "addr", "sent", "claim", "done"}

TypeOK ==
  /\ pc \in [Scripts -> Places]
  /\ at \in [{"setup", "gateways"} -> Peers]
  /\ marked \subseteq Steps
  /\ effects \in [Steps -> Nat]
  /\ daemon \in {"off", "up", "loaded", "dead"}
  /\ coins \subseteq {"ring", "bridge", "electrum"}
  /\ guardian \in [Peers -> {"awaiting", "params", "dkg"}]
  /\ gateway \in [Peers -> [wallet : BOOLEAN, joined : BOOLEAN, addr : Nat,
                            confirmed : Nat, ecash : BOOLEAN]]
  /\ pending \in BOOLEAN
  /\ kills \in 0..MaxKills /\ errors \in 0..MaxErrors
  /\ unread \subseteq Peers

\* The steps that have taken effect in the attempt at hand and are not marked yet.
Unmarked ==
  (IF pc["electrum"] = "mark" THEN {Swap} ELSE {})
  \cup (IF pc["fund"] = "mark" THEN {Fund} ELSE {})
  \cup (IF pc["bridge"] = "mark" THEN {Bridge} ELSE {})
  \cup (IF pc["gateways"] \in {"addr", "sent"} THEN {Float(G)} ELSE {})

Sidecars ==
  INSTANCE AtLeastOnce WITH ready <- Steps \ (marked \cup Unmarked), faults <- kills + errors

\* "so re-running docker compose up is idempotent", as far as it goes: no script marks
\* what it has not done, does again what it has marked, or repeats a payment or a channel
\* unless it was killed between the two or took what it had done for an error.
ImplementsAtLeastOnce == Sidecars!Spec

\* The float that is claimed is one that was sent: the recorded address never runs ahead
\* of the coins, and a funded gateway holds ecash, has joined and has its marker.
FundedMeansBacked ==
  \A i \in Peers :
    /\ gateway[i].addr <= effects[Float(i)]
    /\ Float(i) \in marked => gateway[i].addr > 0
    /\ <<"funded", i>> \in files => gateway[i].ecash /\ gateway[i].joined

\* The ways in which a script waits for ever or passes over what it was to do.  Electrum's:
\* a daemon that dies while nobody watches it, one that runs without its wallet, an address
\* that is not published, and a channel that was opened, not marked, and took the coins.
DaemonUnwatched == daemon = "dead" /\ pc["electrum"] \in {"wallet", "open"}
WalletNotLoaded == daemon = "up" /\ pc["electrum"] \in {"open", "supervise"}
SwapUnfunded == pc["electrum"] = "open" /\ ElectrumAddr \notin files
SwapSpent == pc["electrum"] = "open" /\ effects[Swap] >= Openings * effects[Fund] /\ Fund \in marked
\* The bridge's: nobody knows where to send the coins.
BridgeUnfunded == pc["bridge"] = "open" /\ BridgeAddr \notin files
\* Fedimint's: a ceremony interrupted after its first call, a gateway whose wallet or
\* membership is marked and was not made, and a float passed over in silence.
CeremonyBroken ==
  pc["setup"] = "start" /\ <<"invite", 0>> \notin files /\ \E i \in Peers : guardian[i] # "awaiting"
WalletNeverMade == \E i \in Peers : <<"wallet", i>> \in files /\ ~gateway[i].wallet
NeverJoined == \E i \in Peers : <<"joined", i>> \in files /\ ~gateway[i].joined
FloatPassedOver == pc["gateways"] = "done" /\ \E i \in unread : ~gateway[i].ecash

SwapServerReady == pc["electrum"] = "supervise" /\ daemon = "loaded" /\ effects[Swap] > 0
BridgeReady == pc["bridge"] = "done" /\ effects[Bridge] > 0
FloatsReady == pc["gateways"] = "done" /\ \A i \in Peers : gateway[i].ecash

\* Every tool of the network gets provisioned in the end, whenever containers are killed and
\* calls fail, unless its own script has come to one of the dead ends above.
OnlyKnownDeadEnds ==
  /\ pc["electrum"] # "off" =>
       <>[](SwapServerReady \/ DaemonUnwatched \/ WalletNotLoaded \/ SwapUnfunded \/ SwapSpent)
  /\ pc["bridge"] # "off" => <>[](BridgeReady \/ BridgeUnfunded)
  /\ pc["setup"] # "off" => <>[](pc["setup"] = "done" \/ CeremonyBroken)
  /\ pc["gateways"] # "off" =>
       <>[](FloatsReady \/ CeremonyBroken \/ WalletNeverMade \/ NeverJoined \/ FloatPassedOver)
=============================================================================
