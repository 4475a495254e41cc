---------------------------- MODULE LiquidityRing ----------------------------
(***************************************************************************)
(* How the three LND nodes of a network become a ring of channels: the     *)
(* sidecars lnd-setup (funds the three wallets) and lnd-channels (node n   *)
(* opens one channel to node n+1), the marker files they share, the miner, *)
(* and the gate that keeps bitcoind's P2P port closed on regtest           *)
(* (argus/builders/lnd.py, argus/builders/bitcoind.py).                    *)
(*                                                                         *)
(* Both sidecars are shell scripts that docker starts again from the top   *)
(* when they fail; only the marker files remember what was done.  Amounts  *)
(* are small integers; one block confirms everything.                      *)
(***************************************************************************)
EXTENDS Integers

CONSTANTS
  Fund,       \* fund_btc: what lnd-setup pays into a wallet (or a second deposit)
  Chan,       \* channel_btc
  Fee,        \* what opening a channel costs on chain
  Modes,      \* how the network is funded, a subset of AllModes
  MaxFaults   \* bound of the model: how many faults happen

AllModes == {"regtest", "signet", "external"}

ASSUME RingAssumption ==
  /\ Fund \in Nat /\ Chan \in Nat \ {0} /\ Fee \in Nat
  /\ Chan <= Fund
  /\ Modes \subseteq AllModes
  /\ MaxFaults \in Nat

Nodes == 1..3
Next3(n) == IF n = 3 THEN 1 ELSE n + 1

VARIABLES
  mode,      \* the network's funding: never changes
  setup,     \* where lnd-setup stands
  payee,     \* the node lnd-setup pays next
  opener,    \* where lnd-channels stands
  edge,      \* the node lnd-channels waits for, or whose channel it opens
  markers,   \* files in the volume lnd_setup_state
  conf,      \* confirmed on-chain balance of each node
  unconf,    \* unconfirmed on-chain balance of each node
  pending,   \* channels node n has opened to the next, not yet confirmed
  active,    \* and confirmed
  p2p,       \* does bitcoind listen for peers?
  sent,      \* history: payments into each wallet
  faults     \* history: faults so far

setupVars == <<setup, payee>>
openerVars == <<opener, edge>>
wallets == <<conf, unconf>>
channels == <<pending, active>>
vars == <<mode, setupVars, openerVars, markers, wallets, channels, p2p, sent, faults>>

\* funding: auto.
SelfFunded == mode # "external"
\* The marker files: ring_ln_lm of node n is n.
Funded == 0
ChannelsDone == 4

Init ==
  /\ mode \in Modes
  /\ setup = IF SelfFunded THEN "start" ELSE "done"
  /\ payee = 1
  /\ opener = "start"
  /\ edge = 1
  /\ markers = {}
  /\ conf = [n \in Nodes |-> 0]
  /\ unconf = [n \in Nodes |-> 0]
  /\ pending = [n \in Nodes |-> 0]
  /\ active = [n \in Nodes |-> 0]
  /\ p2p = (mode # "regtest")
  /\ sent = [n \in Nodes |-> 0]
  /\ faults = 0
------------------------------------------------------------------------------
(* The chain, the gate and the operator.                                   *)

\* A block confirms every transaction.
Confirm ==
  /\ conf' = [n \in Nodes |-> conf[n] + unconf[n]]
  /\ unconf' = [n \in Nodes |-> 0]
  /\ active' = [n \in Nodes |-> active[n] + pending[n]]
  /\ pending' = [n \in Nodes |-> 0]

\* The miner's steady state, or the public network.
Mine ==
  /\ \E n \in Nodes : unconf[n] + pending[n] > 0
  /\ Confirm
  /\ UNCHANGED <<mode, setupVars, openerVars, markers, p2p, sent, faults>>

\* A payment into the wallet of n is broadcast.
Pay(n, amount) ==
  /\ unconf' = [unconf EXCEPT ![n] = @ + amount]
  /\ sent' = [sent EXCEPT ![n] = @ + 1]

\* External funding: the operator sends the amount lnd-channels asks for to the
\* node's address.
Deposit(n) ==
  /\ ~SelfFunded
  /\ sent[n] = 0
  /\ Pay(n, Chan)
  /\ UNCHANGED <<mode, setupVars, openerVars, markers, conf, channels, p2p, faults>>

\* And later tops the wallet up.
TopUp(n) ==
  /\ ~SelfFunded
  /\ sent[n] = 1
  /\ Pay(n, Fund)
  /\ UNCHANGED <<mode, setupVars, openerVars, markers, conf, channels, p2p, faults>>

\* bitcoind's entrypoint on regtest restarts it with -listen once the marker
\* is there.
OpenGate ==
  /\ ~p2p
  /\ ChannelsDone \in markers
  /\ p2p' = TRUE
  /\ UNCHANGED <<mode, setupVars, openerVars, markers, wallets, channels, sent, faults>>
------------------------------------------------------------------------------
(* lnd-setup.                                                              *)

\* Already funded: exit 0.  Otherwise wait for the wallet, the addresses and
\* the balance, which change nothing here.
SetupStart ==
  /\ setup = "start"
  /\ setup' = IF Funded \in markers THEN "done" ELSE "send"
  /\ payee' = 1
  /\ UNCHANGED <<mode, openerVars, markers, wallets, channels, p2p, sent, faults>>

\* sendtoaddress, for each node in turn.
SendTo(n) ==
  /\ setup = "send"
  /\ payee = n
  /\ Pay(n, Fund)
  /\ payee' = Next3(n)
  /\ setup' = IF n = 3 THEN "confirm" ELSE "send"
  /\ UNCHANGED <<mode, openerVars, markers, conf, channels, p2p, faults>>

\* On regtest the script mines the payments itself.
ConfirmFunding ==
  /\ setup = "confirm"
  /\ setup' = "mark"
  /\ IF mode = "regtest" THEN Confirm ELSE UNCHANGED <<wallets, channels>>
  /\ UNCHANGED <<mode, payee, openerVars, markers, p2p, sent, faults>>

MarkFunded ==
  /\ setup = "mark"
  /\ setup' = "done"
  /\ markers' = markers \cup {Funded}
  /\ UNCHANGED <<mode, payee, openerVars, wallets, channels, p2p, sent, faults>>
------------------------------------------------------------------------------
(* lnd-channels.                                                           *)

\* A mutation: with automatic funding too, only the balances are awaited.
MutantIgnoreFunded ==
  /\ opener = "start"
  /\ opener' = "balance"
  /\ edge' = 1
  /\ UNCHANGED <<mode, setupVars, markers, wallets, channels, p2p, sent, faults>>

\* With automatic funding, wait for lnd-setup's marker.
AwaitFunded ==
  /\ opener = "start"
  /\ SelfFunded => Funded \in markers
  /\ opener' = "balance"
  /\ edge' = 1
  /\ UNCHANGED <<mode, setupVars, markers, wallets, channels, p2p, sent, faults>>

\* A mutation: the balance is compared with fund_btc.
MutantAwaitFund ==
  /\ opener = "balance"
  /\ conf[edge] >= Fund
  /\ edge' = Next3(edge)
  /\ opener' = IF edge = 3 THEN "open" ELSE "balance"
  /\ UNCHANGED <<mode, setupVars, markers, wallets, channels, p2p, sent, faults>>

\* Wait until node 1, then 2, then 3 has a channel's worth of confirmed coins,
\* whether or not its channel is open already; then until all are synced.
AwaitBalance ==
  /\ opener = "balance"
  /\ conf[edge] >= Chan
  /\ edge' = Next3(edge)
  /\ opener' = IF edge = 3 THEN "open" ELSE "balance"
  /\ UNCHANGED <<mode, setupVars, markers, wallets, channels, p2p, sent, faults>>

\* A mutation: one edge too many.
MutantNextEdge ==
  /\ edge' = edge + 1
  /\ opener' = IF edge = 3 THEN "mark" ELSE "open"

\* On to the next edge, or to the marker that ends the round.
NextEdge ==
  /\ edge' = Next3(edge)
  /\ opener' = IF edge = 3 THEN "mark" ELSE "open"

\* open_dir: the edge's marker is there.
SkipEdge ==
  /\ opener = "open"
  /\ edge \in markers
  /\ NextEdge
  /\ UNCHANGED <<mode, setupVars, markers, wallets, channels, p2p, sent, faults>>

\* openchannel succeeds.  What is left of the coins it spends comes back as
\* unconfirmed change: all the rest or, if it found coins that fit, nothing.
BroadcastChannel ==
  /\ conf[edge] >= Chan + Fee
  /\ \E change \in {0, conf[edge] - Chan - Fee} :
        /\ conf' = [conf EXCEPT ![edge] = @ - Chan - Fee - change]
        /\ unconf' = [unconf EXCEPT ![edge] = @ + change]
  /\ pending' = [pending EXCEPT ![edge] = @ + 1]

\* A mutation: the marker is not looked at.
MutantOpenAgain ==
  /\ opener = "open"
  /\ BroadcastChannel
  /\ opener' = "touch"
  /\ UNCHANGED <<mode, setupVars, edge, markers, active, p2p, sent, faults>>

\* open_dir: no marker, so openchannel.
OpenChannel ==
  /\ opener = "open"
  /\ edge \notin markers
  /\ BroadcastChannel
  /\ opener' = "touch"
  /\ UNCHANGED <<mode, setupVars, edge, markers, active, p2p, sent, faults>>

\* open_dir: openchannel is refused for lack of coins; set -e ends the script.
OpenUnfunded ==
  /\ opener = "open"
  /\ edge \notin markers
  /\ conf[edge] < Chan + Fee
  /\ opener' = "start"
  /\ UNCHANGED <<mode, setupVars, edge, markers, wallets, channels, p2p, sent, faults>>

\* open_dir: touch the edge's marker.
TouchEdge ==
  /\ opener = "touch"
  /\ markers' = markers \cup {edge}
  /\ NextEdge
  /\ UNCHANGED <<mode, setupVars, wallets, channels, p2p, sent, faults>>

MarkChannels ==
  /\ opener = "mark"
  /\ markers' = markers \cup {ChannelsDone}
  /\ opener' = "active"
  /\ UNCHANGED <<mode, setupVars, edge, wallets, channels, p2p, sent, faults>>

\* Wait until each node lists two active channels: the ring is up, and the
\* initial rebalance follows.
AwaitActive ==
  /\ opener = "active"
  /\ \A n \in Nodes : active[n] + active[Next3(n)] >= 2
  /\ opener' = "up"
  /\ UNCHANGED <<mode, setupVars, edge, markers, wallets, channels, p2p, sent, faults>>
------------------------------------------------------------------------------
(* Faults.  Docker restarts a script that fails; docker compose up starts  *)
(* even those that ended well.                                             *)

SetupDies ==
  /\ faults < MaxFaults
  /\ setup \in {"send", "confirm", "mark"}
  /\ setup' = "start"
  /\ faults' = faults + 1
  /\ UNCHANGED <<mode, payee, openerVars, markers, wallets, channels, p2p, sent>>

\* Killed, or openchannel refused (node or peer not ready), which set -e makes
\* the same.
OpenerDies ==
  /\ faults < MaxFaults
  /\ opener \notin {"start", "up"}
  /\ opener' = "start"
  /\ faults' = faults + 1
  /\ UNCHANGED <<mode, setupVars, edge, markers, wallets, channels, p2p, sent>>

Redeploy ==
  /\ faults < MaxFaults
  /\ setup' = IF SelfFunded THEN "start" ELSE "done"
  /\ opener' = "start"
  /\ faults' = faults + 1
  /\ UNCHANGED <<mode, payee, edge, markers, wallets, channels, p2p, sent>>
------------------------------------------------------------------------------
Setup == SetupStart \/ (\E n \in Nodes : SendTo(n)) \/ ConfirmFunding \/ MarkFunded
Opener == \/ AwaitFunded \/ AwaitBalance \/ SkipEdge \/ OpenChannel \/ OpenUnfunded
          \/ TouchEdge \/ MarkChannels \/ AwaitActive
Fault == SetupDies \/ OpenerDies \/ Redeploy

Next == \/ Mine \/ (\E n \in Nodes : Deposit(n) \/ TopUp(n)) \/ OpenGate
        \/ Setup \/ Opener \/ Fault

Spec == Init /\ [][Next]_vars

\* Docker runs the scripts and starts them again, blocks keep coming, and the
\* operator of an externally funded network does send the coins.
Fairness ==
  /\ WF_vars(Mine) /\ WF_vars(OpenGate)
  /\ WF_vars(Setup) /\ WF_vars(Opener)
  /\ \A n \in Nodes : WF_vars(Deposit(n)) /\ WF_vars(TopUp(n))

FairSpec == Spec /\ Fairness
------------------------------------------------------------------------------
\* Every variable has its type; in particular no wallet is overdrawn.
TypeOK ==
  /\ mode \in Modes
  /\ setup \in {"start", "send", "confirm", "mark", "done"}
  /\ payee \in Nodes
  /\ opener \in {"start", "balance", "open", "touch", "mark", "active", "up"}
  /\ edge \in Nodes
  /\ markers \subseteq 0..4
  /\ conf \in [Nodes -> Nat] /\ unconf \in [Nodes -> Nat]
  /\ pending \in [Nodes -> Nat] /\ active \in [Nodes -> Nat]
  /\ p2p \in BOOLEAN
  /\ sent \in [Nodes -> Nat]
  /\ faults \in 0..MaxFaults

Opened(n) == pending[n] + active[n]
Rounds == IF SelfFunded THEN sent[1] ELSE 0
Excess(count) == IF count > 1 THEN count - 1 ELSE 0

\* A fault costs at most one thing done twice: a round of payments by
\* lnd-setup, or one channel by lnd-channels.  (The scripts call themselves
\* idempotent; between an effect and its marker they are not.)
OneRepeatPerFault ==
  /\ \A n \in Nodes : SelfFunded => sent[n] <= sent[1]
  /\ Excess(Rounds) + Excess(Opened(1)) + Excess(Opened(2)) + Excess(Opened(3)) <= faults

\* On regtest bitcoind accepts peers only when the wallets are paid and every
\* channel is broadcast, and nothing more is paid or opened once it does.
PrivateWhileFunding ==
  mode = "regtest" /\ p2p =>
     /\ \A n \in Nodes : sent[n] >= 1 /\ Opened(n) >= 1 /\ n \in markers
     /\ setup \notin {"send", "confirm", "mark"}
     /\ opener # "touch"

\* However the sidecars fail, as long as each fund covers one more channel than
\* there are faults the ring comes up and stays up.
RingComesUp == <>[](opener = "up")
=============================================================================
