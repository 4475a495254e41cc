---------------------------- MODULE StackConfig ----------------------------
(***************************************************************************)
(* The configuration of an installation: the records of config.py that the *)
(* generator branches on, what a setting left unset resolves to, and which *)
(* configurations load_config accepts.                                     *)
(*                                                                         *)
(* A setting of type "bool or None" is a member of Tri.  Images, names,    *)
(* colours, amounts that nothing branches on and the free-form extra       *)
(* settings are left out.                                                  *)
(***************************************************************************)
EXTENDS Integers, Sequences, FiniteSets

Tri == {"unset", "on", "off"}

\* v, or the default when v is unset.
Resolve(v, default) == v = "on" \/ (v = "unset" /\ default)

-----------------------------------------------------------------------------
(* What is known of each network, whatever the configuration.              *)

NETWORK_ORDER ==
  <<"regtest", "testnet3", "testnet4", "signet", "mutinynet",
    "custom-signet-short", "custom-signet-long">>

Networks == {NETWORK_ORDER[i] : i \in DOMAIN NETWORK_ORDER}

CustomSignets == {"custom-signet-short", "custom-signet-long"}

\* Argus drives block production here, and may reset the chain.
Mineable == {"regtest"} \cup CustomSignets

NETWORK_SPECS ==
  [k \in Networks |->
     [supports_miner    |-> k \in Mineable,
      default_mempool   |-> k \in Mineable \cup {"mutinynet"},
      needs_knots       |-> k = "mutinynet",
      requires_challenge |-> k \in CustomSignets,
      default_reset_max |-> IF k = "custom-signet-long" THEN 300 ELSE 30]]

CLAIM_NETWORKS == {"testnet3", "testnet4"}

RingNodes == <<"lnd", "lnd2", "lnd3">>

\* The ring node an alias names.
ARK_RING_NODES == [argus1 |-> "lnd", argus2 |-> "lnd2", argus3 |-> "lnd3"]

FEDIMINT_MAX_GUARDIANS == 3

-----------------------------------------------------------------------------
(* The records of the configuration.                                       *)

Unset == "unset"
Funding == {Unset, "auto", "external"}
\* The port 0 stands for a port the operator has not set.
Port == 1..65535
PortOrUnset == {0} \cup Port

TorCfg ==
  [enabled : BOOLEAN, expose_web : BOOLEAN, expose_electrum : BOOLEAN,
   expose_lnd_p2p : BOOLEAN, expose_bitcoind_p2p : BOOLEAN]

\* The major version an image's tag names: 0 when it names none; an unset image is -1.
ImageVersion == -1..99

GlobalConfig ==
  [ssl_enabled : BOOLEAN, acme_email : BOOLEAN,
   bitcoind_image : 0..99, bitcoind_knots_image : ImageVersion, tor : TorCfg]

BitcoindCfg == [p2p_public : BOOLEAN]

LndChannelsCfg ==
  [enabled : Tri, funding : Funding, fund_btc : Nat \ {0},
   channel_btc : Nat \ {0}, rebalancer : Tri]

LndCfg == [secondary : Tri, tertiary : Tri, channels : LndChannelsCfg]

CashuCfg == [enabled : BOOLEAN, ssl : BOOLEAN, wallet : BOOLEAN]

FedimintCfg == [enabled : BOOLEAN, guardians : 1..FEDIMINT_MAX_GUARDIANS]

ArkCfg == [enabled : BOOLEAN, target_node : DOMAIN ARK_RING_NODES]

NostrRelayCfg == [enabled : BOOLEAN, public : BOOLEAN, ssl : BOOLEAN]

ElectrumSwapsCfg ==
  [enabled : BOOLEAN, target_node : DOMAIN ARK_RING_NODES,
   funding : Funding, relay : NostrRelayCfg]

BitcartPorts ==
  [store : PortOrUnset, admin : PortOrUnset, api : PortOrUnset, daemon : PortOrUnset]

BitcartLiquidityCfg ==
  [disabled : BOOLEAN, cashout_lightning_address : BOOLEAN,
   referral_fee_amount : 0..100]

BitcartCfg ==
  [enabled : BOOLEAN, ssl : BOOLEAN, admin_email : BOOLEAN,
   btclnd_p2p_pool_size : 1..50, liquidity : BitcartLiquidityCfg,
   ports : BitcartPorts]

\* CashuPayServerCfg and WooCommerceCfg.
ShopCfg == [enabled : BOOLEAN, ssl : BOOLEAN, admin_email : BOOLEAN]

IsIndexerCfg(ix) ==
  ix.name \in STRING /\ ix.enabled \in BOOLEAN /\ ix.ssl \in BOOLEAN

MempoolCfg == [enabled : Tri, ssl : BOOLEAN, lightning : BOOLEAN]

\* MinerCfg and FaucetCfg; what the faucet does with its other settings is Faucet's.
EnabledCfg == [enabled : BOOLEAN]

ClaimerCfg == [enabled : BOOLEAN, forward_to_faucet : Tri]

ResetCfg == [enabled : Tri, max_size_gb : Nat]

WebCfg ==
  [enabled : BOOLEAN, ssl : BOOLEAN, port : PortOrUnset,
   metrics_history : BOOLEAN, lnurl : [enabled : BOOLEAN, default_network : STRING]]

IsNetworkCfg(n) ==
  /\ n.enabled \in BOOLEAN
  /\ n.prune \in Nat
  /\ n.bitcoind \in BitcoindCfg
  /\ n.lnd \in LndCfg
  /\ n.cashu \in CashuCfg
  /\ n.fedimint \in FedimintCfg
  /\ n.ark \in ArkCfg
  /\ n.electrum \in ElectrumSwapsCfg
  /\ n.bitcart \in BitcartCfg
  /\ n.cashupayserver \in ShopCfg
  /\ n.woocommerce \in ShopCfg
  /\ \A i \in DOMAIN n.indexers : IsIndexerCfg(n.indexers[i])
  /\ n.mempool \in MempoolCfg
  /\ n.miner \in EnabledCfg
  /\ n.claimer \in ClaimerCfg
  /\ n.reset \in ResetCfg
  /\ n.faucet \in EnabledCfg
  /\ \A name \in DOMAIN n.ports : n.ports[name] \in Port

IsArgusConfig(cfg) ==
  /\ cfg.global \in GlobalConfig
  /\ cfg.web \in WebCfg
  /\ \A k \in DOMAIN cfg.networks : IsNetworkCfg(cfg.networks[k])

\* The configuration a file that only enables the network gives.
DefaultNetwork ==
  [enabled |-> TRUE, prune |-> 0,
   bitcoind |-> [p2p_public |-> TRUE],
   lnd |-> [secondary |-> Unset, tertiary |-> Unset,
            channels |-> [enabled |-> Unset, funding |-> Unset, fund_btc |-> 25,
                          channel_btc |-> 10, rebalancer |-> Unset]],
   cashu |-> [enabled |-> TRUE, ssl |-> TRUE, wallet |-> TRUE],
   fedimint |-> [enabled |-> TRUE, guardians |-> 1],
   ark |-> [enabled |-> FALSE, target_node |-> "argus1"],
   electrum |-> [enabled |-> TRUE, target_node |-> "argus1", funding |-> Unset,
                 relay |-> [enabled |-> TRUE, public |-> TRUE, ssl |-> TRUE]],
   bitcart |-> [enabled |-> TRUE, ssl |-> TRUE, admin_email |-> FALSE,
                btclnd_p2p_pool_size |-> 5,
                liquidity |-> [disabled |-> FALSE, cashout_lightning_address |-> FALSE,
                               referral_fee_amount |-> 0],
                ports |-> [store |-> 0, admin |-> 0, api |-> 0, daemon |-> 0]],
   cashupayserver |-> [enabled |-> TRUE, ssl |-> TRUE, admin_email |-> FALSE],
   woocommerce |-> [enabled |-> TRUE, ssl |-> TRUE, admin_email |-> FALSE],
   indexers |-> <<[name |-> "fulcrum-1", enabled |-> TRUE, ssl |-> TRUE]>>,
   mempool |-> [enabled |-> Unset, ssl |-> TRUE, lightning |-> TRUE],
   miner |-> [enabled |-> TRUE],
   claimer |-> [enabled |-> FALSE, forward_to_faucet |-> Unset],
   reset |-> [enabled |-> Unset, max_size_gb |-> 0],
   faucet |-> [enabled |-> TRUE],
   ports |-> << >>]

-----------------------------------------------------------------------------
(* What a network's settings resolve to: k is its key, n its settings.     *)

SpecOf(k) == NETWORK_SPECS[k]

EnabledNetworks(cfg) ==
  {k \in DOMAIN cfg.networks \cap Networks : cfg.networks[k].enabled}

FaucetNetworks(cfg) ==
  {k \in EnabledNetworks(cfg) : cfg.networks[k].faucet.enabled}

EnabledIndexers(n) == SelectSeq(n.indexers, LAMBDA ix : ix.enabled)

ShopEmail(n, shop) == shop.admin_email \/ n.bitcart.admin_email

MempoolEnabled(k, n) == Resolve(n.mempool.enabled, SpecOf(k).default_mempool)

ResetEnabled(k, n) == Resolve(n.reset.enabled, k \in Mineable)

ResetMaxSizeGb(k, n) ==
  IF n.reset.max_size_gb > 0 THEN n.reset.max_size_gb ELSE SpecOf(k).default_reset_max

Mines(k, n) == SpecOf(k).supports_miner /\ n.miner.enabled

ChannelsEnabled(n) == Resolve(n.lnd.channels.enabled, TRUE)

SecondaryEnabled(n) == Resolve(n.lnd.secondary, ChannelsEnabled(n))

TertiaryEnabled(n) == Resolve(n.lnd.tertiary, ChannelsEnabled(n))

FundingMode(k, n, v) ==
  IF v # Unset THEN v ELSE IF Mines(k, n) THEN "auto" ELSE "external"

LndFundingMode(k, n) == FundingMode(k, n, n.lnd.channels.funding)

ClaimerForwards(n) == Resolve(n.claimer.forward_to_faucet, n.faucet.enabled)

RebalancerEnabled(n) == Resolve(n.lnd.channels.rebalancer, ChannelsEnabled(n))

\* Every chain of Networks is one fedimintd and captaind can run on.
FedimintSupported(k) == k \in Networks
FedimintEnabled(k, n) == n.fedimint.enabled /\ FedimintSupported(k)
ArkEnabled(k, n) == n.ark.enabled /\ FedimintSupported(k)

AvailableRingNodes(n) ==
  1 + (IF SecondaryEnabled(n) THEN 1 ELSE 0) + (IF TertiaryEnabled(n) THEN 1 ELSE 0)

GuardianCount(k, n) == IF FedimintEnabled(k, n) THEN n.fedimint.guardians ELSE 0

\* The ring nodes that are deployed: the first one always is.
DeployedRing(n) ==
  {"lnd"} \cup (IF SecondaryEnabled(n) THEN {"lnd2"} ELSE {})
          \cup (IF TertiaryEnabled(n) THEN {"lnd3"} ELSE {})

TargetEnabled(n, alias) == ARK_RING_NODES[alias] \in DeployedRing(n)

RelayEnabled(n) == n.electrum.enabled /\ n.electrum.relay.enabled

ElectrumFundingMode(k, n) == FundingMode(k, n, n.electrum.funding)

BitcoindGated(k, n) ==
  k = "regtest" /\ n.bitcoind.p2p_public /\ ChannelsEnabled(n)

-----------------------------------------------------------------------------
(* _validate_semantics: one conjunct per check.                            *)

NodeImage(g, k) == IF SpecOf(k).needs_knots THEN g.bitcoind_knots_image ELSE g.bitcoind_image

ValidNode(g, k, n) ==
  /\ SpecOf(k).needs_knots => g.bitcoind_knots_image # -1
  /\ n.prune > 0 => /\ EnabledIndexers(n) = << >>
                    /\ ~MempoolEnabled(k, n)
                    /\ ~n.bitcart.enabled
  /\ n.claimer.enabled => k \in CLAIM_NETWORKS
  /\ n.reset.enabled = "on" => k \in Mineable

MutantRingOfTwo(k, n) ==
  ChannelsEnabled(n) =>
    /\ SecondaryEnabled(n)
    /\ LndFundingMode(k, n) = "auto" => Mines(k, n)
    /\ n.lnd.channels.channel_btc <= n.lnd.channels.fund_btc

ValidRing(k, n) ==
  ChannelsEnabled(n) =>
    /\ SecondaryEnabled(n) /\ TertiaryEnabled(n)
    /\ LndFundingMode(k, n) = "auto" => Mines(k, n)
    /\ n.lnd.channels.channel_btc <= n.lnd.channels.fund_btc

\* LNURL addresses resolve only over https, so only then do they supply the payouts.
LnurlSuppliesCashout(cfg) ==
  cfg.global.ssl_enabled /\ cfg.web.enabled /\ cfg.web.lnurl.enabled

ValidBitcart(cfg, n) ==
  n.bitcart.enabled =>
    /\ n.bitcart.admin_email
    /\ \/ n.bitcart.liquidity.disabled
       \/ n.bitcart.liquidity.cashout_lightning_address
       \/ LnurlSuppliesCashout(cfg)
    /\ n.bitcart.liquidity.referral_fee_amount > 0 => LnurlSuppliesCashout(cfg)

ValidShops(n) ==
  /\ n.cashupayserver.enabled => n.cashu.enabled /\ ShopEmail(n, n.cashupayserver)
  /\ n.woocommerce.enabled => n.cashupayserver.enabled /\ ShopEmail(n, n.woocommerce)

ValidFedimint(k, n) ==
  FedimintEnabled(k, n) => n.fedimint.guardians <= AvailableRingNodes(n)

ValidArk(g, k, n) ==
  ArkEnabled(k, n) =>
    /\ TargetEnabled(n, n.ark.target_node)
    /\ NodeImage(g, k) > 0 => NodeImage(g, k) >= 29

ValidElectrum(k, n) ==
  n.electrum.enabled =>
    /\ EnabledIndexers(n) # << >>
    /\ TargetEnabled(n, n.electrum.target_node)
    /\ ElectrumFundingMode(k, n) = "auto" => Mines(k, n)

PublicSsl(k, n) ==
  /\ k # "regtest"
  /\ \/ n.cashu.enabled /\ n.cashu.ssl
     \/ RelayEnabled(n) /\ n.electrum.relay.public /\ n.electrum.relay.ssl
     \/ FedimintEnabled(k, n)
     \/ ArkEnabled(k, n)
     \/ n.bitcart.enabled /\ n.bitcart.ssl
     \/ n.cashupayserver.enabled /\ n.cashupayserver.ssl
     \/ n.woocommerce.enabled /\ n.woocommerce.ssl
     \/ MempoolEnabled(k, n) /\ n.mempool.ssl
     \/ \E i \in DOMAIN n.indexers : n.indexers[i].enabled /\ n.indexers[i].ssl

ValidAcme(cfg) ==
  /\ cfg.global.ssl_enabled
  /\ \E k \in EnabledNetworks(cfg) : PublicSsl(k, cfg.networks[k])
  => cfg.global.acme_email

ValidDefaultNetwork(cfg) ==
  cfg.web.enabled /\ cfg.web.lnurl.enabled /\ cfg.web.lnurl.default_network # Unset =>
    cfg.web.lnurl.default_network \in EnabledNetworks(cfg)

Valid(cfg) ==
  /\ DOMAIN cfg.networks \subseteq Networks
  /\ \A k \in EnabledNetworks(cfg) :
       LET n == cfg.networks[k] IN
       /\ ValidNode(cfg.global, k, n)
       /\ ValidRing(k, n)
       /\ ValidBitcart(cfg, n)
       /\ ValidShops(n)
       /\ ValidFedimint(k, n)
       /\ ValidArk(cfg.global, k, n)
       /\ ValidElectrum(k, n)
  /\ ValidAcme(cfg)
  /\ ValidDefaultNetwork(cfg)
=============================================================================
