--------------------------- MODULE StackServices ---------------------------
(***************************************************************************)
(* The compose project of one network: the services the builders emit,     *)
(* what each waits for before it starts, the host ports it publishes and   *)
(* the named volumes it mounts.                                            *)
(*                                                                         *)
(* A fragment is what one builder returns: its services, each a pair of a  *)
(* name and a service, and the volumes it declares.  generate_network      *)
(* merges the fragments in the order of the registry, a later service      *)
(* replacing an earlier one of the same name.                              *)
(***************************************************************************)
EXTENDS StackConfig

\* Port names are a name of PORT_OFFSETS and 0, or a computed name and an index.
P(name) == <<name, 0>>
Public(name) == <<name, TRUE>>
Loopback(name) == <<name, FALSE>>

\* The three conditions a dependency may carry.
Started(s) == <<s, "service_started">>
Healthy(s) == <<s, "service_healthy">>
Completed(s) == <<s, "service_completed_successfully">>

OnlyIf(cond, set) == IF cond THEN set ELSE {}

\* A long-running service, restarted unless stopped, with or without a healthcheck.
Daemon(check, deps, ports, volumes) ==
  [job |-> FALSE, restart |-> "unless-stopped", healthcheck |-> check,
   depends_on |-> deps, ports |-> ports, volumes |-> volumes]

\* A service that does its work and exits.
Job(restart, deps, volumes) ==
  [job |-> TRUE, restart |-> restart, healthcheck |-> FALSE,
   depends_on |-> deps, ports |-> {}, volumes |-> volumes]

Fragment(services, volumes) == [services |-> services, volumes |-> volumes]

-----------------------------------------------------------------------------
(* The builders.  g is the global configuration, k the network, n its      *)
(* settings.                                                               *)

Bitcoind(g, k, n) ==
  Fragment(
    {<<"bitcoind", Daemon(TRUE, {},
      {Loopback(P("bitcoind_rpc")), <<P("bitcoind_p2p"), n.bitcoind.p2p_public>>},
      {"bitcoind_data"} \cup OnlyIf(BitcoindGated(k, n), {"lnd_setup_state"}))>>},
    {"bitcoind_data"})

\* Only the second node dials out over Tor, and so waits for the proxy.
DialsOverTor(g, s) == g.tor.enabled /\ g.tor.expose_lnd_p2p /\ s = "lnd2"

LndVolume == [lnd |-> "lnd_data", lnd2 |-> "lnd2_data", lnd3 |-> "lnd3_data"]
LndPortNames ==
  [lnd  |-> [p2p |-> "lnd_p2p", grpc |-> "lnd_grpc", rest |-> "lnd_rest"],
   lnd2 |-> [p2p |-> "lnd2_p2p", grpc |-> "lnd2_grpc", rest |-> "lnd2_rest"],
   lnd3 |-> [p2p |-> "lnd3_p2p", grpc |-> "lnd3_grpc", rest |-> "lnd3_rest"]]
LndPort(s, kind) == P(LndPortNames[s][kind])
TorWait == [lnd |-> "lnd-tor-wait", lnd2 |-> "lnd2-tor-wait", lnd3 |-> "lnd3-tor-wait"]
NodeInfo == [lnd |-> "lnd-nodeinfo", lnd2 |-> "lnd2-nodeinfo", lnd3 |-> "lnd3-nodeinfo"]

LndNode(g, s) ==
  Daemon(TRUE,
    {Healthy("bitcoind")} \cup OnlyIf(DialsOverTor(g, s), {Completed(TorWait[s])}),
    {Public(LndPort(s, "p2p")), Loopback(LndPort(s, "grpc")), Loopback(LndPort(s, "rest"))},
    {LndVolume[s]})

LndNodes(g, n) ==
  {<<s, LndNode(g, s)>> : s \in DeployedRing(n)}
  \cup {<<NodeInfo[s], Daemon(FALSE, {Healthy(s)}, {}, {LndVolume[s]})>> :
          s \in DeployedRing(n)}
  \cup {<<TorWait[s], Job("no", {}, {})>> :
          s \in {s \in DeployedRing(n) : DialsOverTor(g, s)}}

RingHealthy == {Healthy("lnd"), Healthy("lnd2"), Healthy("lnd3")}
RingVolumes == {"lnd_data", "lnd2_data", "lnd3_data", "lnd_setup_state"}

\* The funding sidecar, the ring opener and the rebalancer.
RingSidecars(k, n) ==
  LET auto == LndFundingMode(k, n) = "auto" IN
  {<<"lnd-channels",
     Job("on-failure", RingHealthy \cup OnlyIf(auto, {Started("lnd-setup")}), RingVolumes)>>}
  \cup OnlyIf(auto,
    {<<"lnd-setup",
       Job("on-failure", {Healthy("bitcoind")} \cup RingHealthy, RingVolumes)>>})
  \cup OnlyIf(RebalancerEnabled(n),
    {<<"lnd-rebalancer",
       Daemon(FALSE, RingHealthy \cup {Started("lnd-channels")}, {}, RingVolumes)>>})

Lnd(g, k, n) ==
  Fragment(LndNodes(g, n) \cup OnlyIf(ChannelsEnabled(n), RingSidecars(k, n)),
           {LndVolume[s] : s \in DeployedRing(n)}
             \cup OnlyIf(ChannelsEnabled(n), {"lnd_setup_state"}))

\* Every indexer is named by the operator; i is its index among the enabled ones.
IndexerVolume(name) == name \o "_data"

IndexerNames(n) == {EnabledIndexers(n)[i].name : i \in DOMAIN EnabledIndexers(n)}

\* The indexers that no later one of the same name replaces.
LastOfItsName(n, i) ==
  \A j \in DOMAIN EnabledIndexers(n) :
    j # i /\ EnabledIndexers(n)[j].name = EnabledIndexers(n)[i].name => j < i

Indexer(n, i) ==
  Daemon(TRUE, {Healthy("bitcoind")},
    {Public(<<"fulcrum_electrum_tcp", i - 1>>), Loopback(<<"fulcrum_admin", i - 1>>)},
    {IndexerVolume(EnabledIndexers(n)[i].name)})

Fulcrum(n) ==
  Fragment(
    {<<EnabledIndexers(n)[i].name, Indexer(n, i)>> :
       i \in {i \in DOMAIN EnabledIndexers(n) : LastOfItsName(n, i)}},
    {IndexerVolume(name) : name \in IndexerNames(n)})

MutantCashuEarly ==
  Fragment({<<"cashu", Daemon(TRUE, {Started("lnd")}, {Loopback(P("cashu_backend"))},
                              {"cashu_data", "lnd_data"})>>},
           {"cashu_data"})

Cashu ==
  Fragment({<<"cashu", Daemon(TRUE, {Healthy("lnd")}, {Loopback(P("cashu_backend"))},
                              {"cashu_data", "lnd_data"})>>},
           {"cashu_data"})

CashuWallet ==
  Fragment({<<"cashu-wallet",
              Daemon(FALSE, {}, {Loopback(P("cashu_wallet_backend"))}, {})>>},
           {})

Guardians == <<"fedimintd", "fedimintd2", "fedimintd3">>
Gateways == <<"gatewayd", "gatewayd2", "gatewayd3">>
DataOf ==
  [fedimintd |-> "fedimintd_data", fedimintd2 |-> "fedimintd2_data",
   fedimintd3 |-> "fedimintd3_data", gatewayd |-> "gatewayd_data",
   gatewayd2 |-> "gatewayd2_data", gatewayd3 |-> "gatewayd3_data"]

Guardian(i) ==
  Daemon(FALSE, {Healthy("bitcoind")},
    {Loopback(<<"fedimintd_api", i - 1>>), Loopback(<<"fedimintd_ui", i - 1>>)},
    {DataOf[Guardians[i]]})

\* Gateway i is paired with ring node i, deployed or not.
Gateway(i) ==
  Daemon(FALSE, {Healthy(RingNodes[i])}, {Loopback(<<"gatewayd_api", i - 1>>)},
    {DataOf[Gateways[i]], LndVolume[RingNodes[i]]})

Fedimint(k, n) ==
  LET count == 1..GuardianCount(k, n)
      guardians == {Guardians[i] : i \in count}
      gateways == {Gateways[i] : i \in count}
  IN Fragment(
       {<<Guardians[i], Guardian(i)>> : i \in count}
       \cup {<<Gateways[i], Gateway(i)>> : i \in count}
       \cup {<<"fedimint-setup",
               Job("on-failure", {Started(s) : s \in guardians},
                   {DataOf["fedimintd"], "fedimint_state"})>>,
             <<"fedimint-gateways",
               Job("on-failure",
                   {Started(s) : s \in gateways} \cup {Started("fedimint-setup")},
                   {"fedimint_state"})>>},
       {DataOf[s] : s \in guardians \cup gateways} \cup {"fedimint_state"})

Ark(n) ==
  LET target == ARK_RING_NODES[n.ark.target_node] IN
  Fragment(
    {<<"cln", Daemon(TRUE, {Healthy("bitcoind")},
         {Public(P("ark_cln_p2p")), Loopback(P("ark_cln_grpc")), Loopback(P("ark_cln_hold"))},
         {"ark_cln_data"})>>,
     <<"captaind", Daemon(TRUE, {Healthy("bitcoind"), Healthy("cln")},
         {Loopback(P("ark_captaind")), Loopback(P("ark_captaind_admin"))},
         {"ark_captaind_data", "ark_captaind_pg", "ark_cln_data"})>>,
     <<"ark-setup", Job("on-failure", {Healthy("captaind")}, {"ark_state"})>>,
     <<"ark-channel", Job("on-failure", {Healthy("cln"), Healthy(target)},
         {"ark_cln_data", LndVolume[target], "ark_state"})>>},
    {"ark_cln_data", "ark_captaind_data", "ark_captaind_pg", "ark_state"})

Electrum(k, n) ==
  LET target == ARK_RING_NODES[n.electrum.target_node]
      relay == RelayEnabled(n)
  IN Fragment(
       {<<"electrum", Daemon(FALSE,
            {Healthy("bitcoind"), Healthy(EnabledIndexers(n)[1].name), Healthy(target)}
              \cup OnlyIf(relay, {Started("nostr-relay")}),
            {Loopback(P("electrum_rpc"))},
            {"electrum_data", "electrum_state", LndVolume[target]})>>}
       \cup OnlyIf(ElectrumFundingMode(k, n) = "auto",
         {<<"electrum-fund", Job("on-failure",
              {Healthy("bitcoind"), Started("electrum")}, {"electrum_state"})>>})
       \cup OnlyIf(relay,
         {<<"nostr-relay", Daemon(FALSE, {}, {Loopback(P("nostr_relay_backend"))},
                                  {"nostr_relay_data"})>>,
          <<"nostr-relay-sweeper", Daemon(FALSE, {Started("nostr-relay")}, {},
                                          {"nostr_relay_data"})>>}),
       {"electrum_data", "electrum_state"} \cup OnlyIf(relay, {"nostr_relay_data"}))

CashuPayServer ==
  Fragment(
    {<<"cashupayserver-init",
       Job("no", {}, {"cashupayserver_data", "cashupayserver_pairing"})>>,
     <<"cashupayserver",
       Daemon(FALSE, {Completed("cashupayserver-init")},
         {Loopback(P("cashupayserver_backend"))}, {"cashupayserver_data"})>>},
    {"cashupayserver_data", "cashupayserver_pairing"})

WooCommerce ==
  Fragment(
    {<<"woocommerce-db", Daemon(TRUE, {}, {}, {"woocommerce_db_data"})>>,
     <<"woocommerce", Daemon(FALSE, {Healthy("woocommerce-db")},
         {Loopback(P("woocommerce_backend"))}, {"wordpress_data"})>>,
     <<"woocommerce-init", Job("no",
         {Healthy("woocommerce-db"), Started("woocommerce"), Completed("cashupayserver-init")},
         {"wordpress_data", "cashupayserver_pairing"})>>},
    {"woocommerce_db_data", "wordpress_data"})

Mempool(n) ==
  Fragment(
    {<<"mempool-db", Daemon(TRUE, {}, {}, {"mempool_db_data"})>>,
     <<"mempool-api", Daemon(FALSE,
         {Healthy("mempool-db"), Healthy("bitcoind")}
           \cup OnlyIf(EnabledIndexers(n) # << >>, {Healthy(EnabledIndexers(n)[1].name)})
           \cup OnlyIf(n.mempool.lightning, {Healthy("lnd")}),
         {Loopback(P("mempool_api"))}, OnlyIf(n.mempool.lightning, {"lnd_data"}))>>,
     <<"mempool-web", Daemon(FALSE, {Started("mempool-api")},
         {Loopback(P("mempool_web"))}, {})>>},
    {"mempool_db_data"})

Miner == Fragment({<<"miner", Daemon(FALSE, {Healthy("bitcoind")}, {}, {})>>}, {})

\* It reaches the wallet of lnd only where it forwards what it claims to the faucet.
Claimer(n) ==
  Fragment({<<"claimer", Daemon(FALSE, {Healthy("bitcoind")}, {},
              {"claimer_state"} \cup OnlyIf(ClaimerForwards(n), {"lnd_data"}))>>},
           {"claimer_state"})

Donations ==
  Fragment({<<"donations", Daemon(FALSE, {Healthy("bitcoind")}, {}, {"donations_state"})>>},
           {"donations_state"})

-----------------------------------------------------------------------------
(* The project.                                                            *)

Nothing == Fragment({}, {})

If(cond, fragment) == IF cond THEN fragment ELSE Nothing

\* REGISTRY, each entry with its include condition.
Registry(g, k, n) ==
  <<Bitcoind(g, k, n),
    Lnd(g, k, n),
    If(EnabledIndexers(n) # << >>, Fulcrum(n)),
    If(n.cashu.enabled, Cashu),
    If(n.cashu.enabled /\ n.cashu.wallet, CashuWallet),
    If(FedimintEnabled(k, n), Fedimint(k, n)),
    If(ArkEnabled(k, n), Ark(n)),
    If(n.electrum.enabled, Electrum(k, n)),
    If(n.cashupayserver.enabled, CashuPayServer),
    If(n.woocommerce.enabled, WooCommerce),
    If(MempoolEnabled(k, n), Mempool(n)),
    If(Mines(k, n), Miner),
    If(k \in CLAIM_NETWORKS /\ n.claimer.enabled, Claimer(n)),
    Donations>>

Names(fragment) == {x[1] : x \in fragment.services}

\* The service the last of the fragments that name s gives under that name.
Merged(registry, s) ==
  LET last == CHOOSE i \in DOMAIN registry :
                /\ s \in Names(registry[i])
                /\ \A j \in DOMAIN registry : s \in Names(registry[j]) => j <= i
  IN (CHOOSE x \in registry[last].services : x[1] = s)[2]

Project(g, k, n) ==
  LET registry == Registry(g, k, n)
      names == UNION {Names(registry[i]) : i \in DOMAIN registry}
  IN [services |-> [s \in names |-> Merged(registry, s)],
      volumes |-> UNION {registry[i].volumes : i \in DOMAIN registry}]
=============================================================================
