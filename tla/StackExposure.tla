--------------------------- MODULE StackExposure ---------------------------
(***************************************************************************)
(* Where an installation listens and who can reach it: the host ports      *)
(* ports.py allocates, the sites of the shared Caddy, the rules of the     *)
(* firewall script, the routes of the onion service and the ports the      *)
(* dashboard shows.  Six files compute these from one configuration, each  *)
(* with its own conditions, and nothing in the code compares them.         *)
(***************************************************************************)
EXTENDS StackServices

NETWORK_BLOCK_BASE == 30000
NETWORK_BLOCK_SIZE == 1000
WEB_BACKEND_PORT == 29080
FAUCET_BACKEND_PORT == 29081
ONION_WEB_BACKEND_PORT == 29082
TOR_SOCKS_PORT == 9050
DASHBOARD_ONION_PORT == 80

PORT_OFFSETS ==
  [bitcoind_p2p |-> 0, bitcoind_rpc |-> 1,
   lnd_p2p |-> 10, lnd_rest |-> 11, lnd_grpc |-> 12,
   lnd2_p2p |-> 13, lnd2_rest |-> 14, lnd2_grpc |-> 15,
   lnd3_p2p |-> 16, lnd3_rest |-> 17, lnd3_grpc |-> 18,
   cashu_public |-> 100, cashu_wallet_public |-> 101, cashupayserver_public |-> 120,
   bitcart_store_public |-> 200, bitcart_admin_public |-> 201, bitcart_api_public |-> 202,
   woocommerce_public |-> 220, mempool_public |-> 300,
   cashu_backend |-> 110, cashu_wallet_backend |-> 111, cashupayserver_backend |-> 130,
   bitcart_store |-> 210, bitcart_admin |-> 211, bitcart_api |-> 212,
   bitcart_daemon |-> 213, woocommerce_backend |-> 230, woocommerce_db |-> 231,
   mempool_web |-> 301, mempool_api |-> 310, mempool_db |-> 311,
   ark_captaind_public |-> 600, ark_captaind |-> 601, ark_captaind_admin |-> 602,
   ark_cln_p2p |-> 603, ark_cln_grpc |-> 604, ark_cln_hold |-> 605,
   electrum_rpc |-> 700, nostr_relay_public |-> 701, nostr_relay_backend |-> 702]

FULCRUM_BASE == 40
FULCRUM_STRIDE == 4
FULCRUM_MAX_INSTANCES == (PORT_OFFSETS["cashu_public"] - FULCRUM_BASE) \div FULCRUM_STRIDE
FEDIMINT_GUARDIAN_BASE == 500
FEDIMINT_GUARDIAN_STRIDE == 4
FEDIMINT_GATEWAY_BASE == 520
FEDIMINT_GATEWAY_STRIDE == 2
MutantPoolOffset == 298

BITCART_BTCLND_P2P_OFFSET == 400
BITCART_BTCLND_GRPC_OFFSET == 450

-----------------------------------------------------------------------------
(* ports.py                                                                *)

BlockBase(k) ==
  NETWORK_BLOCK_BASE
    + NETWORK_BLOCK_SIZE * ((CHOOSE i \in DOMAIN NETWORK_ORDER : NETWORK_ORDER[i] = k) - 1)

\* dict.update: g, with what f says in place of what it says.
Over(f, g) ==
  [x \in DOMAIN f \cup DOMAIN g |-> IF x \in DOMAIN f THEN f[x] ELSE g[x]]

\* The ports a list of instances takes: offs gives each name its offset in the stride.
Strided(names, count, base, stride) ==
  [p \in (DOMAIN names) \X (0..(count - 1)) |-> base + p[2] * stride + names[p[1]]]

DefaultPorts(k, n) ==
  LET base == BlockBase(k)
      guardians == GuardianCount(k, n)
  IN Over(Strided(PORT_OFFSETS, 1, base, 0),
     Over(Strided([fulcrum_electrum_tcp |-> 0, fulcrum_electrum_ssl |-> 1, fulcrum_admin |-> 2],
                  Len(EnabledIndexers(n)), base + FULCRUM_BASE, FULCRUM_STRIDE),
     Over(Strided([fedimintd_api_public |-> 0, fedimintd_api |-> 1, fedimintd_ui |-> 2],
                  guardians, base + FEDIMINT_GUARDIAN_BASE, FEDIMINT_GUARDIAN_STRIDE),
     Over(Strided([gatewayd_api |-> 0, gatewayd_api_public |-> 1],
                  guardians, base + FEDIMINT_GATEWAY_BASE, FEDIMINT_GATEWAY_STRIDE),
          Strided([bitcart_btclnd_p2p_base |-> BITCART_BTCLND_P2P_OFFSET,
                   bitcart_btclnd_grpc_base |-> BITCART_BTCLND_GRPC_OFFSET],
                  IF n.bitcart.enabled THEN 1 ELSE 0, base, 0)))))

\* The operator-facing Bitcart ports, by the names they override.
BitcartOverrides(n) ==
  LET set == [bitcart_store_public |-> n.bitcart.ports.store,
              bitcart_admin_public |-> n.bitcart.ports.admin,
              bitcart_api_public |-> n.bitcart.ports.api,
              bitcart_daemon |-> n.bitcart.ports.daemon]
  IN [p \in {P(name) : name \in {name \in DOMAIN set : set[name] # 0}} |-> set[p[1]]]

NetworkPorts(k, n) == Over(n.ports, Over(BitcartOverrides(n), DefaultPorts(k, n)))

\* The numbers the operator sets for a network.
Chosen(n) ==
  {n.ports[p] : p \in DOMAIN n.ports}
  \cup {BitcartOverrides(n)[p] : p \in DOMAIN BitcartOverrides(n)}

PortMap(cfg) == [k \in EnabledNetworks(cfg) |-> NetworkPorts(k, cfg.networks[k])]

\* _network_ports raises on too many indexers and on an override of no known port.
KnownPorts(k, n) ==
  /\ Len(EnabledIndexers(n)) <= FULCRUM_MAX_INSTANCES
  /\ DOMAIN n.ports \subseteq DOMAIN DefaultPorts(k, n)

Assignments(cfg) ==
  UNION {{<<k, p>> : p \in DOMAIN PortMap(cfg)[k]} : k \in EnabledNetworks(cfg)}

\* allocate raises when two names of the enabled networks claim one port.
Allocatable(cfg) ==
  LET ports == PortMap(cfg) IN
  /\ \A k \in EnabledNetworks(cfg) : KnownPorts(k, cfg.networks[k])
  /\ Cardinality({ports[a[1]][a[2]] : a \in Assignments(cfg)})
       = Cardinality(Assignments(cfg))

-----------------------------------------------------------------------------
(* shared.py: the public port and the backend of every site Caddy fronts.  *)

Site(pub, back, ssl) == [public |-> pub, backend |-> back, ssl |-> ssl]

BitcartFronts == {"bitcart_store", "bitcart_admin", "bitcart_api"}
FrontPort ==
  [bitcart_store |-> "bitcart_store_public", bitcart_admin |-> "bitcart_admin_public",
   bitcart_api |-> "bitcart_api_public"]

\* Fedimint and Ark have no setting of their own and follow the global one; the wallet has
\* the mint's, for a page served over https may not fetch from a mint served over http.
NetworkSites(k, n) ==
  OnlyIf(n.cashu.enabled, {Site(P("cashu_public"), P("cashu_backend"), n.cashu.ssl)})
  \cup OnlyIf(n.cashu.enabled /\ n.cashu.wallet,
              {Site(P("cashu_wallet_public"), P("cashu_wallet_backend"), n.cashu.ssl)})
  \cup OnlyIf(ArkEnabled(k, n), {Site(P("ark_captaind_public"), P("ark_captaind"), TRUE)})
  \cup OnlyIf(RelayEnabled(n) /\ n.electrum.relay.public,
              {Site(P("nostr_relay_public"), P("nostr_relay_backend"), n.electrum.relay.ssl)})
  \cup OnlyIf(MempoolEnabled(k, n),
              {Site(P("mempool_public"), P("mempool_web"), n.mempool.ssl)})
  \cup OnlyIf(n.bitcart.enabled,
              {Site(P(FrontPort[f]), P(f), n.bitcart.ssl) : f \in BitcartFronts})
  \cup OnlyIf(n.cashupayserver.enabled,
              {Site(P("cashupayserver_public"), P("cashupayserver_backend"),
                    n.cashupayserver.ssl)})
  \cup OnlyIf(n.woocommerce.enabled,
              {Site(P("woocommerce_public"), P("woocommerce_backend"), n.woocommerce.ssl)})
  \cup UNION {{Site(<<"fedimintd_api_public", i>>, <<"fedimintd_api", i>>, TRUE),
               Site(<<"gatewayd_api_public", i>>, <<"gatewayd_api", i>>, TRUE)} :
                i \in 0..(GuardianCount(k, n) - 1)}

\* Caddy serves a site over https when its service and the installation both say so.
Scheme(cfg, ssl) == IF cfg.global.ssl_enabled /\ ssl THEN "https" ELSE "http"

WebPublicPort(cfg) ==
  IF cfg.web.port # 0 THEN cfg.web.port
  ELSE IF cfg.global.ssl_enabled /\ cfg.web.ssl THEN 443 ELSE 80

\* The onion's port 80 goes through a loopback site that path-routes the faucet.
OnionWebPathRouted(cfg) ==
  /\ cfg.global.tor.enabled /\ cfg.global.tor.expose_web
  /\ cfg.web.enabled
  /\ FaucetNetworks(cfg) # {}

\* generate_shared writes no Caddy project when there is nothing to front.
CaddyRuns(cfg) ==
  cfg.web.enabled \/ \E k \in EnabledNetworks(cfg) : NetworkSites(k, cfg.networks[k]) # {}

-----------------------------------------------------------------------------
(* Every socket the installation binds on the host.                        *)

Listener(owner, port, pub) == [owner |-> owner, port |-> port, public |-> pub]

\* The ports the services of one network publish.
Published(cfg, k) ==
  LET ports == PortMap(cfg)[k]
      services == Project(cfg.global, k, cfg.networks[k]).services
  IN UNION {{Listener(<<k, s>>, ports[p[1]], p[2]) : p \in services[s].ports} :
              s \in DOMAIN services}

\* Each LND of Bitcart's pool binds one of the block's pool ports, whatever the ports
\* setting says of their base.
PoolListeners(cfg, k) ==
  LET n == cfg.networks[k]
      base == BlockBase(k) + BITCART_BTCLND_P2P_OFFSET
  IN OnlyIf(n.bitcart.enabled,
       {Listener(<<k, "btclnd">>, base + i, TRUE) :
          i \in 0..(n.bitcart.btclnd_p2p_pool_size - 1)})

\* Bitcart is a project of its own, with its frontends and its pool.
BitcartListeners(cfg, k) ==
  OnlyIf(cfg.networks[k].bitcart.enabled,
         {Listener(<<k, f>>, PortMap(cfg)[k][P(f)], FALSE) : f \in BitcartFronts})
  \cup PoolListeners(cfg, k)

\* The dashboard, by its public port and by the onion's.
FrontDoors(cfg) ==
  OnlyIf(cfg.web.enabled, {Listener(<<"caddy", P("dashboard")>>, WebPublicPort(cfg), TRUE)})
  \cup OnlyIf(OnionWebPathRouted(cfg),
              {Listener(<<"caddy", P("onion")>>, ONION_WEB_BACKEND_PORT, FALSE)})

CaddyListeners(cfg) ==
  FrontDoors(cfg)
  \cup UNION {{Listener(<<"caddy", s.public>>, PortMap(cfg)[k][s.public], TRUE) :
                 s \in NetworkSites(k, cfg.networks[k])} : k \in EnabledNetworks(cfg)}

WebListeners(cfg) ==
  OnlyIf(cfg.web.enabled, {Listener(<<"web", "dashboard">>, WEB_BACKEND_PORT, FALSE)})
  \cup OnlyIf(cfg.web.enabled /\ FaucetNetworks(cfg) # {},
              {Listener(<<"web", "faucet">>, FAUCET_BACKEND_PORT, FALSE)})

\* Only a second node dials through the proxy, so only then do containers reach it.
SocksOpenToContainers(cfg) ==
  /\ cfg.global.tor.enabled /\ cfg.global.tor.expose_lnd_p2p
  /\ \E k \in EnabledNetworks(cfg) : SecondaryEnabled(cfg.networks[k])

TorListeners(cfg) ==
  OnlyIf(cfg.global.tor.enabled, {Listener(<<"tor", "socks">>, TOR_SOCKS_PORT, FALSE)})

Listeners(cfg) ==
  CaddyListeners(cfg) \cup WebListeners(cfg) \cup TorListeners(cfg)
  \cup UNION {Published(cfg, k) \cup BitcartListeners(cfg, k) : k \in EnabledNetworks(cfg)}

-----------------------------------------------------------------------------
(* firewall.py: the ports its script opens to everyone.                    *)

OpenNames(k, n) ==
  OnlyIf(n.bitcoind.p2p_public, {P("bitcoind_p2p")})
  \cup {P("lnd_p2p")}
  \cup OnlyIf(SecondaryEnabled(n), {P("lnd2_p2p")})
  \cup OnlyIf(TertiaryEnabled(n), {P("lnd3_p2p")})
  \cup {<<"fulcrum_electrum_tcp", i - 1>> : i \in DOMAIN EnabledIndexers(n)}
  \cup OnlyIf(n.cashu.enabled, {P("cashu_public")})
  \cup OnlyIf(n.cashu.enabled /\ n.cashu.wallet, {P("cashu_wallet_public")})
  \cup OnlyIf(ArkEnabled(k, n), {P("ark_captaind_public"), P("ark_cln_p2p")})
  \cup OnlyIf(RelayEnabled(n) /\ n.electrum.relay.public, {P("nostr_relay_public")})
  \cup OnlyIf(MempoolEnabled(k, n), {P("mempool_public")})
  \cup OnlyIf(n.bitcart.enabled, {P(FrontPort[f]) : f \in BitcartFronts})
  \cup OnlyIf(n.cashupayserver.enabled, {P("cashupayserver_public")})
  \cup OnlyIf(n.woocommerce.enabled, {P("woocommerce_public")})
  \cup UNION {{<<"fedimintd_api_public", i>>, <<"gatewayd_api_public", i>>} :
                i \in 0..(GuardianCount(k, n) - 1)}

NetworkRules(k, n, ports) ==
  {ports[p] : p \in OpenNames(k, n)}
  \cup OnlyIf(n.bitcart.enabled,
         ports[P("bitcart_btclnd_p2p_base")]
           .. (ports[P("bitcart_btclnd_p2p_base")] + n.bitcart.btclnd_p2p_pool_size - 1))

\* ssh always, and the two web ports for certificates and redirects when SSL is on.
StandingRules(cfg) == {22} \cup OnlyIf(cfg.global.ssl_enabled, {80, 443})

MutantNoWebRule(cfg) ==
  StandingRules(cfg)
  \cup UNION {NetworkRules(k, cfg.networks[k], PortMap(cfg)[k]) : k \in EnabledNetworks(cfg)}

FirewallRules(cfg) ==
  StandingRules(cfg)
  \cup OnlyIf(cfg.web.enabled, {WebPublicPort(cfg)})
  \cup UNION {NetworkRules(k, cfg.networks[k], PortMap(cfg)[k]) : k \in EnabledNetworks(cfg)}

\* The one rule for containers only: the proxy, from the bridge networks.
SocksRule(cfg) == cfg.global.tor.enabled /\ cfg.global.tor.expose_lnd_p2p

-----------------------------------------------------------------------------
(* tor.py: the routes of the onion service, by network.                    *)

Route(virtual, target) == [virtual |-> virtual, target |-> target]
Straight(p) == Route(p, p)

NetworkRoutes(g, k, n) ==
  OnlyIf(g.tor.expose_web,
    OnlyIf(n.cashu.enabled, {Route(P("cashu_public"), P("cashu_backend"))})
    \cup OnlyIf(n.cashu.enabled /\ n.cashu.wallet,
                {Route(P("cashu_wallet_public"), P("cashu_wallet_backend"))})
    \cup OnlyIf(MempoolEnabled(k, n), {Route(P("mempool_public"), P("mempool_web"))})
    \cup OnlyIf(n.bitcart.enabled,
                {Route(P(FrontPort[f]), P(f)) : f \in BitcartFronts})
    \cup OnlyIf(n.cashupayserver.enabled,
                {Route(P("cashupayserver_public"), P("cashupayserver_backend"))})
    \cup OnlyIf(n.woocommerce.enabled,
                {Route(P("woocommerce_public"), P("woocommerce_backend"))}))
  \cup OnlyIf(g.tor.expose_electrum,
    {Straight(<<"fulcrum_electrum_tcp", i - 1>>) : i \in DOMAIN EnabledIndexers(n)})
  \cup OnlyIf(g.tor.expose_lnd_p2p,
    {Straight(P("lnd_p2p"))}
    \cup OnlyIf(SecondaryEnabled(n), {Straight(P("lnd2_p2p"))})
    \cup OnlyIf(TertiaryEnabled(n), {Straight(P("lnd3_p2p"))}))
  \cup OnlyIf(g.tor.expose_bitcoind_p2p /\ n.bitcoind.p2p_public,
    {Straight(P("bitcoind_p2p"))})

MutantOnionAlwaysWeb(cfg) ==
  OnlyIf(cfg.global.tor.enabled,
    OnlyIf(cfg.global.tor.expose_web,
           {Route(DASHBOARD_ONION_PORT,
                  IF OnionWebPathRouted(cfg) THEN ONION_WEB_BACKEND_PORT
                                             ELSE WEB_BACKEND_PORT)})
    \cup UNION {LET ports == PortMap(cfg)[k] IN
                {Route(ports[r.virtual], ports[r.target]) :
                   r \in NetworkRoutes(cfg.global, k, cfg.networks[k])} :
                  k \in EnabledNetworks(cfg)})

\* The routes by port number, the dashboard's among them.
OnionRoutes(cfg) ==
  OnlyIf(cfg.global.tor.enabled,
    OnlyIf(cfg.global.tor.expose_web /\ cfg.web.enabled,
           {Route(DASHBOARD_ONION_PORT,
                  IF OnionWebPathRouted(cfg) THEN ONION_WEB_BACKEND_PORT
                                             ELSE WEB_BACKEND_PORT)})
    \cup UNION {LET ports == PortMap(cfg)[k] IN
                {Route(ports[r.virtual], ports[r.target]) :
                   r \in NetworkRoutes(cfg.global, k, cfg.networks[k])} :
                  k \in EnabledNetworks(cfg)})

-----------------------------------------------------------------------------
(* inventory.py: the rows of a network's table, as the bucket each is filed *)
(* under and the ports it shows.                                            *)

Row(bucket, ports) == [bucket |-> bucket, ports |-> ports]

MutantRestShownOpen(s) ==
  Row(s, {Public(LndPort(s, "p2p")), Public(LndPort(s, "rest")), Loopback(LndPort(s, "grpc"))})

LndRow(s) ==
  Row(s, {Public(LndPort(s, "p2p")), Loopback(LndPort(s, "rest")), Loopback(LndPort(s, "grpc"))})

\* The nodes, the miner, the faucet and the indexers.
NodeRows(k, n) ==
  {Row("bitcoind", {<<P("bitcoind_p2p"), n.bitcoind.p2p_public>>, Loopback(P("bitcoind_rpc"))})}
  \cup OnlyIf(Mines(k, n), {Row("miner", {})})
  \cup {LndRow(s) : s \in DeployedRing(n)}
  \cup OnlyIf(n.faucet.enabled, {Row("faucet", {})})
  \cup {Row(EnabledIndexers(n)[i].name,
            {Public(<<"fulcrum_electrum_tcp", i - 1>>), Loopback(<<"fulcrum_admin", i - 1>>)}) :
          i \in DOMAIN EnabledIndexers(n)}

\* The mint and its wallet, the federation and the Ark server.
ToolRows(k, n) ==
  OnlyIf(n.cashu.enabled, {Row("cashu", {Public(P("cashu_public"))})})
  \cup OnlyIf(n.cashu.enabled /\ n.cashu.wallet,
              {Row("cashu-wallet", {Public(P("cashu_wallet_public"))})})
  \cup {Row(Guardians[i], {Public(<<"fedimintd_api_public", i - 1>>),
                           Loopback(<<"fedimintd_ui", i - 1>>)}) : i \in 1..GuardianCount(k, n)}
  \cup {Row(Gateways[i], {Public(<<"gatewayd_api_public", i - 1>>)}) :
          i \in 1..GuardianCount(k, n)}
  \cup OnlyIf(ArkEnabled(k, n),
         {Row("captaind", {Public(P("ark_captaind_public")), Loopback(P("ark_captaind_admin"))}),
          Row("cln", {Public(P("ark_cln_p2p")), Loopback(P("ark_cln_grpc"))})})

\* The explorer, Bitcart and the shops.
ShopRows(k, n) ==
  OnlyIf(MempoolEnabled(k, n), {Row("mempool", {Public(P("mempool_public"))})})
  \cup OnlyIf(n.bitcart.enabled,
              {Row("bitcart", {Public(P(FrontPort[f])) : f \in BitcartFronts})})
  \cup OnlyIf(n.cashupayserver.enabled,
              {Row("cashupayserver", {Public(P("cashupayserver_public"))})})
  \cup OnlyIf(n.woocommerce.enabled, {Row("woocommerce", {Public(P("woocommerce_public"))})})

ServiceRows(k, n) == NodeRows(k, n) \cup ToolRows(k, n) \cup ShopRows(k, n)

-----------------------------------------------------------------------------
(* The addresses handed out: the links of the rows, the recipes under the   *)
(* table and the credentials file.  onion says that the address is also     *)
(* given with the onion's hostname.                                         *)

Link(port, scheme, onion) == [port |-> port, scheme |-> scheme, onion |-> onion]

\* The onion's name is known, and it answers on the port of that name.
OnOnion(cfg, k, p) ==
  PortMap(cfg)[k][p] \in {r.virtual : r \in OnionRoutes(cfg)}

WebLink(cfg, k, p, ssl) == Link(p, Scheme(cfg, ssl), OnOnion(cfg, k, p))

\* The wallet's link names the mint too, by its onion name only if the mint has one.
WalletLink(cfg, k, ssl) ==
  Link(P("cashu_wallet_public"), Scheme(cfg, ssl),
       OnOnion(cfg, k, P("cashu_wallet_public")) /\ OnOnion(cfg, k, P("cashu_public")))

MutantShopsAlwaysSsl(cfg, k, n) ==
  OnlyIf(n.bitcart.enabled,
         {WebLink(cfg, k, P(FrontPort[f]), TRUE) : f \in BitcartFronts})

\* The shops' pages are linked both from their rows and from the credentials.
ShopLinks(cfg, k, n) ==
  OnlyIf(n.bitcart.enabled,
         {WebLink(cfg, k, P(FrontPort[f]), n.bitcart.ssl) : f \in BitcartFronts})
  \cup OnlyIf(n.cashupayserver.enabled,
              {WebLink(cfg, k, P("cashupayserver_public"), n.cashupayserver.ssl)})
  \cup OnlyIf(n.woocommerce.enabled,
              {WebLink(cfg, k, P("woocommerce_public"), n.woocommerce.ssl)})

RowLinks(cfg, k, n) ==
  OnlyIf(n.cashu.enabled, {WebLink(cfg, k, P("cashu_public"), n.cashu.ssl)})
  \cup OnlyIf(n.cashu.enabled /\ n.cashu.wallet, {WalletLink(cfg, k, n.cashu.ssl)})
  \cup {WebLink(cfg, k, <<"gatewayd_api_public", i>>, cfg.global.ssl_enabled) :
          i \in 0..(GuardianCount(k, n) - 1)}
  \cup OnlyIf(MempoolEnabled(k, n), {WebLink(cfg, k, P("mempool_public"), n.mempool.ssl)})
  \cup ShopLinks(cfg, k, n)

\* The guardians' pages are given by their loopback address, the Ark bridge by its port.
CredentialLinks(cfg, k, n) ==
  ShopLinks(cfg, k, n)
  \cup OnlyIf(ArkEnabled(k, n),
              {Link(P("ark_captaind_public"), Scheme(cfg, TRUE), FALSE),
               Link(P("ark_cln_p2p"), "tcp", FALSE)})
  \cup UNION {{WebLink(cfg, k, <<"gatewayd_api_public", i>>, TRUE),
               Link(<<"fedimintd_ui", i>>, "loopback", FALSE)} :
                i \in 0..(GuardianCount(k, n) - 1)}

\* The recipe for a Lightning node gives the onion's address whenever there is an onion.
AttachRecipes(cfg, k, n) ==
  OnlyIf(1 \in DOMAIN EnabledIndexers(n),
         {Link(<<"fulcrum_electrum_tcp", 0>>, "tcp", FALSE)})
  \cup OnlyIf(n.bitcoind.p2p_public, {Link(P("bitcoind_p2p"), "tcp", FALSE)})
  \cup {Link(LndPort(s, "p2p"), "tcp", cfg.global.tor.enabled) : s \in DeployedRing(n)}

OperatorRecipes == {Link(P("bitcoind_rpc"), "loopback", FALSE)}

HandedOut(cfg, k, n) ==
  RowLinks(cfg, k, n) \cup CredentialLinks(cfg, k, n)
  \cup AttachRecipes(cfg, k, n) \cup OperatorRecipes
=============================================================================
