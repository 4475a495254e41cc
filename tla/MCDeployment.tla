---------------------------- MODULE MCDeployment ----------------------------
(* Families of configurations for Deployment: one per group of settings that  *)
(* interact, around a configuration that only names a network.                *)
EXTENDS Deployment, TLC

NoTor ==
  [enabled |-> FALSE, expose_web |-> TRUE, expose_electrum |-> TRUE,
   expose_lnd_p2p |-> TRUE, expose_bitcoind_p2p |-> TRUE]

BaseGlobal ==
  [ssl_enabled |-> TRUE, acme_email |-> TRUE, bitcoind_image |-> 29,
   bitcoind_knots_image |-> 29, tor |-> NoTor]

BaseWeb ==
  [enabled |-> TRUE, ssl |-> TRUE, port |-> 0, metrics_history |-> TRUE,
   lnurl |-> [enabled |-> TRUE, default_network |-> Unset]]

Base == [DefaultNetwork EXCEPT !.bitcart.admin_email = TRUE]

Install(networks) == [global |-> BaseGlobal, networks |-> networks, web |-> BaseWeb]
One(k, n) == Install(k :> n)

\* Every tool off but the nodes.
Bare ==
  [Base EXCEPT !.cashu.enabled = FALSE, !.fedimint.enabled = FALSE,
     !.electrum.enabled = FALSE, !.bitcart.enabled = FALSE,
     !.cashupayserver.enabled = FALSE, !.woocommerce.enabled = FALSE,
     !.mempool.enabled = "off", !.miner.enabled = FALSE, !.indexers = << >>,
     !.faucet.enabled = FALSE, !.lnd.channels.enabled = "off", !.reset.enabled = "off"]

\* Which ring nodes there are, against the tools that lean on them.
Rings ==
  {One("testnet4",
       [Bare EXCEPT !.lnd.channels.enabled = ch, !.lnd.secondary = s, !.lnd.tertiary = t,
          !.fedimint.enabled = TRUE, !.fedimint.guardians = g,
          !.ark.enabled = TRUE, !.ark.target_node = a]) :
     ch \in {Unset, "off"}, s \in Tri, t \in Tri,
     g \in 1..3, a \in {"argus1", "argus3"}}

\* Every combination of the tools.
Tools ==
  {One("signet",
       [Base EXCEPT !.cashu.enabled = t[1], !.cashu.wallet = t[2],
          !.cashupayserver.enabled = t[3], !.woocommerce.enabled = t[4],
          !.bitcart.enabled = t[5], !.electrum.relay.public = t[6],
          !.mempool.enabled = IF t[7] THEN "on" ELSE "off",
          !.ark.enabled = t[7], !.bitcoind.p2p_public = t[6],
          !.electrum.enabled = ~t[2], !.faucet.enabled = t[5],
          !.cashu.ssl = t[4], !.bitcart.ssl = t[7], !.mempool.ssl = t[1],
          !.cashupayserver.ssl = t[6], !.woocommerce.ssl = t[2]]) :
     t \in [1..7 -> BOOLEAN]}

\* Who mines, funds and claims on each kind of network.
Kinds ==
  {One(k, [Base EXCEPT !.miner.enabled = m, !.lnd.channels.funding = f,
             !.claimer.enabled = c]) :
     k \in Networks, m \in BOOLEAN, f \in Funding, c \in BOOLEAN}

\* Two networks, the dashboard and the onion.
Onions ==
  {[Install(("regtest" :> [Base EXCEPT !.faucet.enabled = w.faucet,
                             !.bitcart.liquidity.disabled = TRUE])
            @@ ("testnet4" :> [Base EXCEPT !.lnd.channels.enabled = "off",
                                 !.lnd.secondary = w.second, !.bitcart.enabled = FALSE,
                                 !.faucet.enabled = FALSE]))
    EXCEPT !.global.tor = [NoTor EXCEPT !.enabled = TRUE, !.expose_web = w.web,
                             !.expose_lnd_p2p = w.lnd, !.expose_electrum = w.lnd],
           !.global.ssl_enabled = w.ssl, !.web.enabled = w.dashboard,
           !.web.port = IF w.web THEN 8080 ELSE 0] :
     w \in [faucet : BOOLEAN, second : {"on", "off"}, web : BOOLEAN, lnd : BOOLEAN,
            ssl : BOOLEAN, dashboard : BOOLEAN]}

\* Overrides, of one network or of two, and more indexers than a block has room for.
Ports ==
  {Install(("regtest" :> [Bare EXCEPT !.ports = (P(p) :> 9735)])
           @@ ("signet" :> [Bare EXCEPT !.ports = (P(q) :> 9735 + d)])) :
     p \in {"lnd_p2p", "lnd2_p2p"}, q \in {"lnd_p2p", "no_such_port"}, d \in {0, 1}}
  \cup {One("signet", [Bare EXCEPT !.indexers =
                         [i \in 1..count |-> [name |-> name[i % 2], enabled |-> TRUE,
                                              ssl |-> TRUE]]]) :
          count \in {2, 16}, name \in {[i \in 0..1 |-> IF i = 0 THEN "even" ELSE "odd"]}}

\* Numbers set by hand that some socket of no name has: the pool's, the backends', the
\* proxy's and the dashboard's; and a dashboard on a port of a network's, of its pool's or
\* of its own backend.
Clashes ==
  LET Busy(n) == [Base EXCEPT !.ports = n]
      Tor(c) == [c EXCEPT !.global.tor.enabled = TRUE]
  IN {Tor(One("signet", Busy(P(p) :> number))) :
        p \in {"lnd_p2p", "bitcoind_rpc", "cashu_public"},
        number \in {33400, 33402, 32400, 29080, 29081, 29082, 9050, 443, 80, 22}}
     \cup {Tor([One("signet", Base) EXCEPT !.web.port = number]) :
              number \in {33010, 33100, 33403, 29080, 29081, 29082, 9050}}
     \cup {One("signet", [Base EXCEPT !.bitcart.ports.store = number]) :
              number \in {33400, 29081, 443, 33100}}

\* One tool with and without ssl of its own, and no address for a certificate.
Certificates ==
  {[One("signet",
        [Bare EXCEPT !.cashu.enabled = (t = "cashu"), !.cashu.ssl = s,
           !.bitcart.enabled = (t = "bitcart"), !.bitcart.ssl = s,
           !.ark.enabled = (t = "ark"), !.fedimint.enabled = (t = "fedimint"),
           !.fedimint.guardians = 1])
     EXCEPT !.global.acme_email = FALSE] :
     t \in {"cashu", "bitcart", "ark", "fedimint"}, s \in BOOLEAN}

-----------------------------------------------------------------------------
(* The networks that are deployed.                                         *)

\* The ring alone, on the network whose node hides until it is formed.
LiveRing ==
  One("regtest", [Bare EXCEPT !.lnd.channels.enabled = "on", !.lnd.channels.rebalancer = "off",
                    !.miner.enabled = TRUE])

\* A network that resets, with its faucet, Bitcart and a shop that has a one-shot service.
LiveReset ==
  One("regtest", [Bare EXCEPT !.faucet.enabled = TRUE, !.bitcart.enabled = TRUE,
                    !.cashu.enabled = TRUE, !.cashu.wallet = FALSE,
                    !.cashupayserver.enabled = TRUE, !.reset.enabled = "on"])

\* The shops, whose one-shot services pair them.
LiveShops ==
  One("signet", [Bare EXCEPT !.cashu.enabled = TRUE, !.cashu.wallet = FALSE,
                   !.cashupayserver.enabled = TRUE, !.woocommerce.enabled = TRUE])

\* A second node behind the onion, and an Ark server on it.
LiveTor ==
  [One("signet", [Bare EXCEPT !.lnd.secondary = "on", !.ark.enabled = TRUE,
                    !.ark.target_node = "argus2"])
   EXCEPT !.global.tor.enabled = TRUE]

NoLive == {}
MCLive == {LiveRing, LiveReset, LiveShops, LiveTor}
MCConfigs == Rings \cup Tools \cup Kinds \cup Onions \cup Ports \cup Clashes
             \cup Certificates \cup MCLive
=============================================================================
