----------------------------- MODULE Deployment -----------------------------
(***************************************************************************)
(* An installation from its configuration to its running containers.       *)
(*                                                                         *)
(* The operator edits a configuration; generate validates it, allocates    *)
(* its ports and writes the projects.  For a configuration of Live the     *)
(* operator then brings up the network, and later the projects that share  *)
(* its volumes (the faucet's, Bitcart's).  The services start, fail, crash *)
(* and come back under docker compose; the host may reboot; and, where the *)
(* network resets, the controller of reset.py tears the network down when  *)
(* its chain outgrows the cap and brings it up again.                      *)
(*                                                                         *)
(* A network lives one life from its first up to its first reset, another  *)
(* one from there on, and so forth.  data[v] is the life the content of v  *)
(* dates from, 0 when v is empty.  The stores are the volumes one service  *)
(* fills and another reads or relies on, and the two stores that other     *)
(* projects keep about this network's chain.                               *)
(***************************************************************************)
EXTENDS StackExposure

CONSTANTS
  Configs,    \* the configurations an operator may write
  Live,       \* those of them that are deployed: each enables one network
  MaxLives,   \* bound: the lives of the network
  MaxFaults   \* bound: failed jobs and wipes, crashes and reboots

ASSUME DeploymentAssumption ==
  /\ \A c \in Configs : IsArgusConfig(c)
  /\ Live \subseteq Configs
  /\ \A c \in Live : Cardinality(EnabledNetworks(c)) = 1
  /\ MaxLives \in Nat /\ MaxFaults \in Nat

VARIABLES
  cfg,       \* the configuration
  phase,     \* how far the installation is
  services,  \* the services of the live network, by name
  status,    \* the state of the container of each service
  up,        \* docker compose up: not running, at work, or given up
  script,    \* where reset.sh is
  others,    \* the faucet's and Bitcart's containers exist
  data,      \* what each store holds
  unwiped,   \* the stores the last reset.sh tried to wipe and could not
  life,      \* the life the network is in
  full,      \* the chain has outgrown the cap
  faults     \* the faults so far

vars == <<cfg, phase, services, status, up, script, others, data, unwiped, life, full, faults>>
fixed == <<cfg, phase, services>>

\* The live network and its settings.
Key == CHOOSE k \in EnabledNetworks(cfg) : TRUE
Net == cfg.networks[Key]

\* The service whose work fills a volume.
Owner ==
  [bitcoind_data |-> "bitcoind",
   lnd_data |-> "lnd", lnd2_data |-> "lnd2", lnd3_data |-> "lnd3",
   lnd_setup_state |-> "lnd-channels",
   ark_cln_data |-> "cln",
   cashupayserver_data |-> "cashupayserver-init",
   cashupayserver_pairing |-> "cashupayserver-init"]

\* The volumes other services read credentials from.
Credentials == DOMAIN Owner \ {"bitcoind_data", "lnd_setup_state"}

Volumes == DOMAIN Owner
Stores == Volumes \cup {"bitcart", "faucet_history"}

\* The life of the chain the node serves.
Chain == data["bitcoind_data"]

-----------------------------------------------------------------------------
(* A container, as docker compose runs it.                                 *)

\* exited: stopped by a reboot, which restarts no one-shot service.
Statuses == {"created", "running", "healthy", "done", "failed", "exited"}

Met(dep) ==
  CASE dep[2] = "service_started" -> status[dep[1]] # "created"
    [] dep[2] = "service_healthy" -> status[dep[1]] = "healthy"
    [] dep[2] = "service_completed_successfully" -> status[dep[1]] = "done"

\* The services s talks to are there.
PeersUp(s) ==
  \A dep \in services[s].depends_on : dep[2] = "service_healthy" => Met(dep)

IsUp(s) ==
  IF services[s].job THEN status[s] = "done"
  ELSE status[s] = (IF services[s].healthcheck THEN "healthy" ELSE "running")

AllUp == \A s \in DOMAIN services : IsUp(s)

\* Service s has done its work: the empty stores it fills have content.
Fill(s) ==
  data' = [v \in Stores |->
             IF v \in Volumes /\ Owner[v] = s /\ data[v] = 0 THEN life ELSE data[v]]

-----------------------------------------------------------------------------
Init ==
  /\ cfg \in Configs
  /\ phase = "edited"
  /\ services = << >> /\ status = << >>
  /\ up = "idle" /\ script = "idle"
  /\ others = FALSE
  /\ data = [v \in Stores |-> 0] /\ unwiped = {}
  /\ life = 1 /\ full = FALSE /\ faults = 0

\* python -m argus generate: a configuration it does not accept writes nothing.
Generate ==
  /\ phase = "edited"
  /\ phase' = IF Valid(cfg) /\ Allocatable(cfg) THEN "generated" ELSE "rejected"
  /\ UNCHANGED <<cfg, services, status, up, script, others, data, unwiped, life, full, faults>>

\* The operator's first docker compose up.
Deploy ==
  /\ phase = "generated" /\ cfg \in Live
  /\ phase' = "deployed"
  /\ services' = Project(cfg.global, Key, Net).services
  /\ status' = [s \in DOMAIN services' |-> "created"]
  /\ up' = "starting"
  /\ UNCHANGED <<cfg, script, others, data, unwiped, life, full, faults>>

Start(s) ==
  /\ up = "starting" /\ status[s] = "created"
  /\ \A dep \in services[s].depends_on : Met(dep)
  /\ status' = [status EXCEPT ![s] = "running"]
  /\ UNCHANGED <<up, script, others, data, unwiped, life, full, faults>>

BecomeHealthy(s) ==
  /\ services[s].healthcheck /\ status[s] = "running"
  /\ PeersUp(s)
  /\ status' = [status EXCEPT ![s] = "healthy"]
  /\ Fill(s)
  /\ UNCHANGED <<up, script, others, unwiped, life, full, faults>>

Finish(s) ==
  /\ services[s].job /\ status[s] = "running"
  /\ PeersUp(s)
  /\ status' = [status EXCEPT ![s] = "done"]
  /\ Fill(s)
  /\ UNCHANGED <<up, script, others, unwiped, life, full, faults>>

\* A one-shot service exits with an error.  One of "on-failure" is started again, which
\* changes nothing here.
Fail(s) ==
  /\ faults < MaxFaults
  /\ services[s].restart = "no" /\ status[s] = "running"
  /\ status' = [status EXCEPT ![s] = "failed"]
  /\ faults' = faults + 1
  /\ UNCHANGED <<up, script, others, data, unwiped, life, full>>

\* A daemon dies and is restarted.
Crash(s) ==
  /\ faults < MaxFaults
  /\ status[s] = "healthy"
  /\ status' = [status EXCEPT ![s] = "running"]
  /\ faults' = faults + 1
  /\ UNCHANGED <<up, script, others, data, unwiped, life, full>>

MutantNoSetE ==
  /\ up = "starting"
  /\ \E s \in DOMAIN services : \E d \in DOMAIN services :
       /\ status[s] = "created" /\ status[d] = "failed"
       /\ Completed(d) \in services[s].depends_on
  /\ up' = "aborted"
  /\ UNCHANGED <<status, script, others, data, unwiped, life, full, faults>>

\* A dependency that was to complete has failed.  reset.sh runs under set -e.
AbortUp ==
  /\ up = "starting"
  /\ \E s \in DOMAIN services : \E d \in DOMAIN services :
       /\ status[s] = "created" /\ status[d] = "failed"
       /\ Completed(d) \in services[s].depends_on
  /\ up' = "aborted"
  /\ script' = "idle"
  /\ UNCHANGED <<status, others, data, unwiped, life, full, faults>>

UpReturns ==
  /\ up = "starting"
  /\ \A s \in DOMAIN services : status[s] # "created"
  /\ up' = "idle"
  /\ script' = IF script = "up" THEN "bitcart" ELSE script
  /\ UNCHANGED <<status, others, data, unwiped, life, full, faults>>

MutantUpSkipsStopped ==
  /\ up # "starting" /\ script = "idle"
  /\ \E s \in DOMAIN services : status[s] \in {"created", "failed"}
  /\ status' = [s \in DOMAIN services |->
                  IF status[s] \in {"done", "failed"} THEN "created" ELSE status[s]]
  /\ up' = "starting"
  /\ UNCHANGED <<script, others, data, unwiped, life, full, faults>>

\* The operator runs up again while something is missing: every job that has ended is
\* started again.
OperatorUp ==
  /\ up # "starting" /\ script = "idle"
  /\ \E s \in DOMAIN services : status[s] \in {"created", "failed", "exited"}
  /\ status' = [s \in DOMAIN services |->
                  IF status[s] \in {"done", "failed", "exited"} THEN "created" ELSE status[s]]
  /\ up' = "starting"
  /\ UNCHANGED <<script, others, data, unwiped, life, full, faults>>

\* The host goes down and comes back: docker restarts the services that run unless
\* stopped, in any order, and no other; whatever ran up or reset.sh is gone.
Reboot ==
  /\ faults < MaxFaults
  /\ faults' = faults + 1
  /\ status' = [s \in DOMAIN services |->
                  CASE status[s] = "running" /\ services[s].job -> "exited"
                    [] status[s] = "healthy" -> "running"
                    [] OTHER -> status[s]]
  /\ up' = IF up = "starting" THEN "aborted" ELSE up
  /\ script' = "idle"
  /\ UNCHANGED <<others, data, unwiped, life, full>>

-----------------------------------------------------------------------------
(* The projects beside the network's.                                      *)

\* The operator brings up the dashboard and the faucet, and installs Bitcart.
DeployOthers ==
  /\ ~others /\ up = "idle" /\ script = "idle"
  /\ others' = TRUE
  /\ UNCHANGED <<status, up, script, data, unwiped, life, full, faults>>

FaucetRuns == others /\ cfg.web.enabled /\ Net.faucet.enabled
BitcartRuns == others /\ Net.bitcart.enabled

\* The volumes of this network that the containers of other projects mount.
Held == OnlyIf(FaucetRuns, {"lnd_data"})

\* The faucet records a payout, Bitcart's wallet syncs: each of the chain it sees.
Records(v, running, node) ==
  /\ running
  /\ node \in DOMAIN services /\ status[node] = "healthy"
  /\ data[v] = 0
  /\ data' = [data EXCEPT ![v] = Chain]
  /\ UNCHANGED <<status, up, script, others, unwiped, life, full, faults>>

FaucetPays == Records("faucet_history", FaucetRuns, "lnd")
BitcartSyncs == Records("bitcart", BitcartRuns, "bitcoind")

-----------------------------------------------------------------------------
(* The controller of the resets, and reset.sh.                             *)

\* The chain outgrows the cap.
Grow ==
  /\ ResetEnabled(Key, Net) /\ life < MaxLives
  /\ status["bitcoind"] = "healthy" /\ ~full
  /\ full' = TRUE
  /\ UNCHANGED <<status, up, script, others, data, unwiped, life, faults>>

\* The poll reads the size from the node, and nothing when the node does not answer.
Poll ==
  /\ ResetEnabled(Key, Net) /\ script = "idle"
  /\ status["bitcoind"] = "healthy" /\ full
  /\ script' = "down"
  /\ UNCHANGED <<status, up, others, data, unwiped, life, full, faults>>

\* docker compose down -v: a volume some other container mounts is left.
Down ==
  /\ script = "down"
  /\ status' = [s \in DOMAIN services |-> "created"]
  /\ data' = [v \in Stores |-> IF v \in Volumes \ Held THEN 0 ELSE data[v]]
  /\ full' = FALSE
  /\ life' = life + 1
  /\ up' = "idle"
  /\ script' = "restart"
  /\ UNCHANGED <<others, unwiped, faults>>

ScriptUp ==
  /\ script = "restart"
  /\ script' = "up" /\ up' = "starting"
  /\ UNCHANGED <<status, others, data, unwiped, life, full, faults>>

\* The wipe of v: its content is gone, or the wipe fails and the script goes on all the same.
Wipes(v) ==
  /\ data' = [data EXCEPT ![v] = 0]
  /\ unwiped' = unwiped \ {v}
  /\ UNCHANGED faults

WipeFails(v) ==
  /\ faults < MaxFaults
  /\ faults' = faults + 1
  /\ unwiped' = unwiped \cup {v}
  /\ UNCHANGED data

MutantBitcartKept ==
  /\ script = "bitcart"
  /\ script' = "faucet"
  /\ UNCHANGED <<status, up, others, data, unwiped, life, full, faults>>

\* The volumes of Bitcart's project are emptied in place, when it is installed; no error of
\* docker ps, stop, run or start ends the script.
WipeBitcart ==
  /\ script = "bitcart"
  /\ IF BitcartRuns THEN Wipes("bitcart") \/ WipeFails("bitcart")
                    ELSE UNCHANGED <<data, unwiped, faults>>
  /\ script' = "faucet"
  /\ UNCHANGED <<status, up, others, life, full>>

\* The faucet forgets this network's payouts.  Whatever fails is reported as a faucet that
\* is not running, and the script goes on.
PurgeFaucet ==
  /\ script = "faucet"
  /\ IF FaucetRuns THEN Wipes("faucet_history") \/ WipeFails("faucet_history")
                   ELSE UNCHANGED <<data, unwiped, faults>>
  /\ script' = "done"
  /\ UNCHANGED <<status, up, others, life, full>>

MutantControllerExits ==
  /\ script = "done"
  /\ UNCHANGED <<status, up, script, others, data, unwiped, life, full, faults>>

Sleep ==
  /\ script = "done"
  /\ script' = "idle"
  /\ UNCHANGED <<status, up, others, data, unwiped, life, full, faults>>

-----------------------------------------------------------------------------
Compose ==
  \/ \E s \in DOMAIN services : Start(s) \/ BecomeHealthy(s) \/ Finish(s)
  \/ AbortUp \/ UpReturns

Faults == (\E s \in DOMAIN services : Fail(s) \/ Crash(s)) \/ Reboot

Reset == Poll \/ Down \/ ScriptUp \/ WipeBitcart \/ PurgeFaucet \/ Sleep

Running ==
  /\ phase = "deployed"
  /\ \/ Compose \/ Faults \/ OperatorUp
     \/ DeployOthers \/ FaucetPays \/ BitcartSyncs
     \/ Grow \/ Reset
  /\ UNCHANGED fixed

Next == Generate \/ Deploy \/ Running

\* Docker goes on as long as it can; the operator generates, deploys, and repeats an up
\* that left something out; the controller goes on polling.
Fairness ==
  /\ WF_vars(Generate) /\ WF_vars(Deploy)
  /\ WF_vars(phase = "deployed" /\ Compose /\ UNCHANGED fixed)
  /\ WF_vars(phase = "deployed" /\ OperatorUp /\ UNCHANGED fixed)
  /\ WF_vars(phase = "deployed" /\ Reset /\ UNCHANGED fixed)

Spec == Init /\ [][Next]_vars /\ Fairness

-----------------------------------------------------------------------------
(* What the installation owes its operator.                                *)

TypeOK ==
  /\ phase \in {"edited", "rejected", "generated", "deployed"}
  /\ status \in [DOMAIN services -> Statuses]
  /\ up \in {"idle", "starting", "aborted"}
  /\ script \in {"idle", "down", "restart", "up", "bitcart", "faucet", "done"}
  /\ script = "up" => up = "starting"
  /\ others \in BOOLEAN /\ full \in BOOLEAN
  /\ data \in [Stores -> 0..life] /\ unwiped \subseteq Stores
  /\ faults \in 0..MaxFaults

\* The services compose can start, given that every container does its part: those whose
\* dependencies exist, can start and can meet the condition asked of them.
Startable(stack) ==
  LET Able(dep) ==
        CASE dep[2] = "service_started" -> TRUE
          [] dep[2] = "service_healthy" -> stack[dep[1]].healthcheck
          [] dep[2] = "service_completed_successfully" -> stack[dep[1]].job
      round[i \in 0..Cardinality(DOMAIN stack)] ==
        IF i = 0 THEN {}
        ELSE LET before == round[i - 1] IN
             {s \in DOMAIN stack :
                \A dep \in stack[s].depends_on : dep[1] \in before /\ Able(dep)}
  IN round[Cardinality(DOMAIN stack)]

\* Gateway i is paired with ring node i, but only the number of nodes is validated.
GatewayWithoutNode(k, n) ==
  \E i \in 1..GuardianCount(k, n) : RingNodes[i] \notin DeployedRing(n)

\* Whatever tools, ring nodes and targets an accepted configuration combines, the builders'
\* dependencies are all there, free of cycles, and ask for a condition the service can
\* meet, and every volume a service mounts is declared; except where a Fedimint gateway
\* is paired with a ring node that is not deployed, which is then the one thing missing.
ComposeCanStart ==
  phase = "generated" =>
    \A k \in EnabledNetworks(cfg) :
      LET n == cfg.networks[k]
          project == Project(cfg.global, k, n)
          mounted == UNION {project.services[s].volumes : s \in DOMAIN project.services}
      IN (/\ Startable(project.services) = DOMAIN project.services
          /\ mounted \subseteq project.volumes)
         <=> ~GatewayWithoutNode(k, n)

\* "User overrides are applied last, then the whole set is checked for duplicates so two
\* services never fight for one host port": ports.py.
NoPortClash ==
  phase = "generated" =>
    \A l \in Listeners(cfg), m \in Listeners(cfg) : l.port = m.port => l.owner = m.owner

\* The numbers an operator sets by hand, and the sockets whose ports are in no set the
\* allocator compares.
ByHand(c) == {c.web.port} \cup UNION {Chosen(c.networks[k]) : k \in EnabledNetworks(c)}
Unallocated(c) ==
  FrontDoors(c) \cup WebListeners(c) \cup TorListeners(c)
  \cup UNION {PoolListeners(c, k) : k \in EnabledNetworks(c)}

\* Two sockets of an accepted configuration fight for a port of the host only over a number
\* the operator has set by hand, and only if one of them is the dashboard's, the faucet's,
\* the onion's, the proxy's or one of Bitcart's pool: the defaults never meet, in whatever
\* combination of networks, tools and instances, and no override meets another port that
\* the allocator names.
ClashesAreByHand ==
  phase = "generated" =>
    \A l \in Listeners(cfg), m \in Listeners(cfg) :
      l.port = m.port /\ l.owner # m.owner =>
        /\ l.port \in ByHand(cfg)
        /\ {l, m} \cap Unallocated(cfg) # {}

PublicPorts == {l.port : l \in {l \in Listeners(cfg) : l.public}}

\* The firewall script opens exactly what listens to the world, ssh and the two ports the
\* certificates need; and the proxy to containers whenever a container is to use it.
FirewallExact ==
  phase = "generated" =>
    /\ PublicPorts \subseteq FirewallRules(cfg)
    /\ FirewallRules(cfg) \subseteq PublicPorts \cup StandingRules(cfg)
    /\ SocksOpenToContainers(cfg) => SocksRule(cfg)

\* The onion service only routes to ports that something listens on, and offers nothing
\* that is not public on the clearnet already.
OnionExposesOnlyPublic ==
  phase = "generated" =>
    \A r \in OnionRoutes(cfg) :
      /\ r.target \in {l.port : l \in Listeners(cfg)}
      /\ r.virtual \in PublicPorts \cup {DASHBOARD_ONION_PORT}

\* A row of the dashboard shows a port as open exactly when it is bound for the world, and
\* as closed when it is bound to the loopback.
RowsTellTheTruth ==
  phase = "generated" =>
    \A k \in EnabledNetworks(cfg) : \A row \in ServiceRows(k, cfg.networks[k]) :
      \A p \in row.ports :
        \E l \in Listeners(cfg) : l.port = PortMap(cfg)[k][p[1]] /\ l.public = p[2]

\* An address a page or the credentials file hands out is right: its port is a site of
\* Caddy's served over the scheme given, with an address for its certificate if that is
\* https on a public network, or listens to the world or to the loopback as it says; and the onion answers
\* there if an onion address is given, except that the Lightning recipe gives one whether
\* or not the nodes are exposed over Tor.
LinksLeadSomewhere ==
  phase = "generated" =>
    \A k \in EnabledNetworks(cfg) :
      LET n == cfg.networks[k]
          ports == PortMap(cfg)[k]
          Bound(port, pub) == \E l \in Listeners(cfg) : l.port = port /\ l.public = pub
      IN \A link \in HandedOut(cfg, k, n) :
           /\ CASE link.scheme = "tcp" -> Bound(ports[link.port], TRUE)
                [] link.scheme = "loopback" -> Bound(ports[link.port], FALSE)
                [] OTHER -> \E site \in NetworkSites(k, n) :
                              /\ ports[site.public] = ports[link.port]
                              /\ Scheme(cfg, site.ssl) = link.scheme
           /\ link.scheme = "https" /\ k # "regtest" => cfg.global.acme_email
           /\ link.onion /\ (link.scheme = "tcp" => cfg.global.tor.expose_lnd_p2p) =>
                OnOnion(cfg, k, link.port)

\* A service reads the credentials of another only once they have been written: through
\* restarts, reboots and resets, none runs before the volume it reads them from is filled.
CredentialsFirst ==
  \A s \in DOMAIN services : \A v \in services[s].volumes \cap Credentials :
    status[s] # "created" /\ Owner[v] # s => data[v] # 0

\* A reset that runs to its end leaves something of an older chain behind only in a volume
\* that another project's container mounts, and in Bitcart or the faucet's history when
\* that one wipe of this one reset failed: the markers of the ring and the credentials
\* always follow the chain they speak of, and what an earlier reset left goes with the
\* next wipe that works.
ResetWipesItsOwn ==
  script = "done" => \A v \in Stores \ (Held \cup unwiped) : data[v] \in {0, life}

\* A chain that has outgrown the cap is wiped, whatever fails or reboots on the way.
DiskIsBounded == full ~> ~full

\* A deployed network gets to run all of its services, jobs included, and stays that way.
EverythingComesUp == <>[](phase = "deployed" => AllUp)
=============================================================================
