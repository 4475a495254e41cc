# Bitcoin Argus: specifications and proofs

TLA+ specifications of the parts of Bitcoin Argus that keep state, run
concurrently or have to agree with each other, checked with TLC on small
instances and, for the results listed below, proved with TLAPS for every value
of the constants. Paths are relative to the repository (`argus/...`); every
definition's source lines are in `PROJECT.json` under `map`.

## 1. The system

Argus turns one `config.yaml` into a Docker Compose project per network, one for
the dashboard and faucets, an onion service, a reverse proxy and a firewall
script. What it generates, and what then runs, falls into these parts.

| Part | State it keeps | Operations | Talks to | What is hard | Correct when |
| --- | --- | --- | --- | --- | --- |
| **Configuration, generation** `config.py`, `generate.py`, `builders/` | none but the files | validate, resolve, build, merge | file system | two dozen toggles with resolved defaults, conditions repeated in every builder | what is accepted can be started |
| **Ports and exposure** `ports.py`, `shared.py`, `firewall.py`, `tor.py`, `web_gen.py`, `bitcart.py`, `web/inventory.py`, `web/content.py`, `credentials.py` | none | allocate; derive sites, rules, routes, rows, links | each other, only through the configuration | six files compute the same facts with conditions of their own | no port twice; what is open is what is public; what is shown is there |
| **Containers of a network** the generated projects | status of each container, volumes | start, fail, crash, finish, reboot | Docker Compose | one-shot services, dependencies, restart policies, volumes that outlive their services | everything comes up; credentials are read once written |
| **Network reset** `reset.py`, `faucet/reset.py` | the chain, the volumes of three projects | poll, tear down, bring up, wipe | Docker, the faucet, Bitcart | `set -e`, steps that swallow errors, volumes other projects hold | the disk is bounded; no old chain is left behind |
| **Faucet** `argus/faucet/` | SQLite: nonces, per-IP claims, PoW counters, daily usage | challenge, serve a request, pay, record | its LND wallet over REST, an explorer | two gunicorn workers share a database whose statements commit one by one; a payment may succeed after it was given up; balances, prices and subsidies are stale when used | no challenge pays twice, no IP is paid twice a day, counters match payments, a reserve is kept, work pays its price |
| **Faucet maintenance** `maintenance.py`, `store.py` | one row `Maintenance` | seed, claim the day, purge four tables | the faucet tables | every worker runs the thread; they start together; deaths between claim and purge | one purge per day, and always another one |
| **Metrics history** `web/sampler.py`, `web/history.py` | counter baselines; SQLite: three tiers | tick: read, write, roll up, prune | Docker stats | counters start again with a container; a tick fails or the sampler dies half-way; buckets are recomputed | no byte counted twice or lost by a rollup |
| **LND liquidity ring** `builders/lnd.py`, gate in `builders/bitcoind.py` | markers in `lnd_setup_state`, wallets, channels | fund, open, rebalance, open the P2P port | bitcoind, three LND nodes, miner | shell scripts that Docker restarts from the top; an effect and its marker are two steps; two scripts move the same balances | the ring comes up after any fault, pays and opens no more than needed, is private meanwhile, becomes and stays balanced |
| **Sidecars of Electrum, Ark, Fedimint** `builders/electrum.py`, `ark.py`, `fedimint.py` | markers, addresses, wallets | fund, open a channel, key ceremony, peg in | ring nodes, miner | as the ring; errors that are ignored; a daemon nobody watches | provisioned in the end, each effect once per attempt |
| **Dashboard** `web/app.py`, `metrics.py`, `cache.py`, **LNURL** `web/lnurl.py` | a snapshot row | read-through cache, pages, pay requests | Docker, node RPC | workers that find the snapshot stale together | not modelled, section 7 |
| **Miner, claimer, relay sweep, shops, secrets** | a status file, key files | loops around calls; random values | bitcoind, third parties | RPC failures | not modelled, section 7 |

How the parts interact: the reset deletes the chain, the markers of the ring and
its nodes together, and reaches into the faucet's and Bitcart's stores, which
other projects own; the faucet's maintenance thread deletes the rows its requests
read; the sampler reads containers that the reset destroys; the ring scripts
share marker files with each other and with bitcoind's entrypoint, and channel
balances with users, sidecars and each other; the sidecars wait for the ring;
and every port is bound by a builder, let in by the firewall, routed by Caddy
and Tor and shown by the dashboard.

## 2. Plan

Written, in this order, the ones that touch money first:

1. `Vouchers` (abstract), `Faucet`, `MCFaucet`; `FaucetMaintenance`; `FaucetProofs`
   for both
2. `Sums`, the lemmas on quotients and on sums over finite sets
3. `Sampler`, `MCSampler`, `SamplerProofs`
4. `LiquidityRing`, `LiquidityRingProofs`, `RingRebalancer`, `RingRebalancerProofs`
5. `FaucetPolicy`, `MCFaucetPolicy`, `FaucetPolicyProofs`
6. `AtLeastOnce` (abstract), `Provisioning`, `ProvisioningProofs`
7. `StackConfig`, `StackServices`, `StackExposure`, composed by `Deployment`,
   with `MCDeployment` and `DeploymentProofs`

To come: the firewall with a moved pool base, which reaches the firewall and not
the container; the snapshot cache.

## 3. The modules

### Faucet (`Faucet.tla`, abstract: `Vouchers.tla`)

One faucet of one network, for every table but `Maintenance` is keyed by
network. A request is a sequence of steps, one per database statement or wallet
call of `faucet()` and `_process` in `argus/faucet/app.py`: `Arrive` captures
`now`; `Approve`/`Refuse` evaluate the rules on the tables of that moment;
`Redeem`/`RefuseReplay` insert the nonce; `Send`, `SendReturns`, `SendRefused`,
`SendTimesOut` are the REST call, and `LndPay` is the wallet, which may pay at
any time after it was asked; `UpdateUsage`/`InsertUsage` and the claim actions
are the records (an upsert is an UPDATE and, if it changed no row, an INSERT
with its conflict clause). `Die` ends a request anywhere. The purges of
`maintenance.py` run at any time and take what their cut-offs allow. Whether an
amount rule refuses is a free choice here (`Refuse`); `FaucetPolicy` has them.

`Vouchers` says what the faucet promises with none of this: a request is granted
before it is paid, once, and a challenge backs one grant while it is valid.
`ImplementsVouchers` is the refinement (a challenge's expiry, the instant a
request passed its last gate, and what the wallet has paid).

### Faucet policy (`FaucetPolicy.tla`)

The numbers the other module leaves open: `ComputeLimits` and `AmountRules` (the
caps and the least claim, from a balance read when the request starts),
`TargetSeconds` and `EffectiveTtl` (the price of a challenge on a flat and on a
value-pegged network, with the balance anchor and the demand retarget),
`BlockSubsidy` (a cache in front of an explorer that may fail), and the wallet
with confirmed coins and unconfirmed change. A visitor asks for a challenge,
posts with or without its solution, and may post again what was refused; each
read of the node and each payment is a step, so the balance a cap divides, the
subsidy a price rests on and the count a retarget uses are as old as they can be
in the code. Floats are ratios of integers.

### Faucet maintenance (`FaucetMaintenance.tla`)

Workers start (`Start`, `SeedSelect`, `SeedInsert`: `init_db`), wake, claim the
interval with one UPDATE (`Claim`, won if it changed exactly one row) and purge
the four tables in order (`Purge`); `Hiccup` is the exception the thread
swallows, `Crash` a death at any point. Time is kept as ages so that the clock
need not be bounded for liveness.

### Sampler (`Sampler.tla`)

`Read` is `tick()` up to its first write, `WriteSample`, `RollupHour`,
`RollupDay` and `Prune` are the statements that follow, each committed on its
own; `TickError` and `Crash` can strike between any two. Containers receive
bytes, stop and start again with a counter of zero. One service and the received
bytes are kept; the other gauges are averaged or copied by the same code. A tick is
written row by row with `INSERT OR REPLACE` (`Replace`), so that a tick repeated
within its second replaces what it wrote.

### Liquidity ring (`LiquidityRing.tla`) and rebalancer (`RingRebalancer.tla`)

`lnd-setup` (`SetupStart` ... `MarkFunded`), `lnd-channels` up to the initial
rebalance (`AwaitFunded` ... `AwaitActive`), the markers they share, the miner,
bitcoind's self-gate (`OpenGate`), and the operator on an externally funded
network (`Deposit`, `TopUp`). Each script is a program counter; a fault, or
`openchannel` refused under `set -e` (`OpenUnfunded`), sends it back to the top,
and only the markers remember. A block confirms everything; the change of a
channel's funding is unconfirmed until then, and coin selection may leave change
or not. `RingRebalancer` has the balances of the three channels once they are
up, moved by the initial rebalance, by `rebalance_node` for each node in turn
(`Look` plans, `Pay` pays on the balances of the moment) and by users. Routing
fees are left out: they are bounded by `max_fee_sat`.

### Provisioning (`Provisioning.tla`, abstract: `AtLeastOnce.tla`)

The five scripts that set the Lightning tools up: `electrum-entrypoint.sh` and
`electrum-fund.sh`, `ark-channel.sh`, Fedimint's `setup.sh` and `gateways.sh`.
One action per step; `Kill` is a restart of any of them, or a repeated `up`, at
any point, and an error that ends a script under `set -e` is one too. Every call
whose error a script does not stop for may fail: the wallet that is not made or
not loaded and the address that is not published (`ElectrumStart`,
`ElectrumLoad`, `ElectrumAddress`, `BridgeAddress`), what a gateway is told
(`Try`), the federation it cannot read (`GatewayUnread`); or it may have taken
effect and report a failure, and is made again (`Unheard`). Electrum's daemon is
off, up, up with its wallet loaded, or dead (`DaemonDies`). Effects outside the
container (coins sent, channels opened) are counted per step in `effects`, marker
files are `marked` and `files`. `Networks` says which tools a network has: the
scripts of a tool that is not there are `off`. The ring's wallets hold the floats,
which `LiquidityRing` funds.
`AtLeastOnce` says what act-then-mark can promise: an effect is marked only once
it is there, never repeated after its marker, and once per attempt. The
refinement maps "may still act" to the steps that are neither marked nor between
their effect and their marker.

### The stack (`StackConfig`, `StackServices`, `StackExposure`)

Pure definitions. `StackConfig` has the records of `config.py`, what each unset
setting resolves to, and `Valid`, every check of `load_config`. `StackServices`
has the builders: each service with its dependencies and their conditions, its
healthcheck, restart policy, published ports and volumes, and the merge of the
fragments (`Project`). A fragment is a set of named services, `Registry` the
sequence of the included ones, and `Merged` the `dict.update` that lets the last
one of a name win. `StackExposure` has port allocation (`Strided` for the offsets
of a block, `Over` for the overrides, `PortMap`, `Allocatable`) and what is
derived from it: the sockets of the host
(`Listeners`), the sites of Caddy, the firewall rules, the onion routes, the
dashboard's rows, recipes and credentials. Two services of one configuration are
compared by name and port, never by text.

### Deployment (`Deployment.tla`)

Composes the three: a configuration is generated or rejected, and one of `Live`
is deployed. Its containers start, become healthy, finish, fail and crash under
`docker compose up`, which gives up when a job it waits for fails (`AbortUp`); a
reboot brings back the daemons and no job; the operator runs `up` again. On a
network that resets, `Poll`, `Down`, `ScriptUp`, `WipeBitcart`, `PurgeFaucet`
and `Sleep` are the lines of `reset.py` and `reset.sh`, and `others` the
projects beside it, whose mounts hold a volume against `down -v`. `data[v]` is
the life of the network that the content of a store dates from. The last two wipes
of the script may fail and the script goes on (`WipeFails`); `unwiped` are the
stores this happened to.

## 4. The runs

| Run | Asks | Bounds, and why they are enough |
| --- | --- | --- |
| `faucet` | replay guard, daily limits, PoW and usage counters, refinement of `Vouchers` | two requests of any kind, two challenges, two workers: each property relates two requests. Four ticks are two days of two, so that a challenge expires, a purge takes it and a counter's day ends while a request runs |
| `faucet_race` | *violated*: one free claim per 24 hours | two requests |
| `maintenance` | claims spaced, purge recurs, starts one after the other | two workers, two faults: one for each worker, or two for one |
| `maintenance_boot` | *violated*: purge recurs, starts together | no fault at all |
| `policy` | the reserve, what work pays, what it costs, anchor and retarget | a flat and a value-pegged network; two visitors over two workers, so that one balance is shared; four blocks with a halving every two and a reset horizon of three; one deposit, one failed call; amounts on both sides of each cap, half a satoshi and an invalid address; 2.0 million states |
| `sampler` | no byte twice, rollups idempotent, newest two hours exact | almost four hours of two ticks are two days of four; two faults; 5.3 million states |
| `sampler_sealed` | *violated*: older hours stay exact | no fault |
| `ring` | at most one repeat per fault, private while funding, comes up | every kind of network; two faults anywhere; wallets of 15 for channels of 4 and fees of 1: three channels' worth, one per fault and the one wanted |
| `rebalancer` | payments pay off, ring settles, comes to rest, initial rebalance | capacity 10 with a band of 35 to 65, user payments of 2 and 3, twice; two faults; any set of nodes with foreign channels |
| `provisioning` | refinement of `AtLeastOnce`, funded gateways are backed, known dead ends only | two guardians, so that the loops have a first and a last; two kills and two ignored errors at any points; one network with Electrum and Ark and one with Fedimint, as the tools share nothing but the ring's coins; coins for two openings of the swap channel |
| `deployment` | what is accepted can start, ports clash only by hand, firewall, onion, rows and links agree with the sockets, credentials, reset, liveness | 447 configurations in seven families that cross the settings that interact (ring nodes against the tools on them, every set of tools, miner and funding on every network, two networks with the onion, overrides and a full indexer block, certificates, numbers of the operator that meet a port of the pool, of a backend, of the proxy or of the dashboard); 258 are accepted, 27 of them with a clash. Four are deployed, three lives and one fault each, which may be a wipe that fails |
| `port_clash` | *violated*: no two services on one port | the last of those families: overrides of three ports, one of them Bitcart's store, and `web.port`; 36 of 41 are accepted |

Deadlock is checked except where the system ends: requests are finite, the
sampler's clock is bounded, scripts exit when done, an installation rests once
it is up.

### What the violated runs show

- `faucet_race`: the one-per-day rule reads before the payment and records after
  it; two overlapping requests of one IP are both paid. Requests that do not
  overlap keep the limit (`SerialDailyLimit`, proved).
- `maintenance_boot`: two workers that start together on a new database seed two
  rows, after which the claim is never won. With starts one after the other it
  is (`PurgeRecurs`), and once per interval (`ClaimsSpaced`, proved).
- `sampler_sealed`: each rollup replaces the row of the hour before last with
  the sum of its part younger than two hours. The two newest are exact.
- `port_clash`: `ports.py:6` promises that no two services fight for one host
  port, and `allocate` compares only the ports it names. An override equal to a
  port of Bitcart's pool, of the backends 29080 to 29082, of Tor or of the
  dashboard is accepted, and so is a `web.port` equal to any port of a network.
  There is no other way to a clash (`ClashesAreByHand`, proved).

### What the properties allow for

Some properties are stated around a behaviour of the code that a reader should
know of.

- *Faucet.* A slow request that was verified in time can redeem a challenge whose
  row the purge has taken since, as `app.py` checks the nonce at the instant
  captured on arrival: `SingleUseWhileValid` speaks of valid challenges.
- *Faucet policy.* The claims a balance has to last for are never fewer than one
  each day of the trailing year, so 365 of them: the comments that promise
  `>= 365*10` (`faucet/store.py:236-247`, `faucet/rules.py:98`) are not borne out
  by `usage_stats`, and `ReserveKept` says what is. A balance that cannot be read
  lifts the caps and the anchor
  (`ReserveKept` excludes it, `blind`); a value-pegged price stops at its cap and
  may rest on a subsidy that could not be refreshed (`PriceCoversMining`); with a
  `min_seconds` above `value_cap_seconds` the clamp returns the former. The
  faucet stops paying once the balance over the expected claims is below the
  least claim.
- *Ring.* Every start waits for `channel_btc` confirmed on all three nodes, even
  where the channel is open and has spent it. On an externally funded network
  with exactly that sum sent twice, a restart after a later node's `openchannel`
  was refused waits for more: `RingComesUp` has an operator who tops up. With
  automatic funding the same wait bounds the faults a ring survives.
- *Provisioning.* `OnlyKnownDeadEnds` names nine, each of which the run reaches.
  Electrum: a daemon that dies before the last `wait` (`DaemonUnwatched`), one
  that runs without its wallet, whose `create` or `load_wallet` failed
  (`WalletNotLoaded`), no address published (`SwapUnfunded`), and coins spent on a
  channel that was not marked (`SwapSpent`: `Openings` says for how many channels
  one funding pays, about ten by default, none with a reserve of zero; the run
  has two). Ark: no address published, so that nobody can fund the bridge
  (`BridgeUnfunded`). Fedimint: `setup.sh` started again after its first call
  (`CeremonyBroken`, although `builders/fedimint.py:31` calls it idempotent), a
  wallet or a membership whose call failed and whose marker was made anyway
  (`WalletNeverMade`, `NeverJoined`), and a joined gateway whose `info` failed,
  which is passed over while the script ends well (`FloatPassedOver`). Each tool
  is excused by its own dead ends only. A kill between a transfer or a channel and
  its marker repeats it, and so does a call that reports a failure after it took
  effect (`electrum.py:152-158`, `ark.py:123-132`, `fedimint.py:190-198` make it
  again): no more often than that (`PaidOncePerAttempt`, proved).
- *Deployment.* `ComposeCanStart` excepts a Fedimint gateway that is paired with
  a ring node that is not deployed, which validation accepts with the channels
  off (`GatewayWithoutNode`). Nobody checks the names of the indexers: two of one
  name, or one named like a service, replace each other in the project while the
  firewall still opens a port for each. A claimer that forwards to the faucet
  mounts the wallet of `lnd` and waits for `bitcoind` only; it looks for the
  credentials again on every round, and `CredentialsFirst` is not asked of it.
  `EverythingComesUp` rests on the operator: a reboot restarts no one-shot
  service. `LinksLeadSomewhere` excepts the Lightning recipe, which gives onion
  addresses whether or not `tor.expose_lnd_p2p` is set. `ClashesAreByHand` says of
  every accepted configuration what `port_clash` leaves true: two sockets meet
  only over a number the operator set, and only if one of them is a socket that
  `allocate` compares with nothing (the dashboard's, the backends', the onion's,
  the proxy's, the pool's); the defaults never meet. Caddy's own listener for
  redirects on port 80 is not among the sockets. An override of the P2P base of
  Bitcart's LND reaches the firewall and not the container.
- *Reset.* `config.yaml:95` says of a reset that coins, channels, transactions and
  tool state are wiped. `ResetWipesItsOwn` speaks of a script that prints `done`,
  and excepts two things. A volume that another project mounts stays: the faucet
  mounts `lnd_data` of each of its networks (`web_gen.py:212-217`), and `down -v`
  only warns of a volume in use. And the wipes of Bitcart and of the faucet's
  history swallow the errors of `docker stop`, `run`, `start` and `exec`
  (`reset.py:177-190`, `203-204`): what failed so stays on the old chain, and
  nothing else does. A later reset whose wipe works makes up for it. A `reset.sh`
  that dies before its last two steps leaves both undone until the next one.

Seen while modelling, and about no property here: `tor.onion_routes` has no
routes for Fedimint, Ark and the relay, although `TorCfg` speaks of every enabled
sub-tool; the dashboard files the usage of both Fulcrum rows under one bucket of
`metrics.py`; a custom signet that is given its challenge and no miner key is
accepted with the miner enabled, and the builder then misses the key.

## 5. Fairness

`Faucet`, `FaucetPolicy` and `Sampler` have safety properties only and state
none. `FaucetMaintenance`: `WF` of the clock, and `SF` of each worker's step:
threads run and gunicorn starts a dead worker again; strong, because with
staggered starts a worker's start is disabled now and then by another's and
still gets its turn. `LiquidityRing`: `WF` of blocks (the miner loops for ever;
public networks mine), of the gate's poll loop, of each script (restart policy
`on-failure`), and of the operator's deposits where the operator funds.
`RingRebalancer`: `WF` of `lnd-channels` and of the rebalancer's loop (restart
`unless-stopped`). `Provisioning`: `WF` of each script (`on-failure`, and
`unless-stopped` for Electrum), of confirmations and of the coins the scripts
wait for: the ring's, and those the operator sends again and again to a bridge
  whose address is published. `Deployment`: `WF` of what Compose does, of the
  controller's loop, and
of an operator who generates, deploys and repeats an `up` that left something
out; nothing is assumed of the other projects, of the chain's growth or of
faults but that the model bounds the latter.

## 6. What is proved

All for every value of the constants that satisfies the modules' assumptions.

- `FaucetProofs`: `TypeCorrect`; `ChallengeSingleUse`; `FaucetImplementsVouchers`;
  `DailyLimit`. The replay guard rests on `Payments`: where a request stands says
  whether it passed its last gate and whether the wallet was asked (`Gates`), and
  a spent challenge stays in the table until it has expired (`Burned`). Without
  `Burned` the property is not inductive: nothing ties the table to what was
  paid. The same invariant maps every step to a step of `Vouchers` or a stutter.
  The daily limit rests on `Limited`: two open requests of an IP mark it as raced
  (`Alone`), the claim table remembers the youngest claim until it is a day old
  (`Remembered`), and a request open after a claim was captured after it
  (`Ordered`) and approved a day later (`Spaced`).
  In the same module `PowCounterExact`, `UsageHistoryHonest`, from `Counts`:
  finitely many requests have arrived, and the usage of a day lies between the
  requests that are past the count (`UsageLow`) and those that are paid and past
  it or dead (`UsageHigh`): a dead request does not tell whether it was counted.
  `PowCapHolds`, from `Places`: a request takes a place under the cap when it is
  approved (`Capped`), two open ones of an IP mark it as raced (`OneOpen`), and
  the worker timeout keeps the day it asks about out of the purge's reach
  (`Young`); the theorem assumes that timeout to be no longer than a day.
  `ClaimedOncePerInterval` of `FaucetMaintenance` (instantiated as `Upkeep`, for any
  number of faults), from `SeedSafe`: with staggered starts at most one row ever
  exists and its age is the time since the last claim.
- `Sums`: what an integer quotient is, and that a sum over a finite set takes out
  an element, splits, is monotone and is bounded by the sums of its parts. The
  fold of the community modules is a recursive function, so the lemmas start from
  its existence (`AddsExists`) and go by induction over the subsets of a set,
  stated with a set where the library has an operator (`SubsetInduction`).
- `SamplerProofs`: `NoDoubleCounting`, from `RoomForDelta`: what the next read
  would credit has been received and was not credited before. `NoRowCountedTwice`
  and `NewestHoursExact`, from `Rolls`: every raw row is one that was written
  (`RawWritten`), the two newest hours have all of theirs (`RawComplete`), and an
  hour or a day holds no more than what was written into it. A rollup replaces a
  bucket by the sum of the rows it sees, which are some of those written
  (`HourRolled`), and a day sums hours that each hold no more than theirs
  (`DayRolled`). The day has to be a multiple of the hour.
- `FaucetPolicyProofs`: `WorkIsPaidAsPriced`, from `Work`: a request holds its
  challenge, its form and its outcome together, wherever it stands. `ReserveIsKept`,
  from `Reserve` and `LeastClaims`: an approval is worth a share of a balance that
  was there (`Allows`), what is approved, ordered and paid leaves the wallet the
  rest of the shares, request by request, and each is at least the minimum
  (`CapAllows`, `PaymentLeaves`); the year that is expected is never shorter than
  365 claims (`ExpectedEnough`). `MiningIsCovered` and `ScarcityHardens`, from
  `Prices`: every price is what `TargetSeconds` gave for the balance, the claims
  and a subsidy no older than the cache allows (`SubsidyIsRecent`); within a
  challenge there is at most one halving (`OneHalving`, which needs
  `HalvingAssumption`: a halving lasts longer than cache and challenge together),
  and the anchor, the retarget and the clamp keep the order of ratios
  (`AnchorKeeps`, `DemandKeeps`, `ClampKeeps`). That the recursive table of
  subsidies exists is proved too (`HalvedIs`).
- `LiquidityRingProofs`: `TypeCorrect`; `GateOpensLast`, from `Order` (a marker is
  there only after its effect, the edges come in order, the scripts wait for each
  other through `funded`); `RepeatsBounded`, from `Thrift`: what was repeated so
  far, and what a script that stands between an effect and its marker, or has
  been restarted there, is going to repeat, never exceed the faults.
- `RingRebalancerProofs`: `TypeCorrect` (no balance leaves 0..capacity);
  `EveryPaymentPaysOff`: a plan is always the shift for the balances seen
  (`Planned`), a shift brings two of the three channels nearer to half
  (`HelpedChannel`, `CrossedChannel`) and costs the third no more than they gain
  (`OtherChannel`); `CompletedIsBalanced`, from `Uniform`: until a user pays the
  three channels look the same, full or at half, and the reserve forbids a second
  half.
- `ProvisioningProofs`: `TypeCorrect`; `FundedIsBacked`; `Refinement`;
  `PaidOncePerAttempt`. The invariant adds to the types what a script knows where
  it stands: between effect and marker the effect is there (`Between`), and at
  the address, the marker and the claim the gateway has joined and has an address
  (`AtGateway`). The refinement takes each step to `Perform`, `PerformUnheard`,
  `Mark`, `Interrupt` or a stutter, and the bound on repeats, the kills and errors
  of the run, follows from it (`Attempts`).
- `DeploymentProofs`: `TypeCorrect`; `ResetIsClean`, from `Wiped`: a volume that
  no other project mounts never holds more than the life at hand, Bitcart's from
  its wipe on and the faucet's history from its purge on unless that wipe failed
  (`unwiped`), and a history is empty where there is no faucet. It is what forbids
  a step to bring the old chain back between two lines of the script: the history
  and Bitcart's wallet are filled from the node, whose volume was wiped first.
  `CredentialsBeforeUse`, from `Creds`: a service that is healthy or done has
  filled the volumes it owns (`Filled`), and whoever mounts one waits for its
  owner to be healthy or done (`Asked`). The latter is a lemma about every builder
  and every accepted setting (`BuildersAskFirst`).
  `FirewallMatches`, `OnionAddsNothing`, `RowsAreTrue` and `LinksAreRight` hold of
  every accepted configuration, with any number of networks. They go through two
  sets of port names, what the services of a network publish (`PublicNames`) and
  what is bound to the loopback (`LoopbackNames`): the builders publish those and
  no others (`OnlyThesePublic`, `AllThesePublic`, `AllTheseLoopback`), the firewall
  opens the former and the sites of Caddy (`OpenExactly`), and routes, rows and
  links are each traced to one of them (`RoutesLead`, `RowsShow`, `ToSite`).
  `ComposeStarts`: every service stands on a rung (`Ranks`), asks only for
  services on lower rungs and for no more than they offer, healthy or done, and
  mounts declared volumes (`Equipped`, a lemma per builder up to `AllEquipped`).
  The rounds of `Startable` grow until nothing is added (`RoundsAre`), so the
  services of a rung are in by the round of its number (`RankedStart`), and there
  are as many rounds as services, which no rung exceeds (`RanksAreLow`). Where a
  gateway is paired with a missing node, `GatewayHangs` shows that it does not
  start, which is what the property says. `ClashesOnlyByHand`: a socket is one of
  three kinds (`ListenersAre`): one with a port every installation takes, one of
  Bitcart's pool, or one the allocator has named; and each named port has one
  service that publishes it (`Holders`, from `Publishers` of every builder). Named
  ports differ because the allocator counts: as many numbers as assignments, so
  the map is injective (`AllocatedApart`), which needs the set of assignments to
  be finite (`FiniteAssignable`). Defaults lie in their network's block and
  outside the fifty numbers of the pool (`DefaultsInBlock`, `PoolsApart`), and the
  fixed ports lie outside of all blocks (`FixedApart`). So two sockets of one port
  are of two kinds, and one has its port from the operator: the dashboard
  (`DashboardByHand`) or an override (`ClashesOf`). Three things the code does not
  check are hypotheses. `OwnNamesAndPool`: the indexers of an accepted
  configuration have names of their own, and the P2P base of Bitcart's pool is not
  overridden. `IndexersListed`, for the last two: the first half of it, and that
  the enabled indexers are a sequence, which is what `SelectSeq` returns and what
  the provers do not know of it. `AllWait`, for a network that is deployed: its
  gateways have their ring nodes, its claimer does not forward to the faucet, and
  no indexer is named such that its volume is one of credentials. All 258 accepted
  configurations of the `deployment` run satisfy the first two, every deployed one
  the last.

Only model-checked is everything with liveness: `PurgeRecurs`, `RingComesUp`,
`SettlesInBand`, `ComesToRest`, `OnlyKnownDeadEnds`, `DiskIsBounded`,
`EverythingComesUp`. Every safety property of a passing run is a theorem. The
prover has no backend for `ENABLED` and so for fairness, and none for
`RECURSIVE` operators; induction is done by hand, over the elements of a set.

## 7. Not modelled

`PROJECT.json` lists every component with its status. Third-party daemons (LND,
bitcoind, Fulcrum, mints, shops) are external: what they do is a free choice
within what the code relies on. The dashboard's collectors and pages read the
live state and keep none; the snapshot cache is one row that only a page reads;
LNURL is two bounds checks and a call; the claimer and the miner are sequential
loops around RPC calls whose status nothing reads back; secrets are random
values written once; the relay sweep and the shops' scripts drive third parties.
Images, environments, templates, TLS and texts are left out everywhere. The
vendored signet miner with its test framework, a fifth of the repository's
Python, the theme assets and the tests are left aside. What was
simplified within a modelled component is said at the head of its module.
