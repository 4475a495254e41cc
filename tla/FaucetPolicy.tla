---------------------------- MODULE FaucetPolicy ----------------------------
(***************************************************************************)
(* How much the faucet gives and what it asks for it: the amount rules     *)
(* (rules.py), the price of a proof of work (pow.py, difficulty.py) and    *)
(* the wallet they are about.  Faucet.tla has the rules that count claims  *)
(* and every statement of the tables; here a visitor has passed the rules  *)
(* and the statements between two calls of the node are one step.          *)
(*                                                                         *)
(* A balance is read when a request starts and used until its payment is   *)
(* posted; a price is fixed when a challenge is issued and holds for the   *)
(* challenge's life.  In between other requests are paid, blocks come and  *)
(* the subsidy halves.  The unit of time is one block.  A float of the     *)
(* program is a ratio of integers.                                         *)
(***************************************************************************)
EXTENDS Integers, FiniteSets, FiniteSetsExt, Functions

CONSTANTS
  Requests,        \* visitors, each with one challenge and one payout at most
  NumWorkers,      \* gunicorn -w: requests served at the same time
  Forms,           \* what visitors may ask for: [address, amount_raw]
  Addresses,       \* the addresses that are valid on this network's chain
  Settings,        \* the settings the network may have: see IsSettings
  Day,             \* DAY_SECONDS, in blocks
  Window,          \* the trailing year, in days
  MissingDay,      \* what a day without a row counts at least (10)
  OneBtc,          \* ONE_BTC, in satoshis
  InitialSubsidy, HalvingInterval,
  CacheTtl,        \* _CACHE_TTL, in blocks
  Coins,           \* what the wallet holds at first
  Fee,             \* fee_sat_per_vbyte, for a whole transaction
  MaxHeight,       \* bound: blocks
  MaxDeposits,     \* bound: deposits, each of Coins
  MaxErrors        \* bound: calls of the node or the explorer that fail

None == -1

\* FaucetCfg and PowCfg, with the resets and the miner the horizon depends on.
IsSettings(s) ==
  /\ {s.max_amount_per_day, s.per_request_balance_cap, s.min_claim_enabled,
      s.pow_enabled, s.value_pegged, s.balance_anchor, s.demand_retarget,
      s.reset_enabled} \subseteq BOOLEAN
  /\ {s.min_claim_sat, s.balance_full_sat, s.demand_target_per_day,
      s.balance_max_mult, s.demand_max_mult, s.value_safety_factor,
      s.value_cap_seconds, s.max_seconds, s.ttl_seconds} \subseteq Nat \ {0}
  /\ s.min_seconds \in 0..s.max_seconds
  /\ {s.reset_blocks, s.block_interval} \subseteq Nat
  /\ s.balance_cap_fraction.d \in Nat
  /\ s.balance_cap_fraction.n \in 1..s.balance_cap_fraction.d
  /\ {s.seconds_per_sat.n, s.seconds_per_sat.d} \subseteq Nat \ {0}

ASSUME PolicyAssumption ==
  /\ IsFiniteSet(Requests)
  /\ Day \in Nat \ {0} /\ Window \in Nat \ {0} /\ MissingDay \in Nat \ {0}
  /\ OneBtc \in Nat /\ InitialSubsidy \in Nat /\ HalvingInterval \in Nat \ {0}
  /\ CacheTtl \in Nat \ {0} /\ Coins \in Nat /\ Fee \in Nat
  /\ MaxHeight \in Nat /\ MaxDeposits \in Nat /\ MaxErrors \in Nat
  /\ \A f \in Forms : f.amount_raw \in Nat
  /\ \A s \in Settings : IsSettings(s)

\* A halving lasts longer than what a worker remembers and a challenge together: four years
\* against ten minutes and the longest of ttl_seconds and twice value_cap_seconds.
ASSUME HalvingAssumption ==
  \A s \in Settings : s.value_pegged =>
    /\ CacheTtl - 1 + s.ttl_seconds <= HalvingInterval
    /\ CacheTtl - 1 + 2 * s.value_cap_seconds <= HalvingInterval

\* Ratios of integers with a positive denominator.
Ratio(n, d) == [n |-> n, d |-> d]
Leq(x, y) == x.n * y.d <= y.n * x.d
Least(x, y) == IF Leq(x, y) THEN x ELSE y
Greatest(x, y) == IF Leq(x, y) THEN y ELSE x
Times(x, y) == Ratio(x.n * y.n, x.d * y.d)
Whole(n) == Ratio(n, 1)
Ceiling(x) == (x.n + x.d - 1) \div x.d
_clamp(x, lo, hi) == Greatest(lo, Least(hi, x))

VARIABLES
  cfg,        \* the settings of this installation
  height,     \* of the chain, and the clock
  confirmed,  \* confirmed coins of the wallet
  change,     \* its coins that wait for a block
  usage,      \* usage[d]: payouts recorded on day d, 0 when there is no row
  cache,      \* the subsidy a worker remembers, and since when
  pc,         \* where a request stands
  form,       \* what it asks for
  view,       \* the balance it read: None when the node did not answer
  token,      \* its challenge
  spent,      \* the requests whose nonce is redeemed
  orders,     \* what the wallet still may pay a request, 0 for nothing
  paid,       \* what it has paid
  okAt,       \* history: the instant of the last submit that passed every rule
  blind,      \* history: a submit passed whose balance was not known
  deposits, errors

wallet == <<confirmed, change, deposits>>
visitor == <<pc, form, view>>
history == <<okAt, blind>>
vars == <<cfg, height, wallet, usage, cache, visitor, token, spent, orders, paid, history,
          errors>>

Goto(r, step) == pc' = [pc EXCEPT ![r] = step]

NoForm == [address |-> "", amount_raw |-> 0]
NoToken == [issued |-> FALSE]
Served == {"price", "process", "spend", "wait"}

\* The request is answered; nothing of it stays.
Leave(r, step) ==
  /\ Goto(r, step)
  /\ form' = [form EXCEPT ![r] = NoForm]
  /\ view' = [view EXCEPT ![r] = None]

-----------------------------------------------------------------------------
(* rules.compute_limits and what it reads.                                 *)

DayOf(t) == t \div Day
today == DayOf(height)
MaxDay == DayOf(MaxHeight)

TrailingYear == (today - Window + 1)..today

\* store.usage_stats: a day of the window without a row counts as a busy one.
ExpectedYear ==
  LET busiest == Max({usage[d] : d \in 0..MaxDay})
      fill == Max({busiest, MissingDay})
  IN  SumFunction([d \in TrailingYear |->
                     IF d \in 0..MaxDay /\ usage[d] > 0 THEN usage[d] ELSE fill])

\* reset.faucet_cap_horizon_days, in days.
CapHorizon ==
  IF ~cfg.reset_enabled \/ cfg.reset_blocks = 0 \/ cfg.block_interval = 0
  THEN Whole(Window)
  ELSE Least(Whole(Window), Ratio(cfg.reset_blocks * cfg.block_interval, Day))

MutantNoFill ==
  Greatest(Whole(1),
    Whole(SumFunction([d \in TrailingYear |-> IF d \in 0..MaxDay THEN usage[d] ELSE 0])))

\* The claims the balance has to last for.
Expected == Greatest(Whole(1), Times(Whole(ExpectedYear), Times(CapHorizon, Ratio(1, Window))))

ComputeLimits(balance) ==
  LET daily == IF cfg.max_amount_per_day /\ balance # None
               THEN (balance * Expected.d) \div Expected.n ELSE None
      share == IF cfg.per_request_balance_cap /\ balance # None
               THEN (balance * cfg.balance_cap_fraction.n) \div cfg.balance_cap_fraction.d
               ELSE None
      active == {daily, share} \ {None}
  IN  [daily_cap |-> daily, balance_cap |-> share,
       min_claim |-> IF cfg.min_claim_enabled THEN cfg.min_claim_sat ELSE None,
       max_request |-> IF active = {} THEN None ELSE Min(active)]

\* A form's amount is in halves of a satoshi; one that is no whole number of them does
\* not parse.  0 stands for text that is no positive number.
Sats(f) == IF f.amount_raw > 0 /\ f.amount_raw % 2 = 0 THEN f.amount_raw \div 2 ELSE None

\* approval._max_one_btc
MaxOneBtc(f) == f.amount_raw > 0 /\ f.amount_raw < 2 * OneBtc

\* The amount rules of rules.evaluate; one whose figure is unknown passes.
AmountRules(sats, l) ==
  /\ l.daily_cap # None => sats <= l.daily_cap
  /\ l.balance_cap # None => sats <= l.balance_cap
  /\ l.min_claim # None => sats >= l.min_claim

-----------------------------------------------------------------------------
(* The price of a proof of work.  The unit of work is such that a block of *)
(* difficulty 1 takes the reference machine one unit of time.              *)

\* A block's subsidy after so many halvings: it is shifted right once for each.
Halved[halvings \in Nat] ==
  IF halvings = 0 THEN InitialSubsidy ELSE Halved[halvings - 1] \div 2

SubsidyForHeight(h) == Halved[h \div HalvingInterval]

MutantAnchorReversed(sats, balance, claims, subsidy) ==
  _clamp(Times(Times(cfg.seconds_per_sat, Whole(sats)),
               IF balance = None THEN Whole(1)
               ELSE Greatest(Whole(1), Ratio(cfg.balance_max_mult * balance,
                                             cfg.balance_full_sat))),
         Whole(cfg.min_seconds), Whole(cfg.max_seconds))

\* pow.compute_target_seconds; None when a value-pegged network has no subsidy.
TargetSeconds(sats, balance, claims, subsidy) ==
  IF cfg.value_pegged
  THEN IF subsidy \in {None, 0} THEN Whole(None)
       ELSE _clamp(Least(Ratio(cfg.value_safety_factor * sats, subsidy),
                         Whole(cfg.value_cap_seconds)),
                   Whole(cfg.min_seconds), Whole(cfg.value_cap_seconds))
  ELSE LET full == Whole(1)
           fraction == _clamp(Ratio(balance, cfg.balance_full_sat), Whole(0), full)
           anchor == IF cfg.balance_anchor /\ balance # None
                     THEN Ratio(fraction.d + (cfg.balance_max_mult - 1)
                                               * (fraction.d - fraction.n), fraction.d)
                     ELSE full
           demand == IF cfg.demand_retarget
                     THEN _clamp(Ratio(claims, cfg.demand_target_per_day), full,
                                 Whole(cfg.demand_max_mult))
                     ELSE full
       IN  _clamp(Times(Times(Times(cfg.seconds_per_sat, Whole(sats)), anchor), demand),
                  Whole(cfg.min_seconds), Whole(cfg.max_seconds))

\* pow.effective_ttl
EffectiveTtl(seconds) == Max({cfg.ttl_seconds, Ceiling(Times(Whole(2), seconds))})

-----------------------------------------------------------------------------
Init ==
  /\ cfg \in Settings
  /\ height = 0
  /\ confirmed = Coins /\ change = 0 /\ deposits = 0
  /\ usage = [d \in 0..MaxDay |-> 0]
  /\ cache = [at |-> None, subsidy |-> None]
  /\ pc = [r \in Requests |-> "new"]
  /\ form = [r \in Requests |-> NoForm]
  /\ view = [r \in Requests |-> None]
  /\ token = [r \in Requests |-> NoToken]
  /\ spent = {}
  /\ orders = [r \in Requests |-> 0] /\ paid = [r \in Requests |-> 0]
  /\ okAt = [r \in Requests |-> None] /\ blind = FALSE
  /\ errors = 0

AWorkerIsFree == Cardinality({r \in Requests : pc[r] \in Served}) < NumWorkers

\* FaucetLnd.balance_sat: the confirmed balance, or None when the call fails.
ReadBalance(r) ==
  \/ view' = [view EXCEPT ![r] = confirmed] /\ UNCHANGED errors
  \/ /\ errors < MaxErrors
     /\ errors' = errors + 1
     /\ view' = [view EXCEPT ![r] = None]

-----------------------------------------------------------------------------
(* faucet_challenge.                                                       *)

AskChallenge(r) ==
  /\ pc[r] = "new" /\ cfg.pow_enabled /\ AWorkerIsFree
  /\ \E f \in Forms :
       /\ f.address \in Addresses /\ Sats(f) # None
       /\ form' = [form EXCEPT ![r] = f]
  /\ ReadBalance(r)
  /\ Goto(r, "price")
  /\ UNCHANGED <<cfg, height, wallet, usage, cache, token, spent, orders, paid, history>>

MutantNeverRefreshed(subsidy, stale) ==
  /\ stale = FALSE /\ UNCHANGED errors
  /\ \/ cache.at # None /\ subsidy = cache.subsidy /\ UNCHANGED cache
     \/ /\ cache.at = None /\ subsidy = SubsidyForHeight(height)
        /\ cache' = [at |-> height, subsidy |-> subsidy]

\* difficulty.block_subsidy_sat: what the worker remembers while it is fresh; else what the
\* explorer says, or what is remembered when the explorer does not answer.  Every worker
\* has a memory of its own; they differ in nothing, and one is enough.
BlockSubsidy(subsidy, stale) ==
  LET fresh == cache.at # None /\ height - cache.at < CacheTtl IN
  \/ /\ fresh
     /\ subsidy = cache.subsidy /\ stale = FALSE
     /\ UNCHANGED <<cache, errors>>
  \/ /\ ~fresh
     /\ subsidy = SubsidyForHeight(height) /\ stale = FALSE
     /\ cache' = [at |-> height, subsidy |-> subsidy]
     /\ UNCHANGED errors
  \/ /\ ~fresh /\ errors < MaxErrors
     /\ subsidy = cache.subsidy /\ stale = TRUE
     /\ errors' = errors + 1
     /\ UNCHANGED cache

\* The challenge binds the request and its price.  A network without a price offers none.
IssueChallenge(r) ==
  /\ pc[r] = "price"
  /\ \E subsidy \in {None} \cup 0..InitialSubsidy, stale \in BOOLEAN :
       LET seconds == TargetSeconds(Sats(form[r]), view[r], usage[today], subsidy) IN
       /\ IF cfg.value_pegged THEN BlockSubsidy(subsidy, stale)
          ELSE subsidy = None /\ stale = FALSE /\ UNCHANGED <<cache, errors>>
       /\ IF seconds.n = None
          THEN Leave(r, "new") /\ UNCHANGED token
          ELSE /\ Leave(r, "solving")
               /\ token' = [token EXCEPT ![r] =
                    [issued |-> TRUE, form |-> form[r], seconds |-> seconds,
                     iat |-> height, ttl |-> EffectiveTtl(seconds), stale |-> stale,
                     balance |-> view[r], claims |-> usage[today]]]
  /\ UNCHANGED <<cfg, height, wallet, usage, spent, orders, paid, history>>

-----------------------------------------------------------------------------
(* faucet: a POST.                                                         *)

\* A visitor posts a form, with the solution once it has been found or without one, and
\* may post again what was refused.
Post(r) ==
  /\ \/ pc[r] \in {"new", "solving", "refused"}
     \/ pc[r] = "failed" /\ token[r].issued
  /\ AWorkerIsFree
  /\ token[r].issued => Leq(token[r].seconds, Whole(height - token[r].iat))
  /\ \E f \in Forms : form' = [form EXCEPT ![r] = f]
  /\ ReadBalance(r)
  /\ Goto(r, "process")
  /\ UNCHANGED <<cfg, height, wallet, usage, cache, token, spent, orders, paid, history>>

MutantUnbound(r) == height <= token[r].iat + token[r].ttl

\* pow.verify, of a solution that meets the target.
Verified(r) ==
  /\ token[r].form = form[r]
  /\ height <= token[r].iat + token[r].ttl

Allowed(r) ==
  /\ form[r].address \in Addresses
  /\ MaxOneBtc(form[r]) /\ Sats(form[r]) # None
  /\ token[r].issued => Verified(r)
  /\ AmountRules(Sats(form[r]), ComputeLimits(view[r]))

\* The request captures the instant, computes the limits and evaluates every rule.
Approve(r) ==
  /\ pc[r] = "process" /\ Allowed(r)
  /\ Goto(r, "spend")
  /\ okAt' = [okAt EXCEPT ![r] = height]
  /\ blind' = (blind \/ view[r] = None)
  /\ UNCHANGED <<cfg, height, wallet, usage, cache, form, view, token, spent, orders, paid,
                 errors>>

Refuse(r) ==
  /\ pc[r] = "process" /\ ~Allowed(r)
  /\ Leave(r, "refused")
  /\ UNCHANGED <<cfg, height, wallet, usage, cache, token, spent, orders, paid, history,
                 errors>>

\* store.redeem_nonce, then the order to the wallet; a nonce that is spent stops it.
Spend(r) ==
  /\ pc[r] = "spend"
  /\ IF r \in spent
     THEN Leave(r, "refused") /\ UNCHANGED <<spent, orders>>
     ELSE /\ Leave(r, "wait")
          /\ spent' = IF token[r].issued THEN spent \cup {r} ELSE spent
          /\ orders' = [orders EXCEPT ![r] = Sats(form[r])]
  /\ UNCHANGED <<cfg, height, wallet, usage, cache, token, paid, history, errors>>

\* The wallet has paid: the day's count goes up.
Record(r) ==
  /\ pc[r] = "wait" /\ paid[r] > 0
  /\ usage' = [usage EXCEPT ![DayOf(okAt[r])] = @ + 1]
  /\ Leave(r, "done")
  /\ UNCHANGED <<cfg, height, wallet, cache, token, spent, orders, paid, history, errors>>

\* The wallet has not the coins, or does not answer in time and may pay yet.
Fails(r) ==
  /\ pc[r] = "wait"
  /\ Leave(r, "failed")
  /\ \/ /\ orders[r] > 0 /\ confirmed < orders[r] + Fee
        /\ orders' = [orders EXCEPT ![r] = 0]
        /\ UNCHANGED errors
     \/ errors < MaxErrors /\ errors' = errors + 1 /\ UNCHANGED orders
  /\ UNCHANGED <<cfg, height, wallet, usage, cache, token, spent, paid, history>>

-----------------------------------------------------------------------------
(* The wallet and the chain.                                               *)

\* FaucetLnd.send in the wallet: from coins that are enough, or from all of them.  The
\* change counts as a balance only once a block confirms it.
Pay(r) ==
  LET cost == orders[r] + Fee IN
  /\ orders[r] > 0 /\ cost <= confirmed
  /\ \E inputs \in {cost, confirmed} :
       /\ confirmed' = confirmed - inputs
       /\ change' = change + inputs - cost
  /\ orders' = [orders EXCEPT ![r] = 0]
  /\ paid' = [paid EXCEPT ![r] = orders[r]]
  /\ UNCHANGED <<cfg, height, deposits, usage, cache, visitor, token, spent, history,
                 errors>>

Deposit ==
  /\ deposits < MaxDeposits
  /\ deposits' = deposits + 1
  /\ change' = change + Coins
  /\ UNCHANGED <<cfg, height, confirmed, usage, cache, visitor, token, spent, orders, paid,
                 history, errors>>

Block ==
  /\ height < MaxHeight
  /\ height' = height + 1
  /\ confirmed' = confirmed + change
  /\ change' = 0
  /\ UNCHANGED <<cfg, deposits, usage, cache, visitor, token, spent, orders, paid, history,
                 errors>>

-----------------------------------------------------------------------------
Serve(r) ==
  \/ AskChallenge(r) \/ IssueChallenge(r) \/ Post(r) \/ Approve(r) \/ Refuse(r)
  \/ Spend(r) \/ Record(r) \/ Fails(r)

Next ==
  \/ \E r \in Requests : Serve(r) \/ Pay(r)
  \/ Deposit
  \/ Block

Spec == Init /\ [][Next]_vars

-----------------------------------------------------------------------------
(* What the rules and the prices are for.                                  *)

Paid == {r \in Requests : paid[r] > 0}

\* The claims a balance always has to last for: one a day.  A day that is not logged counts
\* MissingDay or more, but one that is logged counts what it had, however little that was.
LeastExpected == Greatest(Whole(1), CapHorizon)

\* A fresh balance for every request would keep the faucet from ever falling below the
\* least claim times the claims expected.  Requests that overlap, payments the wallet
\* makes late and change that is not confirmed share stale balances, but each payment can
\* cost that reserve one share only (compute_limits on the balance of the request's start,
\* rules.evaluate).  Only a balance that could not be read lifts the ceilings.
ReserveKept ==
  LET e == LeastExpected IN
  (/\ cfg.max_amount_per_day /\ cfg.min_claim_enabled
   /\ Paid # {} /\ ~blind)
  => e.d * (confirmed + change + Cardinality(Paid) * Fee)
       >= cfg.min_claim_sat * (e.n - Cardinality(Paid) * e.d)

\* Work pays what it was priced for: a nonce is spent only on a submit that passed every
\* rule while its challenge was valid, so that a refused visitor may try again with the
\* same solution, and what is paid on it is the amount of the challenge (pow.verify,
\* _process).
WorkPaysItsPrice ==
  \A r \in Requests : token[r].issued =>
    /\ r \in spent => okAt[r] \in token[r].iat..token[r].iat + token[r].ttl
    /\ paid[r] > 0 => r \in spent /\ paid[r] = Sats(token[r].form)

\* Claiming never gets cheaper than mining: on a value-pegged network the work behind a
\* payout is worth the safety factor of the subsidy when the challenge was priced, and so,
\* whatever the caches remember and however long the visitor took, of half the safety
\* factor at the subsidy when it is redeemed, but for the rounding of the subsidy.  Not so
\* for a price at the cap, or from a subsidy the explorer could not refresh
\* (compute_target_seconds, block_subsidy_sat, effective_ttl).
PriceCoversMining ==
  \A r \in Paid :
    (cfg.value_pegged /\ token[r].issued /\ ~token[r].stale) =>
      \/ Leq(Whole(cfg.value_cap_seconds), token[r].seconds)
      \/ Leq(Ratio(cfg.value_safety_factor * paid[r], 2 * SubsidyForHeight(okAt[r]) + 1),
             token[r].seconds)

\* The anchor and the retarget only ever make work harder: of two challenges for one
\* amount, the one issued on the smaller balance and after more claims that day is not
\* the cheaper one (compute_target_seconds).
ScarcityNeverCheapens ==
  \A r, q \in Requests :
    (/\ token[r].issued /\ token[q].issued /\ ~cfg.value_pegged
     /\ Sats(token[r].form) = Sats(token[q].form)
     /\ None \notin {token[r].balance, token[q].balance}
     /\ token[r].balance <= token[q].balance /\ token[r].claims >= token[q].claims)
    => Leq(token[q].seconds, token[r].seconds)
=============================================================================
