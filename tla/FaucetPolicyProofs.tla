-------------------------- MODULE FaucetPolicyProofs --------------------------
(***************************************************************************)
(* Theorems about FaucetPolicy.tla, for every number of visitors and       *)
(* workers, all forms and settings, any balance and any length of the      *)
(* chain.                                                                  *)
(***************************************************************************)
EXTENDS FaucetPolicy, Sums

-----------------------------------------------------------------------------
(* Types.                                                                  *)

Steps == {"new", "price", "solving", "process", "spend", "wait", "refused", "failed", "done"}
Known == Nat \cup {None}
Ratios == [n : Nat, d : Nat \ {0}]
Tokens ==
  [issued : {TRUE}, form : Forms, seconds : Ratios, iat : Nat, ttl : Nat, stale : BOOLEAN,
   balance : Known, claims : Nat]

Typed ==
  /\ cfg \in Settings
  /\ height \in 0..MaxHeight
  /\ confirmed \in Nat /\ change \in Nat /\ deposits \in Nat /\ errors \in Nat
  /\ usage \in [0..MaxDay -> Nat]
  /\ pc \in [Requests -> Steps]
  /\ form \in [Requests -> Forms \cup {NoForm}]
  /\ view \in [Requests -> Known]
  /\ token \in [Requests -> Tokens \cup {NoToken}]
  /\ spent \subseteq Requests
  /\ orders \in [Requests -> Nat] /\ paid \in [Requests -> Nat]
  /\ okAt \in [Requests -> Known] /\ blind \in BOOLEAN

-----------------------------------------------------------------------------
(***************************************************************************)
(* What ties a payout to the challenge it was worked for.  A challenge is  *)
(* issued once, to a request that has spent and ordered nothing; what is   *)
(* approved is the form it was issued for, and an order is given only with *)
(* the nonce, so that a second approval finds it spent.                    *)
(***************************************************************************)
InLife(r) == okAt[r] \in token[r].iat..token[r].iat + token[r].ttl

Bound(r) ==
  /\ pc[r] \in {"new", "price"} => ~token[r].issued
  /\ pc[r] \in {"price", "spend"} => Sats(form[r]) # None
  /\ token[r].issued /\ pc[r] = "spend" => form[r] = token[r].form /\ InLife(r)
  /\ token[r].issued => token[r].iat <= height
  /\ r \in spent => token[r].issued /\ InLife(r)

OnePayout(r) ==
  /\ orders[r] = 0 \/ paid[r] = 0
  /\ token[r].issued /\ r \notin spent => orders[r] = 0 /\ paid[r] = 0
  /\ ~token[r].issued /\ pc[r] \notin {"wait", "failed", "done"}
       => orders[r] = 0 /\ paid[r] = 0
  /\ token[r].issued => {orders[r], paid[r]} \subseteq {0, Sats(token[r].form)}

Work == Typed /\ \A r \in Requests : Bound(r) /\ OnePayout(r)

-----------------------------------------------------------------------------
(***************************************************************************)
(* What every amount that is claimed leaves the wallet: one that is paid,  *)
(* ordered or approved, and each that a balance just read would allow.     *)
(* Counting the payments made before the balance was read too makes it     *)
(* hold of all claims at once, whatever the order they are paid in.        *)
(***************************************************************************)
Allows(v, a) == v # None /\ a * LeastExpected.n <= v * LeastExpected.d

Claimed(r, a) ==
  \/ a \in {orders[r], paid[r]}
  \/ pc[r] = "spend" /\ a = Sats(form[r])
  \/ pc[r] = "process" /\ Allows(view[r], a)

Wealth == confirmed + change + Cardinality(Paid) * Fee

Leaves(a) ==
  LeastExpected.d * Wealth
    >= a * (LeastExpected.n - Cardinality(Paid) * LeastExpected.d)

Reserve ==
  cfg.max_amount_per_day /\ ~blind =>
    \A r \in Requests : \A a \in Nat \ {0} : Claimed(r, a) => Leaves(a)

LeastClaims ==
  cfg.min_claim_enabled => \A r \in Requests :
    /\ orders[r] > 0 => orders[r] >= cfg.min_claim_sat
    /\ paid[r] > 0 => paid[r] >= cfg.min_claim_sat
    /\ pc[r] = "spend" => Sats(form[r]) >= cfg.min_claim_sat

-----------------------------------------------------------------------------
(***************************************************************************)
(* What a challenge was priced from.                                       *)
(***************************************************************************)
Remembers ==
  \/ cache.at = None
  \/ cache.at \in 0..height /\ cache.subsidy = SubsidyForHeight(cache.at)

PricedFrom(t, subsidy) ==
  t.seconds = TargetSeconds(Sats(t.form), t.balance, t.claims, subsidy)

Priced(t) ==
  t.issued =>
    /\ Sats(t.form) # None
    /\ t.ttl = EffectiveTtl(t.seconds)
    /\ IF cfg.value_pegged
       THEN ~t.stale => \E h \in 0..t.iat :
                          /\ t.iat - h < CacheTtl
                          /\ PricedFrom(t, SubsidyForHeight(h))
       ELSE PricedFrom(t, None)

Prices == Remembers /\ \A r \in Requests : Priced(token[r])

-----------------------------------------------------------------------------
(* Arithmetic.                                                             *)

\* The larger of two.
LEMMA MaxOfTwo ==
  ASSUME NEW a \in Nat, NEW b \in Nat
  PROVE  Max({a, b}) = IF a >= b THEN a ELSE b
  BY DEF Max

\* A finite set of naturals has a largest element.
LEMMA MaxOfNats ==
  ASSUME NEW S, IsFiniteSet(S), S # {}, \A s \in S : s \in Nat
  PROVE  Max(S) \in S /\ \A s \in S : Max(S) >= s
<1> DEFINE T == {U \in SUBSET S : U # {} => \E m \in U : \A s \in U : m >= s}
<1>1. ASSUME NEW U \in SUBSET S, \A V \in SUBSET U : V # U => V \in T PROVE U \in T
  <2> SUFFICES ASSUME U # {} PROVE \E m \in U : \A s \in U : m >= s
    OBVIOUS
  <2>1. PICK x \in U : TRUE
    OBVIOUS
  <2>2. CASE U = {x}
    BY <2>2
  <2>3. CASE U # {x}
    <3>1. PICK m \in U \ {x} : \A s \in U \ {x} : m >= s
      <4>1. U \ {x} \in T /\ U \ {x} # {}
        BY <1>1, <2>3
      <4> QED
        BY <4>1
    <3> QED
      BY <3>1
  <2> QED
    BY <2>2, <2>3
<1>2. SUBSET S \subseteq T
  <2> HIDE DEF T
  <2> QED
    BY <1>1, SubsetInduction
<1>3. \E m \in S : \A s \in S : m >= s
  BY <1>2
<1> QED
  BY <1>3 DEF Max

-----------------------------------------------------------------------------
(* Ratios.                                                                 *)

\* What the settings are.
LEMMA SettingsTyped ==
  ASSUME NEW s \in Settings
  PROVE  /\ s.min_claim_sat \in Nat \ {0} /\ s.balance_full_sat \in Nat \ {0}
         /\ s.demand_target_per_day \in Nat \ {0} /\ s.balance_max_mult \in Nat \ {0}
         /\ s.demand_max_mult \in Nat \ {0} /\ s.value_safety_factor \in Nat \ {0}
         /\ s.value_cap_seconds \in Nat \ {0} /\ s.max_seconds \in Nat \ {0}
         /\ s.ttl_seconds \in Nat \ {0} /\ s.min_seconds \in Nat
         /\ s.reset_blocks \in Nat /\ s.block_interval \in Nat
         /\ s.seconds_per_sat.n \in Nat \ {0} /\ s.seconds_per_sat.d \in Nat \ {0}
  BY PolicyAssumption DEF IsSettings

LEMMA RatioTyped ==
  /\ \A n \in Nat, d \in Nat \ {0} : Ratio(n, d) \in Ratios
  /\ \A n \in Nat : Whole(n) \in Ratios
  BY DEF Ratio, Whole, Ratios

LEMMA BetweenTyped ==
  ASSUME NEW x \in Ratios, NEW y \in Ratios, NEW z \in Ratios
  PROVE  Least(x, y) \in Ratios /\ Greatest(x, y) \in Ratios /\ _clamp(x, y, z) \in Ratios
  BY DEF Least, Greatest, _clamp

LEMMA TimesTyped ==
  ASSUME NEW x \in Ratios, NEW y \in Ratios PROVE Times(x, y) \in Ratios
<1>1. x.n * y.n \in Nat /\ x.d * y.d \in Nat \ {0}
  BY ProductNat, ProductPositive DEF Ratios
<1> QED
  BY <1>1 DEF Times, Ratio, Ratios

-----------------------------------------------------------------------------
(* What a price is.                                                        *)

\* A price of a flat network, before it is clamped: the factors of the balance and of the
\* demand.
Fraction(balance) ==
  _clamp(Ratio(balance, cfg.balance_full_sat), Whole(0), Whole(1))
Anchor(balance) ==
  IF cfg.balance_anchor /\ balance # None
  THEN Ratio(Fraction(balance).d
               + (cfg.balance_max_mult - 1) * (Fraction(balance).d - Fraction(balance).n),
             Fraction(balance).d)
  ELSE Whole(1)
Demand(claims) ==
  IF cfg.demand_retarget
  THEN _clamp(Ratio(claims, cfg.demand_target_per_day), Whole(1), Whole(cfg.demand_max_mult))
  ELSE Whole(1)
Base(sats) == Times(cfg.seconds_per_sat, Whole(sats))
FlatPrice(sats, balance, claims) ==
  _clamp(Times(Times(Base(sats), Anchor(balance)), Demand(claims)),
         Whole(cfg.min_seconds), Whole(cfg.max_seconds))

\* The price of a value-pegged network.
PeggedPrice(sats, subsidy) ==
  _clamp(Least(Ratio(cfg.value_safety_factor * sats, subsidy), Whole(cfg.value_cap_seconds)),
         Whole(cfg.min_seconds), Whole(cfg.value_cap_seconds))

LEMMA TargetIs ==
  ASSUME NEW sats, NEW balance, NEW claims, NEW subsidy
  PROVE  TargetSeconds(sats, balance, claims, subsidy)
           = IF cfg.value_pegged
             THEN IF subsidy \in {None, 0} THEN Whole(None) ELSE PeggedPrice(sats, subsidy)
             ELSE FlatPrice(sats, balance, claims)
  BY DEF TargetSeconds, PeggedPrice, FlatPrice, Base, Anchor, Demand, Fraction

\* The part of its full balance that the wallet holds.
LEMMA FractionTyped ==
  ASSUME cfg \in Settings, NEW balance \in Nat
  PROVE  Fraction(balance) \in Ratios /\ Fraction(balance).n <= Fraction(balance).d
<1> DEFINE x == Ratio(balance, cfg.balance_full_sat)
<1>1. x \in Ratios /\ Whole(0) \in Ratios /\ Whole(1) \in Ratios
  BY SettingsTyped, RatioTyped
<1>2. Fraction(balance) \in Ratios
  BY <1>1, BetweenTyped DEF Fraction
<1>3. Fraction(balance).n <= Fraction(balance).d
  <2>1. Whole(1) = [n |-> 1, d |-> 1] /\ Whole(0) = [n |-> 0, d |-> 1]
    BY DEF Whole, Ratio
  <2>2. x.n \in Nat /\ x.d \in Nat
    BY <1>1 DEF Ratios
  <2>3. CASE Leq(Whole(1), x)
    <3>1. Least(Whole(1), x) = Whole(1)
      BY <2>3 DEF Least
    <3>2. Fraction(balance) = Whole(1)
      BY <2>1, <3>1 DEF Fraction, _clamp, Greatest, Leq
    <3> QED
      BY <2>1, <3>2
  <2>4. CASE ~Leq(Whole(1), x)
    <3>1. Least(Whole(1), x) = x
      BY <2>4 DEF Least
    <3>2. x.n < x.d
      BY <2>1, <2>2, <2>4 DEF Leq
    <3>3. Leq(Whole(0), x)
      BY <2>1, <2>2 DEF Leq
    <3>4. Fraction(balance) = x
      BY <3>1, <3>3 DEF Fraction, _clamp, Greatest
    <3> QED
      BY <2>2, <3>2, <3>4
  <2> QED
    BY <2>3, <2>4
<1> QED
  BY <1>2, <1>3

LEMMA AnchorTyped ==
  ASSUME cfg \in Settings, NEW balance \in Known
  PROVE  Anchor(balance) \in Ratios
<1>1. CASE cfg.balance_anchor /\ balance # None
  <2> DEFINE x == Fraction(balance)
             m == cfg.balance_max_mult - 1
  <2>1. balance \in Nat
    BY <1>1 DEF Known
  <2>2. x.n \in Nat /\ x.d \in Nat \ {0} /\ x.n <= x.d
    BY <2>1, FractionTyped DEF Ratios
  <2>3. m \in Nat
    BY SettingsTyped
  <2>4. Anchor(balance) = Ratio(x.d + m * (x.d - x.n), x.d)
    BY <1>1 DEF Anchor
  <2> HIDE DEF x, m
  <2>5. x.d - x.n \in Nat /\ m * (x.d - x.n) \in Nat
    BY <2>2, <2>3, ProductNat
  <2> QED
    BY <2>2, <2>4, <2>5, RatioTyped
<1>2. CASE ~(cfg.balance_anchor /\ balance # None)
  BY <1>2, RatioTyped DEF Anchor
<1> QED
  BY <1>1, <1>2

LEMMA DemandTyped ==
  ASSUME cfg \in Settings, NEW claims \in Nat
  PROVE  Demand(claims) \in Ratios
<1>1. Ratio(claims, cfg.demand_target_per_day) \in Ratios /\ Whole(1) \in Ratios
      /\ Whole(cfg.demand_max_mult) \in Ratios
  BY SettingsTyped, RatioTyped
<1> QED
  BY <1>1, BetweenTyped DEF Demand

LEMMA BaseTyped ==
  ASSUME cfg \in Settings, NEW sats \in Nat
  PROVE  Base(sats) \in Ratios
<1>1. cfg.seconds_per_sat.n * Whole(sats).n \in Nat
      /\ cfg.seconds_per_sat.d * Whole(sats).d \in Nat \ {0}
  <2>1. Whole(sats).n = sats /\ Whole(sats).d = 1
    BY DEF Whole, Ratio
  <2> QED
    BY <2>1, SettingsTyped, ProductNat, ProductPositive
<1> QED
  BY <1>1, RatioTyped DEF Base, Times

LEMMA TargetTyped ==
  ASSUME cfg \in Settings, NEW sats \in Nat, NEW balance \in Known, NEW claims \in Nat,
         NEW subsidy \in {None} \cup Nat,
         TargetSeconds(sats, balance, claims, subsidy).n # None
  PROVE  /\ TargetSeconds(sats, balance, claims, subsidy) \in Ratios
         /\ cfg.value_pegged => subsidy \in Nat \ {0}
<1>1. CASE cfg.value_pegged
  <2>1. subsidy \notin {None, 0}
    <3>1. Whole(None).n = None
      BY DEF Whole, Ratio
    <3> QED
      BY <1>1, <3>1, TargetIs
  <2>2. cfg.value_safety_factor * sats \in Nat
    BY SettingsTyped, ProductNat
  <2>3. Ratio(cfg.value_safety_factor * sats, subsidy) \in Ratios
    BY <2>1, <2>2, RatioTyped
  <2>4. Whole(cfg.value_cap_seconds) \in Ratios /\ Whole(cfg.min_seconds) \in Ratios
    BY SettingsTyped, RatioTyped
  <2>5. PeggedPrice(sats, subsidy) \in Ratios
    BY <2>3, <2>4, BetweenTyped DEF PeggedPrice
  <2> QED
    BY <1>1, <2>1, <2>5, TargetIs
<1>2. CASE ~cfg.value_pegged
  <2>1. Times(Times(Base(sats), Anchor(balance)), Demand(claims)) \in Ratios
    BY BaseTyped, AnchorTyped, DemandTyped, TimesTyped
  <2>2. Whole(cfg.min_seconds) \in Ratios /\ Whole(cfg.max_seconds) \in Ratios
    BY SettingsTyped, RatioTyped
  <2>3. FlatPrice(sats, balance, claims) \in Ratios
    BY <2>1, <2>2, BetweenTyped DEF FlatPrice
  <2> QED
    BY <1>2, <2>3, TargetIs
<1> QED
  BY <1>1, <1>2

LEMMA CeilingTyped ==
  ASSUME NEW x \in Ratios PROVE Ceiling(x) \in Nat
  BY DivBounds DEF Ceiling, Ratios

\* A challenge lives for ttl_seconds, or for the time its price takes twice.
LEMMA TtlTyped ==
  ASSUME cfg \in Settings, NEW x \in Ratios
  PROVE  /\ EffectiveTtl(x) \in Nat
         /\ EffectiveTtl(x) = IF cfg.ttl_seconds >= Ceiling(Times(Whole(2), x))
                              THEN cfg.ttl_seconds ELSE Ceiling(Times(Whole(2), x))
<1>1. Ceiling(Times(Whole(2), x)) \in Nat
  BY RatioTyped, TimesTyped, CeilingTyped
<1>2. cfg.ttl_seconds \in Nat
  BY SettingsTyped
<1> QED
  BY <1>1, <1>2, MaxOfTwo DEF EffectiveTtl

LEMMA HalfTyped ==
  ASSUME NEW a \in Nat, a > 0, a % 2 = 0 PROVE a \div 2 \in Nat \ {0}
  OBVIOUS

LEMMA SatsTyped ==
  ASSUME NEW f \in Forms \cup {NoForm}
  PROVE  /\ Sats(f) \in Nat \cup {None}
         /\ Sats(f) # None => Sats(f) \in Nat \ {0} /\ f \in Forms
<1>1. CASE f \in Forms /\ f.amount_raw > 0 /\ f.amount_raw % 2 = 0
  <2>1. f.amount_raw \in Nat
    BY <1>1, PolicyAssumption
  <2>2. f.amount_raw \div 2 \in Nat \ {0}
    BY <1>1, <2>1, HalfTyped
  <2>3. Sats(f) = f.amount_raw \div 2
    BY <1>1 DEF Sats
  <2> QED
    BY <1>1, <2>2, <2>3
<1>2. CASE f = NoForm
  <2>0. f.amount_raw = 0
    BY <1>2, Zenon DEF NoForm
  <2>1. ~(f.amount_raw > 0)
    BY <2>0
  <2>2. Sats(f) = None
    BY <2>1, Zenon DEF Sats
  <2> QED
    BY <2>2
<1>3. CASE ~(f.amount_raw > 0 /\ f.amount_raw % 2 = 0)
  <2>1. Sats(f) = None
    BY <1>3, Zenon DEF Sats
  <2> QED
    BY <2>1
<1> QED
  BY <1>1, <1>2, <1>3

LEMMA TodayTyped == ASSUME NEW t \in 0..MaxHeight PROVE DayOf(t) \in 0..MaxDay
  BY PolicyAssumption, DivMonotone, DivBounds DEF DayOf, MaxDay

-----------------------------------------------------------------------------
(* Work pays what it was priced for.                                       *)

LEMMA TypedInit == Init => Typed
<1> SUFFICES ASSUME Init PROVE Typed
  OBVIOUS
<1>1. cfg \in Settings /\ height \in 0..MaxHeight /\ confirmed \in Nat /\ change \in Nat
      /\ deposits \in Nat /\ errors \in Nat
  BY PolicyAssumption DEF Init
<1>2. usage \in [0..MaxDay -> Nat] /\ orders \in [Requests -> Nat]
      /\ paid \in [Requests -> Nat]
  BY DEF Init
<1>3. pc \in [Requests -> Steps] /\ view \in [Requests -> Known]
      /\ okAt \in [Requests -> Known]
  BY DEF Init, Known, Steps
<1>4. form \in [Requests -> Forms \cup {NoForm}]
      /\ token \in [Requests -> Tokens \cup {NoToken}]
  BY DEF Init
<1>5. spent \subseteq Requests /\ blind \in BOOLEAN
  BY DEF Init
<1> QED
  BY <1>1, <1>2, <1>3, <1>4, <1>5 DEF Typed

\* The balance a request reads, if it reads one.
LEMMA ReadTyped ==
  ASSUME Typed, NEW r \in Requests, ReadBalance(r)
  PROVE  /\ errors' \in Nat /\ view' \in [Requests -> Known]
         /\ view' = [view EXCEPT ![r] = view'[r]] /\ view'[r] \in {confirmed, None}
<1>1. errors' \in {errors, errors + 1}
  BY Zenon DEF ReadBalance
<1>2. \/ view' = [view EXCEPT ![r] = confirmed]
      \/ view' = [view EXCEPT ![r] = None]
  BY Zenon DEF ReadBalance
<1>3. view \in [Requests -> Known] /\ confirmed \in Known /\ None \in Known
      /\ errors \in Nat
  BY DEF Typed, Known
<1> QED
  BY <1>1, <1>2, <1>3

\* What another request's step leaves alone stays tied to its challenge.
LEMMA Frame ==
  ASSUME NEW q \in Requests, Bound(q), OnePayout(q),
         height \in Int, height' \in Int, height <= height', Typed,
         pc'[q] = pc[q], form'[q] = form[q], token'[q] = token[q], okAt'[q] = okAt[q],
         orders'[q] = orders[q], paid'[q] = paid[q], q \in spent' <=> q \in spent
  PROVE  Bound(q)' /\ OnePayout(q)'
<1>1. InLife(q)' <=> InLife(q)
  BY DEF InLife
<1>2. token[q].issued => token[q].iat \in Int
  <2>1. token[q] \in Tokens \cup {NoToken}
    BY DEF Typed
  <2>2. CASE token[q] \in Tokens
    <3>1. token[q].iat \in Nat
      BY <2>2 DEF Tokens
    <3> QED
      BY <3>1
  <2>3. CASE token[q] = NoToken
    <3>1. ~token[q].issued
      BY <2>3 DEF NoToken
    <3> QED
      BY <3>1, Zenon
  <2> QED
    BY <2>1, <2>2, <2>3
<1>3. token'[q].issued => token'[q].iat <= height'
  BY <1>2 DEF Bound
<1>4. Bound(q)'
  BY <1>1, <1>3 DEF Bound
<1>5. OnePayout(q)'
  BY DEF OnePayout
<1> QED
  BY <1>4, <1>5

LEMMA WorkInit == Init => Work
<1> SUFFICES ASSUME Init PROVE Work
  OBVIOUS
<1>1. ASSUME NEW r \in Requests PROVE Bound(r) /\ OnePayout(r)
  BY <1>1 DEF Init, Bound, OnePayout, NoToken
<1> QED
  BY <1>1, TypedInit DEF Work

LEMMA WorkAsk ==
  ASSUME Work, NEW r \in Requests, AskChallenge(r) PROVE Work'
<1> USE DEF wallet, history, AskChallenge
<1>1. Typed'
  <2>1. errors' \in Nat /\ view' \in [Requests -> Known]
    BY ReadTyped DEF Work
  <2>2. form' \in [Requests -> Forms \cup {NoForm}] /\ pc' \in [Requests -> Steps]
    BY DEF Work, Typed, Goto, Steps
  <2> QED
    BY <2>1, <2>2 DEF Work, Typed
<1>2. ASSUME NEW q \in Requests, q # r PROVE Bound(q)' /\ OnePayout(q)'
  <2>1. pc'[q] = pc[q] /\ form'[q] = form[q]
    BY <1>2 DEF Work, Typed, Goto
  <2>2. height \in Int /\ height' = height
    BY DEF Work, Typed
  <2>3. Typed /\ Bound(q) /\ OnePayout(q)
    BY DEF Work
  <2> QED
    BY <2>1, <2>2, <2>3, Frame
<1>3. Bound(r)'
  <2>1. pc[r] = "new" /\ pc'[r] = "price" /\ Sats(form'[r]) # None
    BY DEF Work, Typed, Goto
  <2> QED
    BY <2>1 DEF Work, Bound, InLife
<1>4. OnePayout(r)'
  <2>1. pc[r] = "new" /\ pc'[r] = "price"
    BY DEF Work, Typed, Goto
  <2> QED
    BY <2>1 DEF Work, OnePayout
<1> QED
  BY <1>1, <1>2, <1>3, <1>4 DEF Work

\* What a challenge that is issued is.
LEMMA Issues ==
  ASSUME Work, NEW r \in Requests, IssueChallenge(r)
  PROVE  /\ pc[r] = "price" /\ pc' = [pc EXCEPT ![r] = pc'[r]] /\ pc'[r] \in {"new", "solving"}
         /\ form' = [form EXCEPT ![r] = NoForm] /\ view' = [view EXCEPT ![r] = None]
         /\ errors' \in Nat
         /\ token' = [token EXCEPT ![r] = token'[r]]
         /\ \/ pc'[r] = "new" /\ token'[r] = token[r]
            \/ /\ pc'[r] = "solving"
               /\ token'[r] \in Tokens /\ token'[r].iat = height /\ token'[r].form = form[r]
<1>1. PICK subsidy \in {None} \cup 0..InitialSubsidy, stale \in BOOLEAN :
        LET seconds == TargetSeconds(Sats(form[r]), view[r], usage[today], subsidy) IN
        /\ IF cfg.value_pegged THEN BlockSubsidy(subsidy, stale)
           ELSE subsidy = None /\ stale = FALSE /\ UNCHANGED <<cache, errors>>
        /\ IF seconds.n = None
           THEN Leave(r, "new") /\ UNCHANGED token
           ELSE /\ Leave(r, "solving")
                /\ token' = [token EXCEPT ![r] =
                     [issued |-> TRUE, form |-> form[r], seconds |-> seconds,
                      iat |-> height, ttl |-> EffectiveTtl(seconds), stale |-> stale,
                      balance |-> view[r], claims |-> usage[today]]]
  BY Zenon DEF IssueChallenge
<1> DEFINE s == TargetSeconds(Sats(form[r]), view[r], usage[today], subsidy)
           t == [issued |-> TRUE, form |-> form[r], seconds |-> s, iat |-> height,
                 ttl |-> EffectiveTtl(s), stale |-> stale, balance |-> view[r],
                 claims |-> usage[today]]
<1>2. errors' \in Nat
  <2>1. errors \in Nat
    BY DEF Work, Typed
  <2>2. BlockSubsidy(subsidy, stale) => errors' \in {errors, errors + 1}
    BY Zenon DEF BlockSubsidy
  <2>3. errors' \in {errors, errors + 1}
    BY <1>1, <2>2
  <2> QED
    BY <2>1, <2>3
<1>3. pc[r] = "price"
  BY DEF IssueChallenge
<1>4. cfg \in Settings /\ view[r] \in Known /\ height \in 0..MaxHeight
  BY DEF Work, Typed
<1>5. today \in 0..MaxDay /\ usage[today] \in Nat
  <2>1. today \in 0..MaxDay
    BY <1>4, TodayTyped DEF today
  <2> QED
    BY <2>1 DEF Work, Typed
<1>6. Sats(form[r]) \in Nat /\ form[r] \in Forms
  <2>1. form[r] \in Forms \cup {NoForm} /\ Sats(form[r]) # None
    BY <1>3 DEF Work, Typed, Bound
  <2> QED
    BY <2>1, SatsTyped
<1>7. subsidy \in {None} \cup Nat
  BY PolicyAssumption
<1>8. s.n # None => t \in Tokens
  <2> SUFFICES ASSUME s.n # None PROVE t \in Tokens
    OBVIOUS
  <2>1. s \in Ratios
    BY <1>4, <1>5, <1>6, <1>7, TargetTyped
  <2>2. EffectiveTtl(s) \in Nat
    BY <1>4, <2>1, TtlTyped
  <2>3. height \in Nat
    BY <1>4, PolicyAssumption
  <2> HIDE DEF s
  <2> QED
    BY <1>4, <1>5, <1>6, <2>1, <2>2, <2>3 DEF Tokens
<1>9. t.iat = height /\ t.form = form[r]
  BY Zenon
<1> HIDE DEF t
<1>10. \/ Leave(r, "new") /\ UNCHANGED token
       \/ Leave(r, "solving") /\ s.n # None /\ token' = [token EXCEPT ![r] = t]
  BY <1>1, Zenon DEF t
<1>11. pc \in [Requests -> Steps] /\ token \in [Requests -> Tokens \cup {NoToken}]
  BY DEF Work, Typed
<1> HIDE DEF s
<1>12. CASE Leave(r, "new") /\ UNCHANGED token
  BY <1>2, <1>3, <1>11, <1>12 DEF Leave, Goto
<1>13. CASE Leave(r, "solving") /\ s.n # None /\ token' = [token EXCEPT ![r] = t]
  BY <1>2, <1>3, <1>8, <1>9, <1>11, <1>13 DEF Leave, Goto
<1> QED
  BY <1>10, <1>12, <1>13

LEMMA WorkIssue ==
  ASSUME Work, NEW r \in Requests, IssueChallenge(r) PROVE Work'
<1>0. UNCHANGED <<cfg, height, confirmed, change, deposits, usage, spent, orders, paid,
                  okAt, blind>>
  BY DEF IssueChallenge, wallet, history
<1>1. Typed'
  <2>1. token' \in [Requests -> Tokens \cup {NoToken}]
    BY Issues DEF Work, Typed
  <2>2. view' \in [Requests -> Known] /\ form' \in [Requests -> Forms \cup {NoForm}]
    BY Issues DEF Work, Typed, Known
  <2>3. pc' \in [Requests -> Steps]
    BY Issues DEF Work, Typed, Steps
  <2>4. errors' \in Nat
    BY Issues
  <2> QED
    BY <1>0, <2>1, <2>2, <2>3, <2>4 DEF Work, Typed
<1>2. ASSUME NEW q \in Requests, q # r PROVE Bound(q)' /\ OnePayout(q)'
  <2>1. pc'[q] = pc[q] /\ form'[q] = form[q] /\ token'[q] = token[q]
    BY <1>2, Issues DEF Work, Typed
  <2>2. height \in Int /\ height' \in Int /\ height <= height'
    BY <1>0 DEF Work, Typed
  <2> QED
    BY <1>0, <2>1, <2>2, Frame DEF Work
<1>3. ~token[r].issued /\ pc[r] = "price" /\ orders[r] = 0 /\ paid[r] = 0 /\ r \notin spent
  BY Issues DEF Work, Bound, OnePayout
<1>4. orders'[r] = 0 /\ paid'[r] = 0 /\ r \notin spent'
  BY <1>0, <1>3
<1>5. Bound(r)'
  <2>1. CASE pc'[r] = "new" /\ token'[r] = token[r]
    BY <1>0, <1>3, <1>4, <2>1 DEF Bound
  <2>2. CASE pc'[r] = "solving" /\ token'[r].iat = height
    <3>1. height' = height /\ height \in Int
      BY <1>0 DEF Work, Typed
    <3> QED
      BY <1>4, <2>2, <3>1 DEF Bound
  <2> QED
    BY <2>1, <2>2, Issues
<1>6. OnePayout(r)'
  BY <1>4 DEF OnePayout
<1> QED
  BY <1>1, <1>2, <1>5, <1>6 DEF Work

\* What a request that leaves forgets.
LEMMA LeaveTyped ==
  ASSUME Typed, NEW r \in Requests, NEW step \in Steps, Leave(r, step)
  PROVE  /\ pc' \in [Requests -> Steps] /\ pc'[r] = step
         /\ form' \in [Requests -> Forms \cup {NoForm}] /\ view' \in [Requests -> Known]
         /\ \A q \in Requests \ {r} : pc'[q] = pc[q] /\ form'[q] = form[q] /\ view'[q] = view[q]
  BY DEF Leave, Goto, Typed, Known

LEMMA WorkPost ==
  ASSUME Work, NEW r \in Requests, Post(r) PROVE Work'
<1> USE DEF wallet, history, Post
<1>0. Typed /\ pc'[r] = "process" /\ height' = height /\ height \in Int
  BY DEF Work, Typed, Goto
<1>1. Typed'
  <2>1. errors' \in Nat /\ view' \in [Requests -> Known]
    BY <1>0, ReadTyped
  <2>2. form' \in [Requests -> Forms \cup {NoForm}] /\ pc' \in [Requests -> Steps]
    BY DEF Work, Typed, Goto, Steps
  <2> QED
    BY <2>1, <2>2 DEF Work, Typed
<1>2. ASSUME NEW q \in Requests, q # r PROVE Bound(q)' /\ OnePayout(q)'
  <2>1. pc'[q] = pc[q] /\ form'[q] = form[q]
    BY <1>2 DEF Work, Typed, Goto
  <2> QED
    BY <1>0, <2>1, Frame DEF Work
<1>3. Bound(r)'
  BY <1>0 DEF Work, Bound, InLife
<1>4. OnePayout(r)'
  BY <1>0 DEF Work, OnePayout
<1> QED
  BY <1>1, <1>2, <1>3, <1>4 DEF Work

LEMMA WorkApprove ==
  ASSUME Work, NEW r \in Requests, Approve(r) PROVE Work'
<1> USE DEF wallet, Approve
<1>0. Typed /\ pc[r] = "process" /\ pc'[r] = "spend" /\ height' = height /\ height \in Nat
  BY PolicyAssumption DEF Work, Typed, Goto
<1>1. Typed'
  <2>1. okAt' \in [Requests -> Known] /\ pc' \in [Requests -> Steps]
    BY <1>0 DEF Typed, Goto, Steps, Known
  <2>3. blind' \in BOOLEAN
    OBVIOUS
  <2> QED
    BY <2>1, <2>3 DEF Work, Typed
<1>2. ASSUME NEW q \in Requests, q # r PROVE Bound(q)' /\ OnePayout(q)'
  <2>1. pc'[q] = pc[q] /\ okAt'[q] = okAt[q]
    BY <1>2 DEF Work, Typed, Goto
  <2> QED
    BY <1>0, <2>1, Frame DEF Work
<1>3. Bound(r)'
  <2>1. Sats(form[r]) # None
    BY DEF Allowed
  <2>2. token[r].issued => token[r].form = form[r] /\ height <= token[r].iat + token[r].ttl
    BY Zenon DEF Allowed, Verified
  <2>3. okAt'[r] = height
    BY DEF Work, Typed
  <2>4. token[r].issued => token[r].iat \in Nat /\ token[r].ttl \in Nat
    <3>1. token[r] \in Tokens \cup {NoToken}
      BY DEF Work, Typed
    <3>2. token[r] \in Tokens => token[r].iat \in Nat /\ token[r].ttl \in Nat
      BY DEF Tokens
    <3>3. ~NoToken.issued
      BY DEF NoToken
    <3> QED
      BY <3>1, <3>2, <3>3
  <2>5. token[r].issued => token[r].iat <= height
    BY DEF Work, Bound
  <2>6. token[r].issued => InLife(r)'
    BY <1>0, <2>2, <2>3, <2>4, <2>5 DEF InLife
  <2> QED
    BY <1>0, <2>1, <2>2, <2>5, <2>6 DEF Work, Bound
<1>4. OnePayout(r)'
  BY <1>0 DEF Work, OnePayout
<1> QED
  BY <1>1, <1>2, <1>3, <1>4 DEF Work

LEMMA WorkRefuse ==
  ASSUME Work, NEW r \in Requests, Refuse(r) PROVE Work'
<1> USE DEF wallet, history, Refuse
<1>0. Typed /\ pc[r] = "process" /\ height' = height /\ height \in Int
  BY DEF Work, Typed
<1>1. /\ pc' \in [Requests -> Steps] /\ pc'[r] = "refused"
      /\ form' \in [Requests -> Forms \cup {NoForm}] /\ view' \in [Requests -> Known]
      /\ \A q \in Requests \ {r} : pc'[q] = pc[q] /\ form'[q] = form[q]
  BY <1>0, LeaveTyped DEF Steps
<1>2. Typed'
  BY <1>1 DEF Work, Typed
<1>3. ASSUME NEW q \in Requests, q # r PROVE Bound(q)' /\ OnePayout(q)'
  BY <1>0, <1>1, <1>3, Frame DEF Work
<1>4. Bound(r)'
  BY <1>0, <1>1 DEF Work, Bound, InLife
<1>5. OnePayout(r)'
  BY <1>0, <1>1 DEF Work, OnePayout
<1> QED
  BY <1>2, <1>3, <1>4, <1>5 DEF Work

LEMMA WorkSpend ==
  ASSUME Work, NEW r \in Requests, Spend(r) PROVE Work'
<1> USE DEF wallet, history
<1>0. /\ Typed /\ pc[r] = "spend" /\ Sats(form[r]) # None
      /\ UNCHANGED <<cfg, height, wallet, usage, token, paid, history, errors>>
      /\ height \in Int
  BY DEF Work, Typed, Spend, Bound
<1>1. CASE r \in spent /\ Leave(r, "refused") /\ UNCHANGED <<spent, orders>>
  <2>1. /\ pc' \in [Requests -> Steps] /\ pc'[r] = "refused"
        /\ form' \in [Requests -> Forms \cup {NoForm}] /\ view' \in [Requests -> Known]
        /\ \A q \in Requests \ {r} : pc'[q] = pc[q] /\ form'[q] = form[q]
    BY <1>0, <1>1, LeaveTyped DEF Steps
  <2>2. Typed'
    BY <1>0, <1>1, <2>1 DEF Typed
  <2>3. ASSUME NEW q \in Requests, q # r PROVE Bound(q)' /\ OnePayout(q)'
    BY <1>0, <1>1, <2>1, <2>3, Frame DEF Work
  <2>4. Bound(r)'
    BY <1>0, <1>1, <2>1 DEF Work, Bound, InLife
  <2>5. OnePayout(r)'
    BY <1>0, <1>1, <2>1 DEF Work, Bound, OnePayout
  <2> QED
    BY <2>2, <2>3, <2>4, <2>5 DEF Work
<1>2. CASE /\ r \notin spent /\ Leave(r, "wait")
           /\ spent' = (IF token[r].issued THEN spent \cup {r} ELSE spent)
           /\ orders' = [orders EXCEPT ![r] = Sats(form[r])]
  <2>1. /\ pc' \in [Requests -> Steps] /\ pc'[r] = "wait"
        /\ form' \in [Requests -> Forms \cup {NoForm}] /\ view' \in [Requests -> Known]
        /\ \A q \in Requests \ {r} : pc'[q] = pc[q] /\ form'[q] = form[q]
    BY <1>0, <1>2, LeaveTyped DEF Steps
  <2>2. Sats(form[r]) \in Nat
    <3>1. form[r] \in Forms \cup {NoForm}
      BY <1>0 DEF Typed
    <3> QED
      BY <1>0, <3>1, SatsTyped
  <2>3. spent' \subseteq Requests /\ orders' \in [Requests -> Nat]
    BY <1>0, <1>2, <2>2 DEF Typed
  <2>4. Typed'
    BY <1>0, <2>1, <2>3 DEF Typed
  <2>5. ASSUME NEW q \in Requests, q # r PROVE Bound(q)' /\ OnePayout(q)'
    <3>1. orders'[q] = orders[q] /\ (q \in spent' <=> q \in spent)
      BY <1>0, <1>2, <2>5 DEF Typed
    <3> QED
      BY <1>0, <2>1, <2>5, <3>1, Frame DEF Work
  <2>6. orders'[r] = Sats(form[r]) /\ (r \in spent' <=> token[r].issued)
    BY <1>0, <1>2 DEF Typed
  <2>7. Bound(r)'
    <3>1. token[r].issued => token[r].iat <= height /\ InLife(r)
      BY <1>0 DEF Work, Bound
    <3>2. InLife(r)' <=> InLife(r)
      BY <1>0 DEF InLife
    <3> QED
      BY <1>0, <2>1, <2>6, <3>1, <3>2 DEF Bound
  <2>8. OnePayout(r)'
    <3>1. paid[r] = 0
      BY <1>0, <1>2 DEF Work, OnePayout
    <3>2. token[r].issued => form[r] = token[r].form
      BY <1>0 DEF Work, Bound
    <3> QED
      BY <1>0, <2>1, <2>6, <3>1, <3>2 DEF OnePayout
  <2> QED
    BY <2>4, <2>5, <2>7, <2>8 DEF Work
<1> QED
  BY <1>1, <1>2 DEF Spend

LEMMA WorkRecord ==
  ASSUME Work, NEW r \in Requests, Record(r) PROVE Work'
<1> USE DEF wallet, history, Record
<1>0. Typed /\ pc[r] = "wait" /\ height' = height /\ height \in Int
  BY DEF Work, Typed
<1>1. /\ pc' \in [Requests -> Steps] /\ pc'[r] = "done"
      /\ form' \in [Requests -> Forms \cup {NoForm}] /\ view' \in [Requests -> Known]
      /\ \A q \in Requests \ {r} : pc'[q] = pc[q] /\ form'[q] = form[q]
  BY <1>0, LeaveTyped DEF Steps
<1>2. Typed'
  <2>1. usage' \in [0..MaxDay -> Nat]
    <3> DEFINE day == DayOf(okAt[r])
    <3>1. usage \in [0..MaxDay -> Nat] /\ usage' = [usage EXCEPT ![day] = @ + 1]
      BY <1>0 DEF Typed
    <3> HIDE DEF day
    <3>2. CASE day \in 0..MaxDay
      BY <3>1, <3>2
    <3>3. CASE day \notin 0..MaxDay
      BY <3>1, <3>3
    <3> QED
      BY <3>2, <3>3
  <2> QED
    BY <1>1, <2>1 DEF Work, Typed
<1>3. ASSUME NEW q \in Requests, q # r PROVE Bound(q)' /\ OnePayout(q)'
  BY <1>0, <1>1, <1>3, Frame DEF Work
<1>4. Bound(r)'
  BY <1>0, <1>1 DEF Work, Bound, InLife
<1>5. OnePayout(r)'
  BY <1>0, <1>1 DEF Work, OnePayout
<1> QED
  BY <1>2, <1>3, <1>4, <1>5 DEF Work

LEMMA WorkFails ==
  ASSUME Work, NEW r \in Requests, Fails(r) PROVE Work'
<1> USE DEF wallet, history
<1>0. /\ Typed /\ pc[r] = "wait"
      /\ UNCHANGED <<cfg, height, wallet, usage, token, spent, paid, history>>
      /\ height \in Int /\ Leave(r, "failed")
  BY DEF Work, Typed, Fails
<1>1. /\ pc' \in [Requests -> Steps] /\ pc'[r] = "failed"
      /\ form' \in [Requests -> Forms \cup {NoForm}] /\ view' \in [Requests -> Known]
      /\ \A q \in Requests \ {r} : pc'[q] = pc[q] /\ form'[q] = form[q]
  BY <1>0, LeaveTyped DEF Steps
<1>2. orders' \in {orders, [orders EXCEPT ![r] = 0]} /\ errors' \in {errors, errors + 1}
  BY Zenon DEF Fails
<1>3. /\ orders' \in [Requests -> Nat] /\ errors' \in Nat /\ orders'[r] \in {orders[r], 0}
      /\ \A q \in Requests \ {r} : orders'[q] = orders[q]
  <2>1. orders \in [Requests -> Nat] /\ errors \in Nat
    BY <1>0 DEF Typed
  <2>2. errors' \in Nat
    BY <1>2, <2>1
  <2>3. CASE orders' = orders
    BY <2>1, <2>2, <2>3
  <2>4. CASE orders' = [orders EXCEPT ![r] = 0]
    BY <2>1, <2>2, <2>4
  <2> QED
    BY <1>2, <2>3, <2>4
<1>4. Typed'
  BY <1>0, <1>1, <1>3 DEF Typed
<1>5. ASSUME NEW q \in Requests, q # r PROVE Bound(q)' /\ OnePayout(q)'
  BY <1>0, <1>1, <1>3, <1>5, Frame DEF Work
<1>6. Bound(r)'
  BY <1>0, <1>1 DEF Work, Bound, InLife
<1>7. OnePayout(r)'
  BY <1>0, <1>1, <1>3 DEF Work, OnePayout
<1> QED
  BY <1>4, <1>5, <1>6, <1>7 DEF Work

\* What a payment takes: the order and the fee.
LEMMA Pays ==
  ASSUME Typed, NEW r \in Requests, Pay(r)
  PROVE  /\ orders[r] \in Nat \ {0} /\ confirmed' \in Nat /\ change' \in Nat
         /\ confirmed' + change' + Fee + orders[r] = confirmed + change
<1>1. /\ orders[r] \in Nat /\ orders[r] > 0 /\ orders[r] + Fee <= confirmed
      /\ confirmed \in Nat /\ change \in Nat /\ Fee \in Nat
  BY PolicyAssumption DEF Typed, Pay
<1>2. PICK inputs \in {orders[r] + Fee, confirmed} :
        /\ confirmed' = confirmed - inputs
        /\ change' = change + inputs - (orders[r] + Fee)
  BY Zenon DEF Pay
<1>3. CASE inputs = orders[r] + Fee
  <2> DEFINE cost == orders[r] + Fee
  <2>1. confirmed' = confirmed - cost /\ change' = change + cost - cost
    BY <1>2, <1>3
  <2>2. cost \in Nat /\ cost <= confirmed
    BY <1>1
  <2> HIDE DEF cost
  <2>3. confirmed' \in Nat /\ change' = change /\ confirmed' + cost = confirmed
    BY <1>1, <2>1, <2>2
  <2> QED
    BY <1>1, <2>3 DEF cost
<1>4. CASE inputs = confirmed
  BY <1>1, <1>2, <1>4
<1> QED
  BY <1>2, <1>3, <1>4

LEMMA WorkPay ==
  ASSUME Work, NEW r \in Requests, Pay(r) PROVE Work'
<1>0. /\ Typed /\ height \in Int
      /\ UNCHANGED <<cfg, height, deposits, usage, pc, form, view, token, spent, okAt, blind,
                     errors>>
      /\ orders' = [orders EXCEPT ![r] = 0] /\ paid' = [paid EXCEPT ![r] = orders[r]]
  BY DEF Work, Typed, Pay, visitor, history
<1>1. Typed'
  <2>1. orders' \in [Requests -> Nat] /\ paid' \in [Requests -> Nat]
    BY <1>0 DEF Typed
  <2> QED
    BY <1>0, <2>1, Pays DEF Typed
<1>2. ASSUME NEW q \in Requests, q # r PROVE Bound(q)' /\ OnePayout(q)'
  <2>1. orders'[q] = orders[q] /\ paid'[q] = paid[q]
    BY <1>0, <1>2 DEF Typed
  <2> QED
    BY <1>0, <1>2, <2>1, Frame DEF Work
<1>3. Bound(r)'
  BY <1>0 DEF Work, Bound, InLife
<1>4. OnePayout(r)'
  <2>1. orders'[r] = 0 /\ paid'[r] = orders[r] /\ orders[r] # 0
    BY <1>0, Pays DEF Typed
  <2> QED
    BY <1>0, <2>1 DEF Work, OnePayout
<1> QED
  BY <1>1, <1>2, <1>3, <1>4 DEF Work

LEMMA WorkChain ==
  ASSUME Work, Deposit \/ Block PROVE Work'
<1>0. /\ Typed /\ height \in 0..MaxHeight
      /\ UNCHANGED <<cfg, usage, pc, form, view, token, spent, orders, paid, okAt, blind,
                     errors>>
  BY DEF Work, Typed, Deposit, Block, visitor, history
<1>1. /\ height' \in 0..MaxHeight /\ height' >= height
      /\ confirmed' \in Nat /\ change' \in Nat /\ deposits' \in Nat
  BY <1>0, PolicyAssumption DEF Typed, Deposit, Block
<1>2. Typed'
  BY <1>0, <1>1 DEF Typed
<1>3. ASSUME NEW q \in Requests PROVE Bound(q)' /\ OnePayout(q)'
  <2>1. height \in Int /\ height' \in Int /\ height <= height'
    BY <1>0, <1>1
  <2> QED
    BY <1>0, <2>1, Frame DEF Work
<1> QED
  BY <1>2, <1>3 DEF Work

LEMMA WorkStutters == ASSUME Work, UNCHANGED vars PROVE Work'
<1>0. /\ Typed /\ height \in Int
      /\ UNCHANGED <<cfg, height, confirmed, change, deposits, usage, pc, form, view, token,
                     spent, orders, paid, okAt, blind, errors>>
  BY DEF Work, Typed, vars, wallet, visitor, history
<1>1. Typed'
  BY <1>0 DEF Typed
<1>2. ASSUME NEW q \in Requests PROVE Bound(q)' /\ OnePayout(q)'
  BY <1>0, Frame DEF Work
<1> QED
  BY <1>1, <1>2 DEF Work

LEMMA WorkNext == ASSUME Work, [Next]_vars PROVE Work'
<1>1. CASE \E r \in Requests : Serve(r) \/ Pay(r)
  BY <1>1, WorkAsk, WorkIssue, WorkPost, WorkApprove, WorkRefuse, WorkSpend, WorkRecord,
     WorkFails, WorkPay DEF Serve
<1>2. CASE Deposit \/ Block
  BY <1>2, WorkChain
<1>3. CASE UNCHANGED vars
  BY <1>3, WorkStutters
<1> QED
  BY <1>1, <1>2, <1>3 DEF Next

\* In every reachable state a payout is tied to the challenge that was worked for.
THEOREM WorkHolds == Spec => []Work
  BY WorkInit, WorkNext, PTL DEF Spec

\* A nonce is spent only on a submit that passed every rule while its challenge was valid,
\* and what is paid on it is the amount the challenge was priced for, for every number of
\* visitors and workers, every form and setting.
THEOREM WorkIsPaidAsPriced == Spec => []WorkPaysItsPrice
<1>1. Work => WorkPaysItsPrice
  <2> SUFFICES ASSUME Work, NEW r \in Requests, token[r].issued
               PROVE  /\ r \in spent => okAt[r] \in token[r].iat..token[r].iat + token[r].ttl
                      /\ paid[r] > 0 => r \in spent /\ paid[r] = Sats(token[r].form)
    BY Zenon DEF WorkPaysItsPrice
  <2>1. r \in spent => okAt[r] \in token[r].iat..token[r].iat + token[r].ttl
    BY DEF Work, Bound, InLife
  <2>2. paid[r] > 0 => r \in spent /\ paid[r] = Sats(token[r].form)
    BY DEF Work, OnePayout
  <2> QED
    BY <2>1, <2>2
<1> QED
  BY <1>1, WorkHolds, PTL

-----------------------------------------------------------------------------
(* The order of ratios.                                                    *)

LEMMA LeqTotal ==
  ASSUME NEW x \in Ratios, NEW y \in Ratios
  PROVE  /\ Leq(x, x) /\ (Leq(x, y) \/ Leq(y, x))
         /\ x.n \in Nat /\ x.d \in Nat \ {0} /\ y.n \in Nat /\ y.d \in Nat \ {0}
<1>1. x.n \in Nat /\ x.d \in Nat \ {0} /\ y.n \in Nat /\ y.d \in Nat \ {0}
  BY DEF Ratios
<1> QED
  BY <1>1, ProductNat DEF Leq

LEMMA LeqTrans ==
  ASSUME NEW x \in Ratios, NEW y \in Ratios, NEW z \in Ratios, Leq(x, y), Leq(y, z)
  PROVE  Leq(x, z)
<1> DEFINE a == x.n
           b == x.d
           c == y.n
           d == y.d
           e == z.n
           f == z.d
<1>1. /\ a \in Nat /\ c \in Nat /\ e \in Nat
      /\ b \in Nat \ {0} /\ d \in Nat \ {0} /\ f \in Nat \ {0}
  BY DEF Ratios
<1>2. a * d <= c * b /\ c * f <= e * d
  BY DEF Leq
<1> SUFFICES a * f <= e * b
  BY DEF Leq
<1> HIDE DEF a, b, c, d, e, f
<1>3. a * d \in Int /\ c * b \in Int /\ c * f \in Int /\ e * d \in Int /\ a * f \in Int
      /\ e * b \in Int
  BY <1>1
<1>4. (a * d) * f <= (c * b) * f /\ (c * f) * b <= (e * d) * b
  BY <1>1, <1>2, <1>3, TimesKeeps
<1>5. (a * d) * f = (a * f) * d /\ (c * b) * f = (c * f) * b /\ (e * d) * b = (e * b) * d
  BY <1>1
<1>6. (a * f) * d <= (e * b) * d
  BY <1>1, <1>3, <1>4, <1>5
<1> QED
  BY <1>1, <1>3, <1>6, TimesDrops

\* The larger ratio and the smaller one, and that both follow their arguments.
LEMMA BetweenIs ==
  ASSUME NEW x \in Ratios, NEW y \in Ratios
  PROVE  /\ Leq(x, Greatest(x, y)) /\ Leq(y, Greatest(x, y)) /\ Greatest(x, y) \in {x, y}
         /\ Leq(Least(x, y), x) /\ Leq(Least(x, y), y) /\ Least(x, y) \in {x, y}
  BY LeqTotal DEF Greatest, Least

LEMMA BetweenKeeps ==
  ASSUME NEW x \in Ratios, NEW y \in Ratios, NEW z \in Ratios, Leq(x, y)
  PROVE  Leq(Greatest(z, x), Greatest(z, y)) /\ Leq(Least(z, x), Least(z, y))
<1>1. Leq(Greatest(z, x), Greatest(z, y))
  <2>1. Leq(z, Greatest(z, y)) /\ Leq(y, Greatest(z, y)) /\ Greatest(z, y) \in Ratios
    BY BetweenIs
  <2>2. Leq(x, Greatest(z, y))
    BY <2>1, LeqTrans
  <2> QED
    BY <2>1, <2>2, BetweenIs
<1>2. Leq(Least(z, x), Least(z, y))
  <2>1. Leq(Least(z, x), z) /\ Leq(Least(z, x), x) /\ Least(z, x) \in Ratios
    BY BetweenIs
  <2>2. Leq(Least(z, x), y)
    BY <2>1, LeqTrans
  <2> QED
    BY <2>1, <2>2, BetweenIs
<1> QED
  BY <1>1, <1>2

LEMMA ClampKeeps ==
  ASSUME NEW x \in Ratios, NEW y \in Ratios, NEW lo \in Ratios, NEW hi \in Ratios, Leq(x, y)
  PROVE  Leq(_clamp(x, lo, hi), _clamp(y, lo, hi))
<1>1. Least(hi, x) \in Ratios /\ Least(hi, y) \in Ratios
  BY BetweenTyped
<1>2. Leq(Least(hi, x), Least(hi, y))
  BY BetweenKeeps
<1> QED
  BY <1>1, <1>2, BetweenKeeps DEF _clamp

LEMMA TimesOrdered ==
  ASSUME NEW x \in Ratios, NEW y \in Ratios, NEW z \in Ratios, Leq(x, y)
  PROVE  Leq(Times(z, x), Times(z, y)) /\ Leq(Times(x, z), Times(y, z))
<1> DEFINE a == x.n
           b == x.d
           c == y.n
           d == y.d
           e == z.n
           f == z.d
<1>1. a \in Nat /\ b \in Nat /\ c \in Nat /\ d \in Nat /\ e \in Nat /\ f \in Nat
  BY DEF Ratios
<1>2. a * d <= c * b
  BY DEF Leq
<1> SUFFICES (e * a) * (f * d) <= (e * c) * (f * b) /\ (a * e) * (d * f) <= (c * e) * (b * f)
  BY DEF Leq, Times, Ratio
<1> HIDE DEF a, b, c, d, e, f
<1>3. a * d \in Int /\ c * b \in Int /\ e * f \in Nat
  BY <1>1, ProductNat
<1>4. (a * d) * (e * f) <= (c * b) * (e * f)
  BY <1>2, <1>3, TimesKeeps
<1>5. (e * a) * (f * d) = (a * d) * (e * f) /\ (a * e) * (d * f) = (a * d) * (e * f)
  BY <1>1
<1>6. (e * c) * (f * b) = (c * b) * (e * f) /\ (c * e) * (b * f) = (c * b) * (e * f)
  BY <1>1
<1> QED
  BY <1>4, <1>5, <1>6

-----------------------------------------------------------------------------
(* How long a balance has to last.                                         *)

\* What one day of the trailing year counts.
YearOf == [d \in TrailingYear |->
             IF d \in 0..MaxDay /\ usage[d] > 0 THEN usage[d]
             ELSE Max({Max({usage[e] : e \in 0..MaxDay}), MissingDay})]

LEMMA MaxDayTyped == MaxDay \in Nat /\ 0 \in 0..MaxDay /\ IsFiniteSet(0..MaxDay)
<1>1. MaxDay \in Nat
  BY PolicyAssumption, DivBounds DEF MaxDay, DayOf
<1> QED
  BY <1>1, FS_Interval

\* A day without a row counts at least MissingDay.
LEMMA BusiestTyped ==
  ASSUME Typed
  PROVE  Max({Max({usage[e] : e \in 0..MaxDay}), MissingDay}) \in Nat \ {0}
<1> DEFINE Counts == {usage[e] : e \in 0..MaxDay}
           f == [e \in 0..MaxDay |-> usage[e]]
<1>1. \A e \in 0..MaxDay : usage[e] \in Nat
  BY DEF Typed
<1>2. f \in Surjection(0..MaxDay, Counts)
  BY DEF Surjection
<1>3. IsFiniteSet(Counts)
  <2> HIDE DEF f, Counts
  <2> QED
    BY <1>2, MaxDayTyped, FS_Surjection
<1>4. Counts # {} /\ \A s \in Counts : s \in Nat
  BY <1>1, MaxDayTyped
<1>5. Max(Counts) \in Nat
  <2> HIDE DEF Counts
  <2> QED
    BY <1>3, <1>4, MaxOfNats
<1>6. MissingDay \in Nat \ {0}
  BY PolicyAssumption
<1>7. Max({Max(Counts), MissingDay})
        = IF Max(Counts) >= MissingDay THEN Max(Counts) ELSE MissingDay
  BY <1>5, <1>6, MaxOfTwo
<1> HIDE DEF Counts
<1>8. Max({Max(Counts), MissingDay}) \in Nat \ {0}
  BY <1>5, <1>6, <1>7
<1> QED
  BY <1>8 DEF Counts

\* A year counts at least one claim a day.
LEMMA YearCounts ==
  ASSUME Typed
  PROVE  ExpectedYear \in Nat /\ ExpectedYear >= Window
<1>1. TrailingYear = (today - Window + 1)..today /\ today \in Nat /\ Window \in Nat \ {0}
  BY PolicyAssumption, TodayTyped DEF TrailingYear, today, Typed
<1>2. IsFiniteSet(TrailingYear) /\ Cardinality(TrailingYear) = Window
  <2>1. today - Window + 1 \in Int /\ today \in Int /\ ~(today - Window + 1 > today)
    BY <1>1
  <2>2. Cardinality(TrailingYear) = today - (today - Window + 1) + 1
    BY <1>1, <2>1, FS_Interval
  <2> QED
    BY <1>1, <2>1, <2>2, FS_Interval
<1>3. ASSUME NEW d \in TrailingYear PROVE YearOf[d] \in Nat /\ YearOf[d] >= 1
  <2> DEFINE fill == Max({Max({usage[e] : e \in 0..MaxDay}), MissingDay})
  <2>1. fill \in Nat \ {0}
    BY BusiestTyped
  <2>2. YearOf[d] = IF d \in 0..MaxDay /\ usage[d] > 0 THEN usage[d] ELSE fill
    BY DEF YearOf
  <2> HIDE DEF fill
  <2>3. CASE d \in 0..MaxDay /\ usage[d] > 0
    <3>1. usage[d] \in Nat
      BY <2>3 DEF Typed
    <3> QED
      BY <2>2, <2>3, <3>1
  <2>4. CASE ~(d \in 0..MaxDay /\ usage[d] > 0)
    BY <2>1, <2>2, <2>4
  <2> QED
    BY <2>3, <2>4
<1> DEFINE one == [d \in TrailingYear |-> 1]
<1>4. \A d \in TrailingYear : one[d] \in Int /\ YearOf[d] \in Int /\ one[d] <= YearOf[d]
  BY <1>3
<1>5. SumFunctionOnSet(one, TrailingYear) = Window
  BY <1>2, SumOfOnes
<1>6. SumFunctionOnSet(one, TrailingYear) <= SumFunctionOnSet(YearOf, TrailingYear)
  <2> HIDE DEF one
  <2> QED
    BY <1>2, <1>4, SumMonotone
<1>7. SumFunctionOnSet(YearOf, TrailingYear) \in Nat
  BY <1>2, <1>3, SumNat
<1>8. ExpectedYear = SumFunctionOnSet(YearOf, TrailingYear)
  <2>1. DOMAIN YearOf = TrailingYear
    BY DEF YearOf
  <2>2. ExpectedYear = SumFunction(YearOf)
    BY Zenon DEF ExpectedYear, YearOf
  <2> QED
    BY <2>1, <2>2 DEF SumFunction
<1> QED
  BY <1>5, <1>6, <1>7, <1>8

LEMMA HorizonTyped ==
  ASSUME cfg \in Settings
  PROVE  CapHorizon \in Ratios /\ LeastExpected \in Ratios
<1>1. Whole(Window) \in Ratios /\ Whole(1) \in Ratios
  BY PolicyAssumption, RatioTyped
<1>2. Ratio(cfg.reset_blocks * cfg.block_interval, Day) \in Ratios
  <2>1. cfg.reset_blocks * cfg.block_interval \in Nat
    BY SettingsTyped, ProductNat
  <2> QED
    BY <2>1, PolicyAssumption, RatioTyped
<1>3. CapHorizon \in Ratios
  BY <1>1, <1>2, BetweenTyped DEF CapHorizon
<1> QED
  BY <1>1, <1>3, BetweenTyped DEF LeastExpected

\* The balance lasts for one claim a day at least.
LEMMA ExpectedEnough ==
  ASSUME Typed
  PROVE  Expected \in Ratios /\ Leq(LeastExpected, Expected)
<1> DEFINE y == ExpectedYear
           h == CapHorizon
           claims == Times(Whole(y), Times(h, Ratio(1, Window)))
<1>1. y \in Nat /\ y >= Window /\ h \in Ratios /\ Window \in Nat \ {0}
  BY YearCounts, HorizonTyped, PolicyAssumption DEF Typed
<1>2. claims \in Ratios /\ Whole(1) \in Ratios
  BY <1>1, RatioTyped, TimesTyped
<1>3. Leq(h, claims)
  <2> DEFINE a == h.n
             b == h.d
  <2>1. a \in Nat /\ b \in Nat
    BY <1>1 DEF Ratios
  <2>2. claims.n = y * (a * 1) /\ claims.d = 1 * (b * Window)
    BY DEF Times, Whole, Ratio
  <2> SUFFICES a * (1 * (b * Window)) <= (y * (a * 1)) * b
    BY <2>2, Zenon DEF Leq
  <2> HIDE DEF y, h, a, b
  <2>3. a * b \in Nat
    BY <2>1, ProductNat
  <2>4. Window * (a * b) <= y * (a * b)
    BY <1>1, <2>3, TimesKeeps
  <2>5. a * (1 * (b * Window)) = Window * (a * b) /\ (y * (a * 1)) * b = y * (a * b)
    BY <1>1, <2>1
  <2> QED
    BY <2>4, <2>5
<1>4. Expected = Greatest(Whole(1), claims)
  BY Zenon DEF Expected
<1> HIDE DEF claims, y
<1>5. Leq(Greatest(Whole(1), h), Greatest(Whole(1), claims))
  BY <1>1, <1>2, <1>3, BetweenKeeps
<1>6. LeastExpected = Greatest(Whole(1), h)
  BY Zenon DEF LeastExpected
<1> QED
  BY <1>2, <1>4, <1>5, <1>6, BetweenTyped

\* What an amount within the ceiling of a day leaves of the balance it was checked against.
LEMMA ShareArithmetic ==
  ASSUME NEW x \in Ratios, NEW y \in Ratios, Leq(x, y), NEW v \in Nat, NEW a \in Nat,
         y.n # 0, a <= (v * y.d) \div y.n
  PROVE  a * x.n <= v * x.d
<1> DEFINE n == x.n
           d == x.d
           e == y.n
           f == y.d
           q == (v * f) \div e
<1>1. n \in Nat /\ d \in Nat \ {0} /\ e \in Nat \ {0} /\ f \in Nat \ {0} /\ n * f <= e * d
  BY DEF Ratios, Leq
<1>2. v * f \in Nat
  BY <1>1, ProductNat
<1>3. q \in Nat /\ e * q <= v * f /\ a <= q
  BY <1>1, <1>2, DivBounds
<1> SUFFICES a * n <= v * d
  OBVIOUS
<1> HIDE DEF n, d, e, f, q
<1>4. a * e <= q * e
  BY <1>1, <1>3, TimesKeeps
<1>5. a * e \in Int /\ a * e <= v * f
  BY <1>1, <1>2, <1>3, <1>4
<1>6. (a * e) * d <= (v * f) * d
  BY <1>1, <1>2, <1>5, TimesKeeps
<1>7. (n * f) * a <= (e * d) * a
  <2>1. n * f \in Int /\ e * d \in Int
    BY <1>1
  <2> QED
    BY <1>1, <2>1, TimesKeeps
<1>8. (n * f) * a = (a * n) * f /\ (e * d) * a = (a * e) * d /\ (v * f) * d = (v * d) * f
  BY <1>1
<1>9. (a * n) * f <= (v * d) * f /\ a * n \in Int /\ v * d \in Int
  BY <1>1, <1>6, <1>7, <1>8
<1> QED
  BY <1>1, <1>9, TimesDrops

LEMMA CapAllows ==
  ASSUME Typed, cfg.max_amount_per_day, NEW v \in Nat, NEW a \in Nat,
         AmountRules(a, ComputeLimits(v))
  PROVE  a * LeastExpected.n <= v * LeastExpected.d
<1>1. LeastExpected \in Ratios /\ Expected \in Ratios /\ Leq(LeastExpected, Expected)
  BY ExpectedEnough, HorizonTyped DEF Typed
<1>2. Expected.n \in Nat \ {0}
  <2>1. Leq(Whole(1), Expected)
    <3>1. Times(Whole(ExpectedYear), Times(CapHorizon, Ratio(1, Window))) \in Ratios
      <4>1. ExpectedYear \in Nat /\ CapHorizon \in Ratios /\ Window \in Nat \ {0}
        BY YearCounts, HorizonTyped, PolicyAssumption DEF Typed
      <4> QED
        BY <4>1, RatioTyped, TimesTyped
    <3> QED
      BY <3>1, RatioTyped, BetweenIs DEF Expected
  <2>2. 1 * Expected.d <= Expected.n * 1
    BY <2>1 DEF Leq, Whole, Ratio
  <2> QED
    BY <1>1, <2>2 DEF Ratios
<1>3. v # None
  BY DEF None
<1>4. ComputeLimits(v).daily_cap = (v * Expected.d) \div Expected.n
  BY <1>3, Zenon DEF ComputeLimits
<1>5. (v * Expected.d) \div Expected.n \in Nat
  <2>1. v * Expected.d \in Nat
    BY <1>1, ProductNat DEF Ratios
  <2> QED
    BY <1>2, <2>1, DivBounds
<1>6. a <= (v * Expected.d) \div Expected.n
  BY <1>4, <1>5 DEF AmountRules, None
<1> QED
  BY <1>1, <1>2, <1>6, ShareArithmetic

-----------------------------------------------------------------------------
(* The reserve is kept.                                                    *)

\* What a payment leaves for another claim, whichever is the larger.
LEMMA PaymentLeaves ==
  ASSUME NEW n \in Nat, NEW d \in Nat, NEW p \in Nat, NEW w \in Nat, NEW a \in Nat,
         NEW b \in Nat, b <= w,
         d * w >= a * (n - p * d), d * w >= b * (n - p * d)
  PROVE  d * (w - b) >= a * (n - (p + 1) * d)
<1> DEFINE k == n - p * d
           l == n - (p + 1) * d
<1>1. k \in Int /\ l \in Int /\ k = l + d
  BY DEF k, l
<1>2. d * w >= a * k /\ d * w >= b * k
  OBVIOUS
<1> SUFFICES d * (w - b) >= a * l
  OBVIOUS
<1> HIDE DEF k, l
<1>3. d * (w - b) = d * w - d * b
  OBVIOUS
<1>4. a * k = a * l + a * d /\ b * k = b * l + b * d
  BY <1>1
<1>5. CASE b <= a
  <2>1. b * d <= a * d /\ a * d \in Int /\ b * d \in Int /\ a * l \in Int /\ d * w \in Int
    BY <1>1, <1>5, TimesKeeps
  <2>2. d * b = b * d
    OBVIOUS
  <2> QED
    BY <1>2, <1>3, <1>4, <2>1, <2>2
<1>6. CASE a < b /\ l >= 0
  <2>1. a * l <= b * l /\ a * l \in Int /\ b * l \in Int /\ b * d \in Int /\ d * w \in Int
    BY <1>1, <1>6, TimesKeeps
  <2>2. d * b = b * d
    OBVIOUS
  <2> QED
    BY <1>2, <1>3, <1>4, <2>1, <2>2
<1>7. CASE l < 0
  <2>1. a * (-l) \in Nat /\ d * (w - b) \in Nat
    BY <1>1, <1>7, ProductNat
  <2>2. a * l = -(a * (-l))
    BY <1>1
  <2> QED
    BY <2>1, <2>2
<1> QED
  BY <1>1, <1>5, <1>6, <1>7

LEMMA PaidTyped ==
  ASSUME Typed
  PROVE  /\ IsFiniteSet(Paid) /\ Cardinality(Paid) \in Nat
         /\ Cardinality(Paid) * Fee \in Nat /\ Wealth \in Nat /\ confirmed <= Wealth
         /\ LeastExpected.n \in Nat /\ LeastExpected.d \in Nat \ {0}
         /\ \A r \in Requests : orders[r] \in Nat /\ paid[r] \in Nat
<1>1. IsFiniteSet(Paid) /\ Cardinality(Paid) \in Nat
  <2>1. Paid \in SUBSET Requests
    BY DEF Paid
  <2> QED
    BY <2>1, PolicyAssumption, FS_Subset, FS_CardinalityType
<1>2. Cardinality(Paid) * Fee \in Nat
  BY <1>1, PolicyAssumption, ProductNat
<1>3. Wealth \in Nat /\ confirmed <= Wealth
  BY <1>2 DEF Wealth, Typed
<1>4. LeastExpected \in Ratios
  BY HorizonTyped DEF Typed
<1>5. \A r \in Requests : orders[r] \in Nat /\ paid[r] \in Nat
  BY DEF Typed
<1> QED
  BY <1>1, <1>2, <1>3, <1>4, <1>5 DEF Ratios

\* A claim within what its balance allows leaves the share of every other.
LEMMA AllowsLeaves ==
  ASSUME Typed, NEW v \in Nat, v <= Wealth, NEW a \in Nat, Allows(v, a)
  PROVE  Leaves(a)
<1> DEFINE n == LeastExpected.n
           d == LeastExpected.d
           p == Cardinality(Paid)
           w == Wealth
<1>1. n \in Nat /\ d \in Nat /\ p \in Nat /\ w \in Nat /\ v <= w /\ a * n <= v * d
  BY PaidTyped DEF Allows
<1> SUFFICES d * w >= a * (n - p * d)
  BY DEF Leaves
<1> HIDE DEF n, d, p, w
<1>2. v * d <= w * d
  BY <1>1, TimesKeeps
<1>3. a * (n - p * d) = a * n - a * (p * d)
  <2>1. p * d \in Int
    BY <1>1
  <2> QED
    BY <1>1, <2>1
<1>4. a * (p * d) \in Nat /\ a * n \in Nat /\ v * d \in Nat /\ w * d \in Nat
  BY <1>1, ProductNat
<1>5. d * w = w * d
  BY <1>1
<1> QED
  BY <1>1, <1>2, <1>3, <1>4, <1>5

LEMMA SumKeeps ==
  ASSUME NEW a \in Nat, NEW b \in Nat, NEW c \in Nat, NEW e \in Nat, NEW x \in Nat,
         a + b <= c + e
  PROVE  a + b + x \in Int /\ c + e + x \in Int /\ a + b + x <= c + e + x
  OBVIOUS

\* A step that adds no claim and takes no coin keeps the reserve.
LEMMA ReserveFrame ==
  ASSUME Typed, Typed', Reserve, cfg' = cfg, paid' = paid,
         blind => blind', confirmed' + change' >= confirmed + change,
         \A q \in Requests : \A a \in Nat \ {0} : Claimed(q, a)' => Claimed(q, a)
  PROVE  Reserve'
<1> SUFFICES ASSUME cfg.max_amount_per_day, ~blind', NEW q \in Requests,
                    NEW a \in Nat \ {0}, Claimed(q, a)'
             PROVE  Leaves(a)'
  BY DEF Reserve
<1>1. Leaves(a)
  BY DEF Reserve
<1>2. Paid' = Paid /\ LeastExpected' = LeastExpected
  BY DEF Paid, LeastExpected, CapHorizon
<1> DEFINE d == LeastExpected.d
           n == LeastExpected.n
           p == Cardinality(Paid)
           x == p * Fee
           w == confirmed + change + x
           v == confirmed' + change' + x
<1>3. /\ n \in Nat /\ d \in Nat /\ p \in Nat /\ w \in Int /\ v \in Int /\ w <= v
  <2>1. confirmed' \in Nat /\ change' \in Nat /\ confirmed \in Nat /\ change \in Nat
        /\ x \in Nat
    BY PaidTyped DEF Typed
  <2>2. n \in Nat /\ d \in Nat /\ p \in Nat
    BY PaidTyped
  <2> HIDE DEF d, n, p, x
  <2>3. confirmed + change <= confirmed' + change'
    BY <2>1
  <2>4. w \in Int /\ v \in Int /\ w <= v
    BY <2>1, <2>3, SumKeeps
  <2> HIDE DEF w, v
  <2> QED
    BY <2>2, <2>4
<1>4. d * w >= a * (n - p * d)
  BY <1>1 DEF Leaves, Wealth
<1>5. SUFFICES d * v >= a * (n - p * d)
  <2>1. Wealth' = v
    BY <1>2 DEF Wealth
  <2> HIDE DEF v
  <2> QED
    BY <1>2, <2>1 DEF Leaves
<1> HIDE DEF d, n, p, x, w, v
<1>6. w * d <= v * d
  BY <1>3, TimesKeeps
<1>7. n - p * d \in Int
  BY <1>3
<1> QED
  BY <1>3, <1>4, <1>6, <1>7

LEMMA SameClaim ==
  ASSUME cfg' = cfg, NEW q \in Requests, NEW a \in Nat \ {0}, Claimed(q, a)',
         orders'[q] \in {orders[q], 0}, paid'[q] = paid[q],
         \/ pc'[q] \notin {"process", "spend"}
         \/ pc'[q] = pc[q] /\ form'[q] = form[q] /\ view'[q] = view[q]
  PROVE  Claimed(q, a)
<1>1. LeastExpected' = LeastExpected
  BY DEF LeastExpected, CapHorizon
<1>2. \/ a \in {orders'[q], paid'[q]}
      \/ pc'[q] = "spend" /\ a = Sats(form'[q])
      \/ pc'[q] = "process" /\ view'[q] # None
           /\ a * LeastExpected.n <= view'[q] * LeastExpected.d
  BY <1>1, Zenon DEF Claimed, Allows, Sats
<1>3. CASE a \in {orders'[q], paid'[q]}
  BY <1>3 DEF Claimed
<1>4. CASE pc'[q] = "spend" /\ a = Sats(form'[q])
  BY <1>4, Zenon DEF Claimed
<1>5. CASE pc'[q] = "process" /\ view'[q] # None
             /\ a * LeastExpected.n <= view'[q] * LeastExpected.d
  BY <1>5, Zenon DEF Claimed, Allows
<1> QED
  BY <1>2, <1>3, <1>4, <1>5

LEMMA ReserveInit == Init => Reserve
<1> SUFFICES ASSUME Init, NEW r \in Requests, NEW a \in Nat \ {0}, Claimed(r, a)
             PROVE  FALSE
  BY DEF Reserve
<1>1. orders[r] = 0 /\ paid[r] = 0 /\ pc[r] = "new"
  BY DEF Init
<1> QED
  BY <1>1 DEF Claimed

\* The steps that neither read a balance nor pay.
LEMMA ReserveQuiet ==
  ASSUME Work, Work', Reserve, NEW r \in Requests,
         AskChallenge(r) \/ IssueChallenge(r) \/ Refuse(r) \/ Record(r) \/ Fails(r)
  PROVE  Reserve'
<1>1. Typed /\ Typed' /\ UNCHANGED <<cfg, confirmed, change, paid, blind>>
  BY DEF Work, AskChallenge, IssueChallenge, Refuse, Record, Fails, wallet, history
<1>2. pc'[r] \notin {"process", "spend"}
  <2>1. Typed /\ r \in Requests
    BY <1>1
  <2>2. CASE AskChallenge(r)
    BY <1>1, <2>2 DEF AskChallenge, Goto, Typed
  <2>3. CASE IssueChallenge(r)
    BY <2>3, Issues
  <2>4. CASE Refuse(r) \/ Record(r) \/ Fails(r)
    BY <1>1, <2>4 DEF Refuse, Record, Fails, Leave, Goto, Typed
  <2> QED
    BY <2>2, <2>3, <2>4
<1>3. \A q \in Requests : orders'[q] \in {orders[q], 0}
  <2>1. CASE Fails(r)
    <3>1. orders' = orders \/ orders' = [orders EXCEPT ![r] = 0]
      BY <2>1, Zenon DEF Fails
    <3> QED
      BY <1>1, <3>1 DEF Typed
  <2>2. CASE ~Fails(r)
    BY <2>2 DEF AskChallenge, IssueChallenge, Refuse, Record
  <2> QED
    BY <2>1, <2>2
<1>4. ASSUME NEW q \in Requests, q # r
      PROVE  pc'[q] = pc[q] /\ form'[q] = form[q] /\ view'[q] = view[q]
  <2>1. CASE AskChallenge(r)
    <3>1. view' = [view EXCEPT ![r] = view'[r]]
      BY <1>1, <2>1, ReadTyped DEF AskChallenge
    <3> QED
      BY <1>1, <1>4, <2>1, <3>1 DEF AskChallenge, Goto, Typed
  <2>2. CASE IssueChallenge(r)
    BY <1>1, <1>4, <2>2, Issues DEF Typed
  <2>3. CASE Refuse(r) \/ Record(r) \/ Fails(r)
    BY <1>1, <1>4, <2>3 DEF Refuse, Record, Fails, Leave, Goto, Typed
  <2> QED
    BY <2>1, <2>2, <2>3
<1>5. \A q \in Requests : \A a \in Nat \ {0} : Claimed(q, a)' => Claimed(q, a)
  BY <1>1, <1>2, <1>3, <1>4, SameClaim
<1>6. confirmed' + change' >= confirmed + change
  BY <1>1 DEF Typed
<1> QED
  BY <1>1, <1>5, <1>6, ReserveFrame

\* A request that reads the balance claims what that balance allows.
LEMMA ReservePost ==
  ASSUME Work, Work', Reserve, NEW r \in Requests, Post(r) PROVE Reserve'
<1>1. Typed /\ Typed' /\ UNCHANGED <<cfg, confirmed, change, paid, orders, blind>>
  BY DEF Work, Post, wallet, history
<1>2. pc'[r] = "process"
  BY <1>1 DEF Post, Goto, Typed
<1>3. view' = [view EXCEPT ![r] = view'[r]] /\ view'[r] \in {confirmed, None}
  BY <1>1, ReadTyped DEF Post
<1>4. ASSUME NEW q \in Requests, q # r
      PROVE  pc'[q] = pc[q] /\ form'[q] = form[q] /\ view'[q] = view[q]
  BY <1>1, <1>3, <1>4 DEF Post, Goto, Typed
<1>5. LeastExpected' = LeastExpected /\ Paid' = Paid /\ Wealth' = Wealth
  BY <1>1 DEF LeastExpected, CapHorizon, Paid, Wealth
<1>6. SUFFICES ASSUME cfg.max_amount_per_day, ~blind, NEW q \in Requests,
                      NEW a \in Nat \ {0}, Claimed(q, a)'
               PROVE  Leaves(a)
  <2>1. ASSUME NEW a PROVE Leaves(a)' <=> Leaves(a)
    BY <1>5 DEF Leaves
  <2> QED
    BY <1>1, <2>1 DEF Reserve
<1>7. CASE Claimed(q, a)
  BY <1>6, <1>7 DEF Reserve
<1>8. CASE q # r
  BY <1>1, <1>4, <1>6, <1>7, <1>8, SameClaim
<1>9. CASE q = r /\ ~Claimed(q, a)
  <2>1. \/ a \in {orders'[r], paid'[r]}
        \/ pc'[r] = "process" /\ Allows(view'[r], a)
    <3>1. \/ a \in {orders'[r], paid'[r]}
          \/ pc'[r] = "spend"
          \/ pc'[r] = "process" /\ view'[r] # None
               /\ a * LeastExpected'.n <= view'[r] * LeastExpected'.d
      BY <1>6, <1>9, Zenon DEF Claimed, Allows
    <3> QED
      BY <1>2, <1>5, <3>1, Zenon DEF Allows
  <2>2. a \notin {orders'[r], paid'[r]}
    BY <1>1, <1>9 DEF Claimed
  <2>3. view'[r] = confirmed /\ Allows(confirmed, a)
    BY <1>3, <2>1, <2>2 DEF Allows
  <2>4. confirmed \in Nat /\ confirmed <= Wealth
    BY <1>1, PaidTyped DEF Typed
  <2> QED
    BY <1>1, <2>3, <2>4, AllowsLeaves
<1> QED
  BY <1>7, <1>8, <1>9

\* What is approved is within the ceiling of the balance it was read from.
LEMMA ReserveApprove ==
  ASSUME Work, Work', Reserve, NEW r \in Requests, Approve(r) PROVE Reserve'
<1>1. /\ Typed /\ Typed'
      /\ UNCHANGED <<cfg, confirmed, change, paid, orders, form, view>>
  BY DEF Work, Approve, wallet
<1>2. blind => blind'
  BY DEF Approve
<1>3. SUFFICES ASSUME cfg.max_amount_per_day, ~blind' PROVE Reserve'
  BY <1>1, Zenon DEF Reserve
<1>4. pc[r] = "process" /\ pc'[r] = "spend" /\ Allowed(r)
  BY <1>1 DEF Approve, Goto, Typed
<1>5. \A q \in Requests \ {r} : pc'[q] = pc[q]
  BY <1>1 DEF Approve, Goto, Typed
<1>6. view[r] \in Nat
  <2>1. view[r] # None
    BY <1>3 DEF Approve
  <2> QED
    BY <1>1, <2>1 DEF Typed, Known
<1>7. ASSUME NEW a \in Nat \ {0}, Claimed(r, a)' PROVE Claimed(r, a)
  <2>1. CASE a \in {orders'[r], paid'[r]}
    BY <1>1, <2>1 DEF Claimed
  <2>2. CASE a \notin {orders'[r], paid'[r]}
    <3>1. a = Sats(form[r])
      BY <1>1, <1>4, <1>7, <2>2 DEF Claimed, Sats
    <3>2. AmountRules(a, ComputeLimits(view[r]))
      BY <1>4, <3>1, Zenon DEF Allowed
    <3>3. a * LeastExpected.n <= view[r] * LeastExpected.d
      BY <1>1, <1>3, <1>6, <3>2, CapAllows
    <3>4. view[r] # None
      BY <1>6 DEF None
    <3> QED
      BY <1>4, <3>3, <3>4, Zenon DEF Claimed, Allows
  <2> QED
    BY <2>1, <2>2
<1>8. \A q \in Requests : \A a \in Nat \ {0} : Claimed(q, a)' => Claimed(q, a)
  BY <1>1, <1>5, <1>7, SameClaim
<1>9. confirmed' + change' >= confirmed + change
  BY <1>1 DEF Typed
<1> QED
  BY <1>1, <1>2, <1>8, <1>9, ReserveFrame

LEMMA ReserveSpend ==
  ASSUME Work, Work', Reserve, NEW r \in Requests, Spend(r) PROVE Reserve'
<1>1. /\ Typed /\ Typed' /\ pc[r] = "spend"
      /\ UNCHANGED <<cfg, confirmed, change, paid, blind>>
  BY DEF Work, Spend, wallet, history
<1>2. /\ pc'[r] \notin {"process", "spend"}
      /\ \A q \in Requests \ {r} : pc'[q] = pc[q] /\ form'[q] = form[q] /\ view'[q] = view[q]
  BY <1>1 DEF Spend, Leave, Goto, Typed
<1>3. orders' = orders \/ orders' = [orders EXCEPT ![r] = Sats(form[r])]
  BY Zenon DEF Spend
<1>4. ASSUME NEW q \in Requests, NEW a \in Nat \ {0}, Claimed(q, a)' PROVE Claimed(q, a)
  <2>1. CASE orders'[q] = orders[q]
    BY <1>1, <1>2, <1>4, <2>1, SameClaim
  <2>2. CASE orders'[q] # orders[q]
    <3>1. q = r /\ orders'[r] = Sats(form[r])
      BY <1>1, <1>3, <2>2 DEF Typed
    <3>2. a = Sats(form[r]) \/ a = paid[r]
      BY <1>1, <1>2, <1>4, <3>1 DEF Claimed
    <3> QED
      BY <1>1, <3>1, <3>2 DEF Claimed
  <2> QED
    BY <2>1, <2>2
<1>5. confirmed' + change' >= confirmed + change
  BY <1>1 DEF Typed
<1> QED
  BY <1>1, <1>4, <1>5, ReserveFrame

\* A payment takes from each other claim its own share at most, or that claim's.
LEMMA ReservePay ==
  ASSUME Work, Work', Reserve, NEW r \in Requests, Pay(r) PROVE Reserve'
<1>1. /\ Typed /\ Typed' /\ UNCHANGED <<cfg, pc, form, view, blind>>
      /\ orders' = [orders EXCEPT ![r] = 0] /\ paid' = [paid EXCEPT ![r] = orders[r]]
  BY DEF Work, Pay, visitor, history
<1> DEFINE b == orders[r]
           n == LeastExpected.n
           d == LeastExpected.d
           p == Cardinality(Paid)
           w == Wealth
<1>2. /\ b \in Nat \ {0} /\ confirmed' \in Nat /\ change' \in Nat
      /\ confirmed' + change' + Fee + b = confirmed + change
  BY <1>1, Pays
<1>3. paid[r] = 0 /\ r \notin Paid
  BY <1>1, <1>2 DEF Work, OnePayout, Paid
<1>4. Paid' = Paid \cup {r}
  <2>1. \A q \in Requests : paid'[q] = IF q = r THEN b ELSE paid[q]
    BY <1>1 DEF Typed
  <2>2. Paid' = {q \in Requests : paid'[q] > 0}
    BY DEF Paid
  <2> HIDE DEF b
  <2> QED
    BY <1>2, <2>1, <2>2 DEF Paid
<1>5. Cardinality(Paid') = p + 1
  <2>1. IsFiniteSet(Paid)
    BY <1>1, PaidTyped
  <2> QED
    BY <1>3, <1>4, <2>1, FS_AddElement
<1>6. /\ n \in Nat /\ d \in Nat /\ p \in Nat /\ w \in Nat
      /\ w = confirmed + change + p * Fee
  <2>1. w = confirmed + change + p * Fee
    BY DEF Wealth
  <2>2. n \in Nat /\ d \in Nat /\ p \in Nat /\ w \in Nat
    BY <1>1, PaidTyped
  <2> QED
    BY <2>1, <2>2
<1>7. Wealth' = w - b /\ b <= w
  <2> DEFINE x == p * Fee
  <2>1. Wealth' = confirmed' + change' + (p + 1) * Fee
    BY <1>5 DEF Wealth
  <2>2. Fee \in Nat /\ x \in Nat /\ (p + 1) * Fee = x + Fee /\ confirmed \in Nat
        /\ change \in Nat
    <3>1. Fee \in Nat /\ confirmed \in Nat /\ change \in Nat
      BY <1>1, PolicyAssumption DEF Typed
    <3> HIDE DEF p
    <3>2. x \in Nat
      BY <1>6, <3>1, ProductNat
    <3>3. (p + 1) * Fee = x + Fee
      BY <1>6, <3>1
    <3> QED
      BY <3>1, <3>2, <3>3
  <2> HIDE DEF b, n, d, p, w, x
  <2>3. Wealth' = confirmed' + change' + (x + Fee) /\ w = confirmed + change + x
    BY <1>6, <2>1, <2>2 DEF x
  <2>4. PICK c \in Nat, e \in Nat : confirmed' = c /\ change' = e
    BY <1>2
  <2>5. c + e + Fee + b = confirmed + change /\ Wealth' = c + e + (x + Fee)
    BY <1>2, <2>3, <2>4
  <2>6. Fee \in Nat /\ x \in Nat /\ confirmed \in Nat /\ change \in Nat /\ b \in Nat
    BY <1>2, <2>2
  <2> QED
    BY <2>3, <2>5, <2>6
<1>8. LeastExpected' = LeastExpected
  BY <1>1 DEF LeastExpected, CapHorizon
<1> SUFFICES ASSUME cfg.max_amount_per_day, ~blind, NEW q \in Requests,
                    NEW a \in Nat \ {0}, Claimed(q, a)'
             PROVE  Leaves(a)'
  BY <1>1 DEF Reserve
<1>9. Claimed(q, a)
  <2>1. CASE q # r
    BY <1>1, <2>1, SameClaim DEF Typed
  <2>2. CASE q = r /\ a = b
    BY <2>2 DEF Claimed
  <2>3. CASE q = r /\ a # b
    <3>1. orders'[r] = 0 /\ paid'[r] = b
      BY <1>1 DEF Typed
    <3>2. \/ pc[r] = "spend" /\ a = Sats(form[r])
          \/ pc[r] = "process" /\ (Allows(view[r], a))'
      <4>1. \/ a \in {orders'[r], paid'[r]}
            \/ pc'[r] = "spend" /\ a = Sats(form'[r])
            \/ pc'[r] = "process" /\ Allows(view[r], a)'
        BY <2>3, Zenon DEF Claimed, Sats
      <4>2. a \notin {orders'[r], paid'[r]}
        BY <2>3, <3>1
      <4> QED
        BY <1>1, <4>1, <4>2
    <3>3. Allows(view[r], a)' => Allows(view[r], a)
      BY <1>1, <1>8 DEF Allows
    <3> QED
      BY <2>3, <3>2, <3>3 DEF Claimed
  <2> QED
    BY <2>1, <2>2, <2>3
<1>10. d * w >= a * (n - p * d)
  BY <1>9 DEF Reserve, Leaves
<1>11. d * w >= b * (n - p * d)
  <2>1. Claimed(r, b)
    BY DEF Claimed
  <2>2. Leaves(b)
    <3> HIDE DEF b
    <3> QED
      BY <1>2, <2>1 DEF Reserve
  <2> QED
    BY <2>2 DEF Leaves
<1>12. d * (w - b) >= a * (n - (p + 1) * d)
  <2> HIDE DEF b, n, d, p, w
  <2> QED
    BY <1>2, <1>6, <1>7, <1>10, <1>11, PaymentLeaves
<1> QED
  <2>1. Leaves(a)' <=> d * Wealth' >= a * (n - Cardinality(Paid') * d)
    BY <1>8 DEF Leaves
  <2> QED
    BY <1>5, <1>7, <1>12, <2>1

LEMMA ReserveChain ==
  ASSUME Work, Work', Reserve, Deposit \/ Block \/ UNCHANGED vars PROVE Reserve'
<1>1. Typed /\ Typed' /\ UNCHANGED <<cfg, pc, form, view, paid, orders, blind>>
  BY DEF Work, Deposit, Block, vars, visitor, history
<1>2. confirmed' + change' >= confirmed + change
  <2>1. confirmed \in Nat /\ change \in Nat /\ Coins \in Nat
    BY <1>1, PolicyAssumption DEF Typed
  <2>2. CASE Deposit
    BY <2>1, <2>2 DEF Deposit
  <2>3. CASE Block
    BY <2>1, <2>3 DEF Block
  <2>4. CASE UNCHANGED vars
    BY <2>1, <2>4 DEF vars, wallet
  <2> QED
    BY <2>2, <2>3, <2>4
<1>3. \A q \in Requests : \A a \in Nat \ {0} : Claimed(q, a)' => Claimed(q, a)
  BY <1>1, SameClaim
<1> QED
  BY <1>1, <1>2, <1>3, ReserveFrame

LEMMA ReserveNext == ASSUME Work, Work', Reserve, [Next]_vars PROVE Reserve'
<1>1. CASE \E r \in Requests : Serve(r) \/ Pay(r)
  BY <1>1, ReserveQuiet, ReservePost, ReserveApprove, ReserveSpend, ReservePay DEF Serve
<1>2. CASE Deposit \/ Block \/ UNCHANGED vars
  BY <1>2, ReserveChain
<1> QED
  BY <1>1, <1>2 DEF Next

\* Whatever is claimed, by requests that share stale balances and late payments, leaves the
\* wallet the share of every claim that is still expected.
THEOREM ReserveHolds == Spec => []Reserve
<1>1. Work /\ [Next]_vars /\ Work' /\ Reserve => Reserve'
  BY ReserveNext
<1> QED
  BY <1>1, ReserveInit, WorkHolds, PTL DEF Spec

-----------------------------------------------------------------------------
(* No payout is below the minimum.                                         *)

LEMMA LeastInit == Init => LeastClaims
  BY DEF Init, LeastClaims

LEMMA LeastNext == ASSUME Work, Work', LeastClaims, [Next]_vars PROVE LeastClaims'
<1>0. Typed /\ Typed' /\ cfg' = cfg
  BY DEF Work, Next, Serve, vars, AskChallenge, IssueChallenge, Post, Approve, Refuse, Spend,
         Record, Fails, Pay, Deposit, Block
<1> DEFINE m == cfg.min_claim_sat
           Kept(q) == /\ orders[q] > 0 => orders[q] >= m
                      /\ paid[q] > 0 => paid[q] >= m
                      /\ pc[q] = "spend" => Sats(form[q]) >= m
<1>1. SUFFICES ASSUME cfg.min_claim_enabled, NEW q \in Requests,
                      Kept(q)
               PROVE  /\ orders'[q] > 0 => orders'[q] >= m
                      /\ paid'[q] > 0 => paid'[q] >= m
                      /\ pc'[q] = "spend" => Sats(form'[q]) >= m
  BY <1>0, Zenon DEF LeastClaims, Sats
<1>2. m \in Nat
  BY <1>0, SettingsTyped DEF Typed
<1>3. \A k \in {0, orders[q], paid[q]} : k > 0 => k >= m
  BY <1>1
<1>4. SUFFICES ASSUME ~(/\ orders'[q] \in {orders[q], 0} /\ paid'[q] \in {paid[q], orders[q]}
                        /\ \/ pc'[q] # "spend"
                           \/ pc'[q] = pc[q] /\ form'[q] = form[q])
               PROVE  /\ orders'[q] > 0 => orders'[q] >= m
                      /\ paid'[q] > 0 => paid'[q] >= m
                      /\ pc'[q] = "spend" => Sats(form'[q]) >= m
  BY <1>1, <1>3
<1>5. CASE \E r \in Requests : AskChallenge(r) \/ Post(r)
  <2>1. UNCHANGED <<orders, paid>>
    BY <1>5 DEF AskChallenge, Post
  <2>2. pc'[q] # "spend" \/ (pc'[q] = pc[q] /\ form'[q] = form[q])
    BY <1>0, <1>5 DEF AskChallenge, Post, Goto, Typed
  <2> QED
    BY <1>4, <2>1, <2>2
<1>6. CASE \E r \in Requests : IssueChallenge(r)
  <2>0. PICK r \in Requests : IssueChallenge(r)
    BY <1>6
  <2>1. UNCHANGED <<orders, paid>>
    BY <2>0 DEF IssueChallenge
  <2>3. pc' = [pc EXCEPT ![r] = pc'[r]] /\ pc'[r] \in {"new", "solving"}
        /\ form' = [form EXCEPT ![r] = NoForm]
    BY <2>0, Issues
  <2>2. pc'[q] # "spend" \/ (pc'[q] = pc[q] /\ form'[q] = form[q])
    BY <1>0, <2>3 DEF Typed
  <2> QED
    BY <1>4, <2>1, <2>2
<1>7. CASE \E r \in Requests : Refuse(r) \/ Record(r)
  <2>1. UNCHANGED <<orders, paid>>
    BY <1>7 DEF Refuse, Record
  <2>2. pc'[q] # "spend" \/ (pc'[q] = pc[q] /\ form'[q] = form[q])
    BY <1>0, <1>7 DEF Refuse, Record, Leave, Goto, Typed
  <2> QED
    BY <1>4, <2>1, <2>2
<1>8. CASE \E r \in Requests : Fails(r)
  <2>1. PICK r \in Requests : Fails(r)
    BY <1>8
  <2>2. orders' = orders \/ orders' = [orders EXCEPT ![r] = 0]
    BY <2>1, Zenon DEF Fails
  <2>3. orders'[q] \in {orders[q], 0}
    <3>1. CASE orders' = orders
      BY <3>1
    <3>2. CASE orders' = [orders EXCEPT ![r] = 0]
      BY <1>0, <3>2 DEF Typed
    <3> QED
      BY <2>2, <3>1, <3>2
  <2>4. UNCHANGED paid
    BY <2>1 DEF Fails
  <2>5. pc'[q] # "spend" \/ (pc'[q] = pc[q] /\ form'[q] = form[q])
    BY <1>0, <2>1 DEF Fails, Leave, Goto, Typed
  <2> QED
    BY <1>4, <2>3, <2>4, <2>5
<1>9. CASE \E r \in Requests : Pay(r)
  <2>1. orders'[q] \in {orders[q], 0} /\ paid'[q] \in {paid[q], orders[q]}
    BY <1>0, <1>9 DEF Pay, Typed
  <2>2. UNCHANGED <<pc, form>>
    BY <1>9 DEF Pay, visitor
  <2> QED
    BY <1>4, <2>1, <2>2
<1>10. CASE Deposit \/ Block \/ UNCHANGED vars
  BY <1>4, <1>10 DEF Deposit, Block, vars, visitor
<1>11. CASE \E r \in Requests : Approve(r)
  <2>1. PICK r \in Requests : Approve(r)
    BY <1>11
  <2>2. UNCHANGED <<orders, paid, form>> /\ (q # r => pc'[q] = pc[q])
    BY <1>0, <2>1 DEF Approve, Goto, Typed
  <2>3. CASE q # r
    BY <1>4, <2>2, <2>3
  <2>4. CASE q = r
    <3>1. ComputeLimits(view[r]).min_claim = m /\ m # None
      BY <1>1, <1>2 DEF ComputeLimits, None
    <3>2. AmountRules(Sats(form[r]), ComputeLimits(view[r]))
      BY <2>1, Zenon DEF Approve, Allowed
    <3>3. Sats(form[r]) >= m
      BY <3>1, <3>2, Zenon DEF AmountRules
    <3> QED
      BY <1>1, <2>2, <2>4, <3>3
  <2> QED
    BY <2>3, <2>4
<1>12. CASE \E r \in Requests : Spend(r)
  <2>1. PICK r \in Requests : Spend(r)
    BY <1>12
  <2>2. /\ UNCHANGED paid /\ pc[r] = "spend" /\ pc'[r] # "spend"
        /\ (q # r => pc'[q] = pc[q] /\ form'[q] = form[q])
    BY <1>0, <2>1 DEF Spend, Leave, Goto, Typed
  <2>3. orders' = orders \/ orders' = [orders EXCEPT ![r] = Sats(form[r])]
    BY <2>1, Zenon DEF Spend
  <2>4. orders'[q] = orders[q] \/ (q = r /\ orders'[q] = Sats(form[q]))
    <3>1. CASE orders' = orders
      BY <3>1
    <3>2. CASE orders' = [orders EXCEPT ![r] = Sats(form[r])]
      BY <1>0, <3>2 DEF Typed
    <3> QED
      BY <2>3, <3>1, <3>2
  <2> QED
    BY <1>1, <1>3, <2>2, <2>4
<1> QED
  BY <1>5, <1>6, <1>7, <1>8, <1>9, <1>10, <1>11, <1>12 DEF Next, Serve

\* With a minimum claim, nothing smaller is ever approved, ordered or paid.
THEOREM LeastClaimsHold == Spec => []LeastClaims
<1>1. Work /\ [Next]_vars /\ Work' /\ LeastClaims => LeastClaims'
  BY LeastNext
<1> QED
  BY <1>1, LeastInit, WorkHolds, PTL DEF Spec

\* The faucet never falls below the least claim times the claims a balance has to last for,
\* but for one share a payment, for every number of visitors and workers, any coins and any
\* order of requests, payments, deposits and blocks.
THEOREM ReserveIsKept == Spec => []ReserveKept
<1>1. Work /\ Reserve /\ LeastClaims => ReserveKept
  <2> SUFFICES ASSUME Work, Reserve, LeastClaims,
                      cfg.max_amount_per_day, cfg.min_claim_enabled, Paid # {}, ~blind
               PROVE  LeastExpected.d * (confirmed + change + Cardinality(Paid) * Fee)
                        >= cfg.min_claim_sat
                             * (LeastExpected.n - Cardinality(Paid) * LeastExpected.d)
    BY Zenon DEF ReserveKept
  <2>1. PICK r \in Paid : TRUE
    OBVIOUS
  <2> DEFINE a == paid[r]
             m == cfg.min_claim_sat
             d == LeastExpected.d
             w == Wealth
             k == LeastExpected.n - Cardinality(Paid) * d
  <2>2. r \in Requests /\ a > 0 /\ a \in Nat
    BY <2>1 DEF Paid, Work, Typed
  <2>3. d * w >= a * k
    <3>1. Claimed(r, a)
      BY DEF Claimed
    <3>2. Leaves(a)
      <4> HIDE DEF a
      <4> QED
        BY <2>2, <3>1 DEF Reserve
    <3> QED
      BY <3>2 DEF Leaves
  <2>4. a >= m
    BY <2>2 DEF LeastClaims
  <2>5. /\ m \in Nat /\ d \in Nat /\ w \in Nat /\ k \in Int
    <3>1. LeastExpected.n \in Nat /\ d \in Nat /\ Cardinality(Paid) \in Nat /\ w \in Nat
      BY PaidTyped DEF Work
    <3>2. m \in Nat
      BY SettingsTyped DEF Work, Typed
    <3>3. Cardinality(Paid) * d \in Nat
      BY <3>1, ProductNat
    <3> QED
      BY <3>1, <3>2, <3>3
  <2> SUFFICES d * w >= m * k
    BY DEF Wealth
  <2> HIDE DEF a, m, d, w, k
  <2>6. CASE k >= 0
    <3>1. m * k <= a * k
      BY <2>2, <2>4, <2>5, <2>6, TimesKeeps
    <3> QED
      BY <2>2, <2>3, <2>5, <3>1
  <2>7. CASE k < 0
    <3>1. m * (-k) \in Nat /\ d * w \in Nat
      BY <2>5, <2>7, ProductNat
    <3>2. m * k = -(m * (-k))
      BY <2>5
    <3> QED
      BY <3>1, <3>2
  <2> QED
    BY <2>5, <2>6, <2>7
<1> QED
  BY <1>1, WorkHolds, ReserveHolds, LeastClaimsHold, PTL

-----------------------------------------------------------------------------
(* What a price was computed from.                                         *)

LEMMA SameTarget ==
  ASSUME cfg' = cfg, NEW sats, NEW balance, NEW claims, NEW subsidy
  PROVE  TargetSeconds(sats, balance, claims, subsidy)'
           = TargetSeconds(sats, balance, claims, subsidy)
  BY DEF TargetSeconds

LEMMA SamePriced ==
  ASSUME cfg' = cfg, NEW t, Priced(t) PROVE Priced(t)'
<1>1. \A subsidy : PricedFrom(t, subsidy)' <=> PricedFrom(t, subsidy)
  BY SameTarget DEF PricedFrom
<1>2. EffectiveTtl(t.seconds)' = EffectiveTtl(t.seconds)
  BY DEF EffectiveTtl
<1>3. ~t.issued => Priced(t)'
  BY DEF Priced
<1>4. t.issued => Priced(t)'
  <2>1. t.issued => t.ttl = EffectiveTtl(t.seconds)'
    BY <1>2 DEF Priced
  <2>2. t.issued /\ cfg.value_pegged /\ ~t.stale
          => \E h \in 0..t.iat : t.iat - h < CacheTtl /\ PricedFrom(t, SubsidyForHeight(h))'
    BY <1>1 DEF Priced
  <2>3. t.issued /\ ~cfg.value_pegged => PricedFrom(t, None)'
    BY <1>1 DEF Priced
  <2>4. t.issued => Sats(t.form) # None
    BY DEF Priced
  <2> QED
    BY <2>1, <2>2, <2>3, <2>4, Zenon DEF Priced, Sats
<1> QED
  BY <1>3, <1>4

LEMMA PricesInit == Init => Prices
  BY DEF Init, Prices, Remembers, Priced, NoToken

\* What a worker answers is the subsidy of a height it read not long ago.
LEMMA SubsidyIsRecent ==
  ASSUME Work, Remembers, NEW subsidy, NEW stale, BlockSubsidy(subsidy, stale), height' = height
  PROVE  /\ Remembers'
         /\ ~stale => \E h \in 0..height : height - h < CacheTtl
                                           /\ subsidy = SubsidyForHeight(h)
<1>1. height \in Nat /\ CacheTtl \in Nat \ {0}
  BY PolicyAssumption DEF Work, Typed
<1>2. \/ /\ cache.at # None /\ height - cache.at < CacheTtl
         /\ subsidy = cache.subsidy /\ cache' = cache
      \/ /\ subsidy = SubsidyForHeight(height)
         /\ cache' = [at |-> height, subsidy |-> subsidy]
      \/ stale = TRUE /\ cache' = cache
  BY Zenon DEF BlockSubsidy
<1>3. CASE /\ cache.at # None /\ height - cache.at < CacheTtl
           /\ subsidy = cache.subsidy /\ cache' = cache
  <2>1. cache.at \in 0..height /\ cache.subsidy = SubsidyForHeight(cache.at)
    BY <1>3 DEF Remembers
  <2>2. Remembers'
    BY <1>3, <2>1 DEF Remembers
  <2> QED
    BY <1>3, <2>1, <2>2
<1>4. CASE /\ subsidy = SubsidyForHeight(height)
           /\ cache' = [at |-> height, subsidy |-> subsidy]
  <2>1. height \in 0..height /\ height - height < CacheTtl
    BY <1>1
  <2>2. cache'.at = height /\ cache'.subsidy = subsidy
    BY <1>4
  <2>3. Remembers'
    BY <1>4, <2>1, <2>2 DEF Remembers
  <2> QED
    BY <1>4, <2>1, <2>3
<1>5. CASE stale = TRUE /\ cache' = cache
  BY <1>5 DEF Remembers
<1> QED
  BY <1>2, <1>3, <1>4, <1>5

LEMMA PricesIssue ==
  ASSUME Work, Prices, NEW r \in Requests, IssueChallenge(r) PROVE Prices'
<1>1. cfg' = cfg /\ height' = height
  BY DEF IssueChallenge
<1>2. PICK subsidy \in {None} \cup 0..InitialSubsidy, stale \in BOOLEAN :
        LET seconds == TargetSeconds(Sats(form[r]), view[r], usage[today], subsidy) IN
        /\ IF cfg.value_pegged THEN BlockSubsidy(subsidy, stale)
           ELSE subsidy = None /\ stale = FALSE /\ UNCHANGED <<cache, errors>>
        /\ IF seconds.n = None
           THEN Leave(r, "new") /\ UNCHANGED token
           ELSE /\ Leave(r, "solving")
                /\ token' = [token EXCEPT ![r] =
                     [issued |-> TRUE, form |-> form[r], seconds |-> seconds,
                      iat |-> height, ttl |-> EffectiveTtl(seconds), stale |-> stale,
                      balance |-> view[r], claims |-> usage[today]]]
  BY Zenon DEF IssueChallenge
<1> DEFINE s == TargetSeconds(Sats(form[r]), view[r], usage[today], subsidy)
           t == [issued |-> TRUE, form |-> form[r], seconds |-> s, iat |-> height,
                 ttl |-> EffectiveTtl(s), stale |-> stale, balance |-> view[r],
                 claims |-> usage[today]]
<1>3. token' = token \/ token' = [token EXCEPT ![r] = t]
  BY <1>2, Zenon
<1>4. \/ cfg.value_pegged /\ BlockSubsidy(subsidy, stale)
      \/ ~cfg.value_pegged /\ subsidy = None /\ cache' = cache
  BY <1>2, Zenon
<1>5. Remembers' /\ (cfg.value_pegged /\ ~stale =>
                      \E h \in 0..height : height - h < CacheTtl
                                           /\ subsidy = SubsidyForHeight(h))
  <2>1. CASE cfg.value_pegged /\ BlockSubsidy(subsidy, stale)
    BY <1>1, <2>1, SubsidyIsRecent DEF Prices
  <2>2. CASE ~cfg.value_pegged /\ subsidy = None /\ cache' = cache
    BY <1>1, <2>2 DEF Prices, Remembers
  <2> QED
    BY <1>4, <2>1, <2>2
<1>6. Priced(t)
  <2>1. /\ t.iat = height /\ t.stale = stale /\ t.ttl = EffectiveTtl(t.seconds)
        /\ t.seconds = s /\ t.balance = view[r] /\ t.claims = usage[today]
        /\ t.form = form[r]
    BY Zenon
  <2>2. PricedFrom(t, subsidy)
    BY <2>1, Zenon DEF PricedFrom
  <2>5. Sats(t.form) # None
    BY <2>1 DEF IssueChallenge, Work, Bound
  <2> HIDE DEF t, s
  <2>3. cfg.value_pegged /\ ~t.stale
          => \E h \in 0..t.iat : t.iat - h < CacheTtl /\ PricedFrom(t, SubsidyForHeight(h))
    BY <1>5, <2>1, <2>2
  <2>4. ~cfg.value_pegged => PricedFrom(t, None)
    BY <1>4, <2>2
  <2> QED
    BY <2>1, <2>3, <2>4, <2>5 DEF Priced
<1>7. ASSUME NEW q \in Requests PROVE Priced(token[q])'
  <2>1. token \in [Requests -> Tokens \cup {NoToken}]
    BY DEF Work, Typed
  <2> HIDE DEF t
  <2>2. token'[q] = token[q] \/ token'[q] = t
    <3>1. CASE token' = token
      BY <3>1
    <3>2. CASE token' = [token EXCEPT ![r] = t]
      BY <2>1, <3>2
    <3> QED
      BY <1>3, <3>1, <3>2
  <2>3. PICK u : u = token'[q]
    OBVIOUS
  <2>4. Priced(u)
    BY <1>6, <2>2, <2>3 DEF Prices
  <2>5. Priced(u)'
    BY <1>1, <2>4, SamePriced
  <2> QED
    BY <2>3, <2>5 DEF Priced, PricedFrom
<1> QED
  BY <1>5, <1>7 DEF Prices

LEMMA PricesNext == ASSUME Work, Prices, [Next]_vars PROVE Prices'
<1>1. CASE \E r \in Requests : IssueChallenge(r)
  BY <1>1, PricesIssue
<1>2. CASE ~\E r \in Requests : IssueChallenge(r)
  <2>1. UNCHANGED <<cfg, cache, token>>
    BY <1>2 DEF Next, Serve, vars, AskChallenge, Post, Approve, Refuse, Spend, Record, Fails,
            Pay, Deposit, Block
  <2>2. height' \in {height, height + 1}
    BY <1>2 DEF Next, Serve, vars, AskChallenge, Post, Approve, Refuse, Spend, Record, Fails,
            Pay, Deposit, Block
  <2>3. height \in Nat
    BY PolicyAssumption DEF Work, Typed
  <2>4. Remembers'
    BY <2>1, <2>2, <2>3 DEF Prices, Remembers
  <2>5. ASSUME NEW q \in Requests PROVE Priced(token[q])'
    <3>1. PICK u : u = token[q]
      OBVIOUS
    <3>2. Priced(u)'
      BY <2>1, <3>1, SamePriced DEF Prices
    <3> QED
      BY <2>1, <3>1, <3>2 DEF Priced, PricedFrom
  <2> QED
    BY <2>4, <2>5 DEF Prices
<1> QED
  BY <1>1, <1>2

\* Every price is the one its balance, its claims and a recent subsidy give.
THEOREM PricesHold == Spec => []Prices
<1>1. Work /\ [Next]_vars /\ Prices => Prices'
  BY PricesNext
<1> QED
  BY <1>1, PricesInit, WorkHolds, PTL DEF Spec

-----------------------------------------------------------------------------
(* A smaller balance and a busier day never make work cheaper.             *)

LEMMA AnchorKeeps ==
  ASSUME cfg \in Settings, NEW b \in Nat, NEW c \in Nat, b <= c
  PROVE  Leq(Anchor(c), Anchor(b))
<1>1. CASE cfg.balance_anchor
  <2> DEFINE x == Fraction(b)
             y == Fraction(c)
             m == cfg.balance_max_mult - 1
             n1 == x.n
             d1 == x.d
             n2 == y.n
             d2 == y.d
  <2>1. x \in Ratios /\ y \in Ratios /\ m \in Nat
    BY FractionTyped, SettingsTyped
  <2>2. Leq(x, y)
    <3> DEFINE f == cfg.balance_full_sat
    <3>1. f \in Nat \ {0}
      BY SettingsTyped
    <3>2. Ratio(b, f) \in Ratios /\ Ratio(c, f) \in Ratios /\ Whole(0) \in Ratios
          /\ Whole(1) \in Ratios
      BY <3>1, RatioTyped
    <3>3. b * f <= c * f
      <4> HIDE DEF f
      <4> QED
        BY <3>1, TimesKeeps
    <3>4. Leq(Ratio(b, f), Ratio(c, f))
      BY <3>3 DEF Leq, Ratio
    <3> QED
      BY <3>2, <3>4, ClampKeeps DEF Fraction
  <2>3. Anchor(b) = Ratio(d1 + m * (d1 - n1), d1) /\ Anchor(c) = Ratio(d2 + m * (d2 - n2), d2)
    <3>1. b # None /\ c # None
      BY DEF None
    <3> QED
      BY <1>1, <3>1, Zenon DEF Anchor
  <2>4. n1 \in Nat /\ d1 \in Nat /\ n2 \in Nat /\ d2 \in Nat /\ n1 * d2 <= n2 * d1
    BY <2>1, <2>2 DEF Ratios, Leq
  <2> HIDE DEF m, n1, d1, n2, d2, x, y
  <2>5. n1 * d2 \in Int /\ n2 * d1 \in Int
    BY <2>4
  <2>6. (n1 * d2) * m <= (n2 * d1) * m
    BY <2>1, <2>4, <2>5, TimesKeeps
  <2>7. (d2 + m * (d2 - n2)) * d1 = d2 * d1 + m * (d2 * d1) - (n2 * d1) * m
        /\ (d1 + m * (d1 - n1)) * d2 = d2 * d1 + m * (d2 * d1) - (n1 * d2) * m
    BY <2>1, <2>4
  <2>8. m * (d2 * d1) \in Int /\ d2 * d1 \in Int /\ (n1 * d2) * m \in Int
        /\ (n2 * d1) * m \in Int
    BY <2>1, <2>4
  <2>9. (d2 + m * (d2 - n2)) * d1 <= (d1 + m * (d1 - n1)) * d2
    BY <2>6, <2>7, <2>8
  <2> QED
    BY <2>3, <2>9 DEF Leq, Ratio
<1>2. CASE ~cfg.balance_anchor
  <2>1. Anchor(b) = Whole(1) /\ Anchor(c) = Whole(1)
    BY <1>2 DEF Anchor
  <2> QED
    BY <2>1, RatioTyped, LeqTotal
<1> QED
  BY <1>1, <1>2

LEMMA DemandKeeps ==
  ASSUME cfg \in Settings, NEW b \in Nat, NEW c \in Nat, b <= c
  PROVE  Leq(Demand(b), Demand(c))
<1>1. CASE cfg.demand_retarget
  <2> DEFINE f == cfg.demand_target_per_day
  <2>1. f \in Nat \ {0}
    BY SettingsTyped
  <2>2. Ratio(b, f) \in Ratios /\ Ratio(c, f) \in Ratios /\ Whole(1) \in Ratios
        /\ Whole(cfg.demand_max_mult) \in Ratios
    BY <2>1, SettingsTyped, RatioTyped
  <2>3. b * f <= c * f
    <3> HIDE DEF f
    <3> QED
      BY <2>1, TimesKeeps
  <2>4. Leq(Ratio(b, f), Ratio(c, f))
    BY <2>3 DEF Leq, Ratio
  <2> QED
    BY <1>1, <2>2, <2>4, ClampKeeps DEF Demand
<1>2. CASE ~cfg.demand_retarget
  <2>1. Demand(b) = Whole(1) /\ Demand(c) = Whole(1)
    BY <1>2 DEF Demand
  <2> QED
    BY <2>1, RatioTyped, LeqTotal
<1> QED
  BY <1>1, <1>2

\* The price of an amount falls with the balance and rises with the day's claims.
LEMMA FlatKeeps ==
  ASSUME cfg \in Settings, NEW sats \in Nat, NEW b \in Nat, NEW c \in Nat, b <= c,
         NEW k \in Nat, NEW l \in Nat, k <= l
  PROVE  Leq(FlatPrice(sats, c, k), FlatPrice(sats, b, l))
<1> DEFINE base == Base(sats)
           x == Times(Times(base, Anchor(c)), Demand(k))
           y == Times(Times(base, Anchor(b)), Demand(k))
           z == Times(Times(base, Anchor(b)), Demand(l))
<1>1. base \in Ratios /\ Anchor(b) \in Ratios /\ Anchor(c) \in Ratios
      /\ Demand(k) \in Ratios /\ Demand(l) \in Ratios
  BY BaseTyped, AnchorTyped, DemandTyped DEF Known
<1>2. Times(base, Anchor(b)) \in Ratios /\ Times(base, Anchor(c)) \in Ratios
  BY <1>1, TimesTyped
<1>3. x \in Ratios /\ y \in Ratios /\ z \in Ratios
  BY <1>1, <1>2, TimesTyped
<1>4. Leq(Times(base, Anchor(c)), Times(base, Anchor(b)))
  BY <1>1, AnchorKeeps, TimesOrdered
<1>5. Leq(x, y)
  BY <1>1, <1>2, <1>4, TimesOrdered
<1>6. Leq(y, z)
  BY <1>1, <1>2, DemandKeeps, TimesOrdered
<1>7. Leq(x, z)
  <2> HIDE DEF x, y, z
  <2> QED
    BY <1>3, <1>5, <1>6, LeqTrans
<1>8. Whole(cfg.min_seconds) \in Ratios /\ Whole(cfg.max_seconds) \in Ratios
  BY SettingsTyped, RatioTyped
<1>9. FlatPrice(sats, c, k) = _clamp(x, Whole(cfg.min_seconds), Whole(cfg.max_seconds))
      /\ FlatPrice(sats, b, l) = _clamp(z, Whole(cfg.min_seconds), Whole(cfg.max_seconds))
  BY DEF FlatPrice
<1> HIDE DEF x, z
<1> QED
  BY <1>3, <1>7, <1>8, <1>9, ClampKeeps

\* Of two challenges for one amount, the one issued on the smaller balance and after more
\* claims that day is not the cheaper one, for every setting, amount, balance and count.
THEOREM ScarcityHardens == Spec => []ScarcityNeverCheapens
<1>1. Work /\ Prices => ScarcityNeverCheapens
  <2> SUFFICES ASSUME Work, Prices, NEW r \in Requests, NEW q \in Requests,
                      token[r].issued, token[q].issued, ~cfg.value_pegged,
                      Sats(token[r].form) = Sats(token[q].form),
                      None \notin {token[r].balance, token[q].balance},
                      token[r].balance <= token[q].balance,
                      token[r].claims >= token[q].claims
               PROVE  Leq(token[q].seconds, token[r].seconds)
    BY Zenon DEF ScarcityNeverCheapens
  <2> DEFINE t == token[r]
             u == token[q]
  <2>1. t \in Tokens /\ u \in Tokens /\ cfg \in Settings
    <3>1. ~NoToken.issued
      BY DEF NoToken
    <3>2. t \in Tokens \cup {NoToken} /\ u \in Tokens \cup {NoToken} /\ cfg \in Settings
      BY DEF Work, Typed
    <3> QED
      BY <3>1, <3>2
  <2>2. PricedFrom(t, None) /\ PricedFrom(u, None)
    BY DEF Prices, Priced
  <2> DEFINE sats == Sats(t.form)
  <2>3. t.seconds = FlatPrice(sats, t.balance, t.claims)
        /\ u.seconds = FlatPrice(sats, u.balance, u.claims)
    BY <2>2, TargetIs DEF PricedFrom
  <2>4. t.balance \in Nat /\ u.balance \in Nat /\ t.claims \in Nat /\ u.claims \in Nat
    BY <2>1 DEF Tokens, Known
  <2>5. sats \in Nat
    <3>1. t.form \in Forms \cup {NoForm}
      BY <2>1 DEF Tokens
    <3>2. sats # None
      BY DEF Prices, Priced
    <3> QED
      BY <3>1, <3>2, SatsTyped
  <2> HIDE DEF sats
  <2> QED
    BY <2>1, <2>3, <2>4, <2>5, FlatKeeps
<1> QED
  BY <1>1, WorkHolds, PricesHold, PTL

-----------------------------------------------------------------------------
(* The subsidy.  Halved is a recursive function, so that there is one must *)
(* be proved first: its first n values exist for every n, and any two such *)
(* beginnings agree.                                                       *)

Step(g, k) == IF k = 0 THEN InitialSubsidy ELSE g[k - 1] \div 2
Begins(g, n) == g = [k \in 0..n |-> Step(g, k)]

LEMMA BeginsExist == ASSUME NEW n \in Nat PROVE \E g : Begins(g, n)
<1> DEFINE T == {m \in Nat : \E g : Begins(g, m)}
<1>1. 0 \in T
  <2> DEFINE g == [k \in 0..0 |-> InitialSubsidy]
  <2>1. \A k \in 0..0 : Step(g, k) = InitialSubsidy
    BY DEF Step
  <2>2. g = [k \in 0..0 |-> Step(g, k)]
    BY <2>1
  <2>3. Begins(g, 0)
    BY <2>2, Zenon DEF Begins
  <2> QED
    BY <2>3
<1>2. ASSUME NEW m \in Nat, m \in T PROVE m + 1 \in T
  <2>1. PICK g : Begins(g, m)
    BY <1>2
  <2> DEFINE h == [k \in 0..(m + 1) |-> IF k <= m THEN g[k] ELSE g[m] \div 2]
  <2>2. ASSUME NEW k \in 0..(m + 1) PROVE h[k] = Step(h, k)
    <3>1. CASE k = 0
      <4>1. h[0] = g[0] /\ g[0] = Step(g, 0)
        BY <2>1 DEF Begins
      <4> HIDE DEF h
      <4> QED
        BY <3>1, <4>1 DEF Step
    <3>2. CASE k # 0 /\ k <= m
      <4>1. k \in 0..m /\ k - 1 \in 0..(m + 1) /\ k - 1 <= m
        BY <3>2
      <4>2. h[k] = g[k] /\ h[k - 1] = g[k - 1]
        BY <3>2, <4>1
      <4>3. g[k] = Step(g, k)
        BY <2>1, <4>1 DEF Begins
      <4> HIDE DEF h
      <4> QED
        BY <3>2, <4>2, <4>3 DEF Step
    <3>3. CASE k = m + 1
      <4>1. h[m + 1] = g[m] \div 2 /\ h[m] = g[m]
        OBVIOUS
      <4> HIDE DEF h
      <4>2. k # 0 /\ k - 1 = m
        BY <3>3
      <4> QED
        BY <3>3, <4>1, <4>2 DEF Step
    <3> QED
      BY <3>1, <3>2, <3>3
  <2>3. h = [k \in 0..(m + 1) |-> Step(h, k)]
    <3>1. h = [k \in 0..(m + 1) |-> h[k]]
      OBVIOUS
    <3> HIDE DEF h
    <3> QED
      BY <2>2, <3>1
  <2>4. Begins(h, m + 1)
    <3> HIDE DEF h
    <3> QED
      BY <2>3, Zenon DEF Begins
  <2> QED
    BY <2>4
<1>3. Nat \subseteq T
  <2> HIDE DEF T
  <2> QED
    BY <1>1, <1>2, NatSetInduction
<1> QED
  BY <1>3

LEMMA BeginsAgree ==
  ASSUME NEW n \in Nat, NEW m \in Nat, NEW g, NEW h, Begins(g, n), Begins(h, m),
         NEW k \in Nat, k <= n, k <= m
  PROVE  g[k] = h[k]
<1> DEFINE T == {i \in Nat : i <= n /\ i <= m => g[i] = h[i]}
<1>1. \A i \in Nat : (i <= n => g[i] = Step(g, i)) /\ (i <= m => h[i] = Step(h, i))
  <2>1. ASSUME NEW i \in Nat, i <= n PROVE g[i] = Step(g, i)
    <3>1. i \in 0..n
      BY <2>1
    <3> QED
      BY <3>1 DEF Begins
  <2>2. ASSUME NEW i \in Nat, i <= m PROVE h[i] = Step(h, i)
    <3>1. i \in 0..m
      BY <2>2
    <3> QED
      BY <3>1 DEF Begins
  <2> QED
    BY <2>1, <2>2
<1>2. 0 \in T
  BY <1>1 DEF Step
<1>3. ASSUME NEW i \in Nat, i \in T PROVE i + 1 \in T
  <2> SUFFICES ASSUME i + 1 <= n, i + 1 <= m PROVE g[i + 1] = h[i + 1]
    OBVIOUS
  <2>1. i <= n /\ i <= m /\ i + 1 \in Nat /\ i + 1 # 0 /\ (i + 1) - 1 = i
    OBVIOUS
  <2>2. g[i] = h[i]
    BY <1>3, <2>1
  <2>3. g[i + 1] = Step(g, i + 1) /\ h[i + 1] = Step(h, i + 1)
    BY <1>1, <2>1
  <2> QED
    BY <2>1, <2>2, <2>3 DEF Step
<1>4. Nat \subseteq T
  <2> HIDE DEF T
  <2> QED
    BY <1>2, <1>3, NatSetInduction
<1> QED
  BY <1>4

LEMMA HalvedIs == \A n \in Nat : Halved[n] = Step(Halved, n)
<1> DEFINE G(n) == CHOOSE g : Begins(g, n)
           F == [n \in Nat |-> G(n)[n]]
<1>1. \A n \in Nat : Begins(G(n), n)
  BY BeginsExist
<1>2. ASSUME NEW n \in Nat PROVE F[n] = Step(F, n)
  <2>1. G(n)[n] = Step(G(n), n)
    <3>1. n \in 0..n /\ Begins(G(n), n)
      BY <1>1
    <3> HIDE DEF G
    <3> QED
      BY <3>1 DEF Begins
  <2>2. CASE n = 0
    BY <2>1, <2>2 DEF Step
  <2>3. CASE n # 0
    <3>1. n - 1 \in Nat /\ n - 1 <= n
      BY <2>3
    <3>2. Begins(G(n), n) /\ Begins(G(n - 1), n - 1)
      BY <1>1, <3>1
    <3>3. G(n)[n - 1] = G(n - 1)[n - 1]
      <4> HIDE DEF G
      <4> QED
        BY <3>1, <3>2, BeginsAgree
    <3>4. F[n] = G(n)[n] /\ F[n - 1] = G(n - 1)[n - 1]
      BY <3>1
    <3> HIDE DEF F, G
    <3> QED
      BY <2>1, <2>3, <3>3, <3>4 DEF Step
  <2> QED
    BY <2>2, <2>3
<1>3. F = [n \in Nat |-> Step(F, n)]
  <2>1. F = [n \in Nat |-> F[n]]
    OBVIOUS
  <2> HIDE DEF F
  <2> QED
    BY <1>2, <2>1
<1>4. \E f : f = [n \in Nat |-> IF n = 0 THEN InitialSubsidy ELSE f[n - 1] \div 2]
  <2> HIDE DEF F
  <2> QED
    BY <1>3 DEF Step
<1>5. Halved = [n \in Nat |-> IF n = 0 THEN InitialSubsidy ELSE Halved[n - 1] \div 2]
  BY <1>4 DEF Halved
<1> QED
  BY <1>5 DEF Step

\* The subsidy after one more halving.
LEMMA HalvedTyped ==
  ASSUME NEW n \in Nat
  PROVE  Halved[n] \in Nat /\ Halved[n + 1] = Halved[n] \div 2
<1> DEFINE T == {m \in Nat : Halved[m] \in Nat}
<1>1. \A m \in Nat : Halved[m + 1] = Halved[m] \div 2
  <2> SUFFICES ASSUME NEW m \in Nat PROVE Halved[m + 1] = Halved[m] \div 2
    OBVIOUS
  <2>1. m + 1 \in Nat /\ m + 1 # 0 /\ (m + 1) - 1 = m
    OBVIOUS
  <2>2. Halved[m + 1] = Step(Halved, m + 1)
    BY <2>1, HalvedIs
  <2> QED
    BY <2>1, <2>2 DEF Step
<1>2. 0 \in T
  <2>1. Halved[0] = InitialSubsidy
    BY HalvedIs DEF Step
  <2> QED
    BY <2>1, PolicyAssumption
<1>3. ASSUME NEW m \in Nat, m \in T PROVE m + 1 \in T
  <2>1. Halved[m] \in Nat
    BY <1>3
  <2>2. Halved[m] \div 2 \in Nat
    BY <2>1, DivBounds
  <2> QED
    BY <1>1, <2>2
<1>4. Nat \subseteq T
  <2> HIDE DEF T
  <2> QED
    BY <1>2, <1>3, NatSetInduction
<1> QED
  BY <1>1, <1>4

\* Within one halving's length the subsidy loses one bit at most.
LEMMA OneHalving ==
  ASSUME NEW h \in Nat, NEW k \in Nat, h <= k, k - h <= HalvingInterval
  PROVE  /\ SubsidyForHeight(h) \in Nat /\ SubsidyForHeight(k) \in Nat
         /\ SubsidyForHeight(h) <= 2 * SubsidyForHeight(k) + 1
<1> DEFINE x == h \div HalvingInterval
           y == k \div HalvingInterval
           i == HalvingInterval
<1>1. i \in Nat \ {0}
  BY PolicyAssumption
<1>2. x \in Nat /\ y \in Nat /\ h < i * x + i /\ i * y <= k
  BY <1>1, DivBounds
<1>3. x <= y
  BY <1>1, DivMonotone
<1>4. SubsidyForHeight(h) = Halved[x] /\ SubsidyForHeight(k) = Halved[y]
  BY DEF SubsidyForHeight
<1>5. k <= h + i
  BY <1>1
<1> HIDE DEF x, y, i
<1>6. y < x + 2
  <2> SUFFICES ASSUME y >= x + 2 PROVE FALSE
    BY <1>2
  <2>1. (x + 2) * i <= y * i
    BY <1>1, <1>2, TimesKeeps
  <2>2. (x + 2) * i = i * x + i + i /\ y * i = i * y
    BY <1>1, <1>2
  <2>3. i * x \in Int /\ i * y \in Int
    BY <1>1, <1>2
  <2> QED
    BY <1>1, <1>2, <1>5, <2>1, <2>2, <2>3
<1>7. y = x \/ y = x + 1
  BY <1>2, <1>3, <1>6
<1>8. Halved[x] \in Nat /\ Halved[y] \in Nat /\ Halved[x + 1] = Halved[x] \div 2
  BY <1>2, HalvedTyped
<1>9. Halved[x] <= 2 * Halved[y] + 1
  <2>1. CASE y = x
    BY <1>8, <2>1
  <2>2. CASE y = x + 1
    <3> DEFINE s == Halved[x]
    <3>1. s \in Nat /\ Halved[y] = s \div 2
      BY <1>8, <2>2
    <3> HIDE DEF s
    <3>2. s < 2 * (s \div 2) + 2 /\ s \div 2 \in Nat
      BY <3>1, DivBounds
    <3>3. s <= 2 * Halved[y] + 1
      BY <3>1, <3>2
    <3> QED
      BY <3>3 DEF s
  <2> QED
    BY <1>7, <2>1, <2>2
<1> QED
  BY <1>4, <1>8, <1>9

-----------------------------------------------------------------------------
(* Claiming never gets cheaper than mining.                                *)

\* A price below the cap is the worth of the amount at least.
LEMMA PeggedWorth ==
  ASSUME cfg \in Settings, NEW sats \in Nat, NEW subsidy \in Nat \ {0},
         NEW x \in Ratios, x = PeggedPrice(sats, subsidy),
         ~Leq(Whole(cfg.value_cap_seconds), x)
  PROVE  Leq(Ratio(cfg.value_safety_factor * sats, subsidy), x)
<1> DEFINE worth == Ratio(cfg.value_safety_factor * sats, subsidy)
           cap == Whole(cfg.value_cap_seconds)
           low == Whole(cfg.min_seconds)
           some == Least(worth, cap)
           least == Least(cap, some)
<1>1. worth \in Ratios /\ cap \in Ratios /\ low \in Ratios
  BY SettingsTyped, ProductNat, RatioTyped
<1>2. some \in Ratios /\ least \in Ratios /\ some \in {worth, cap} /\ least \in {cap, some}
  <2> HIDE DEF worth, cap
  <2>1. some \in Ratios /\ some \in {worth, cap}
    BY <1>1, BetweenTyped, BetweenIs
  <2> HIDE DEF some
  <2> QED
    BY <1>1, <2>1, BetweenTyped, BetweenIs
<1>3. x = Greatest(low, least)
  BY Zenon DEF PeggedPrice, _clamp
<1> HIDE DEF worth, cap, low, some, least
<1>4. Leq(least, x)
  BY <1>1, <1>2, <1>3, BetweenIs
<1>5. least # cap
  BY <1>4 DEF cap
<1>6. least = worth
  BY <1>2, <1>5
<1> QED
  BY <1>4, <1>6 DEF worth

\* A challenge below the cap lives for ttl_seconds, or for twice the cap at most.
LEMMA LifeBelowCap ==
  ASSUME cfg \in Settings, NEW x \in Ratios, ~Leq(Whole(cfg.value_cap_seconds), x)
  PROVE  EffectiveTtl(x) <= cfg.ttl_seconds \/ EffectiveTtl(x) <= 2 * cfg.value_cap_seconds
<1> DEFINE n == x.n
           d == x.d
           c == cfg.value_cap_seconds
           e == Ceiling(Times(Whole(2), x))
<1>1. n \in Nat /\ d \in Nat \ {0} /\ c \in Nat
  BY SettingsTyped DEF Ratios
<1>2. n < c * d
  <2>1. ~(c * d <= n * 1)
    BY DEF Leq, Whole, Ratio
  <2> HIDE DEF n, d, c
  <2>2. c * d \in Int
    BY <1>1
  <2> QED
    BY <1>1, <2>1, <2>2
<1>3. e = (2 * n + 1 * d - 1) \div (1 * d)
  BY DEF Ceiling, Times, Whole, Ratio
<1>4. e <= 2 * c
  <2> DEFINE a == 2 * n + d - 1
             q == a \div d
  <2> HIDE DEF n, d, c, e
  <2>1. a \in Nat
    BY <1>1
  <2>2. e = q
    <3>1. 1 * d = d /\ 2 * n + 1 * d - 1 = a
      BY <1>1
    <3> QED
      BY <1>3, <3>1
  <2>3. q \in Nat /\ d * q <= a
    BY <1>1, <2>1, DivBounds
  <2>4. d * q < (2 * c) * d + d
    <3>1. c * d \in Int /\ d * q \in Int /\ (2 * c) * d = c * d + c * d
      <4> HIDE DEF q
      <4> QED
        BY <1>1, <2>3
    <3>2. a < c * d + c * d + d
      BY <1>1, <1>2, <3>1
    <3> HIDE DEF q, a
    <3> QED
      BY <1>1, <2>1, <2>3, <3>1, <3>2
  <2>5. q <= 2 * c
    <3> HIDE DEF q, a
    <3> SUFFICES ASSUME q >= 2 * c + 1 PROVE FALSE
      BY <1>1, <2>3
    <3>1. (2 * c + 1) * d <= q * d
      BY <1>1, <2>3, TimesKeeps
    <3>2. (2 * c + 1) * d = (2 * c) * d + d /\ q * d = d * q /\ (2 * c) * d \in Int
          /\ d * q \in Int
      BY <1>1, <2>3
    <3> QED
      BY <1>1, <2>4, <3>1, <3>2
  <2> QED
    BY <2>2, <2>5
<1>5. EffectiveTtl(x) = IF cfg.ttl_seconds >= e THEN cfg.ttl_seconds ELSE e
  BY TtlTyped
<1>6. cfg.ttl_seconds \in Nat
  BY SettingsTyped
<1> HIDE DEF e, c, n, d
<1> QED
  BY <1>4, <1>5, <1>6 DEF c

\* A price from a recent subsidy is at least the worth of the amount at half the safety
\* factor and the subsidy of any later time in the challenge's life.
LEMMA WorthLater ==
  ASSUME NEW f \in Nat, NEW s \in Nat \ {0}, NEW k \in Nat, s <= 2 * k + 1, NEW x \in Ratios,
         Leq(Ratio(f, s), x)
  PROVE  Leq(Ratio(f, 2 * k + 1), x)
<1>1. Ratio(f, s) \in Ratios /\ Ratio(f, 2 * k + 1) \in Ratios
  BY RatioTyped
<1>2. s * f <= (2 * k + 1) * f
  BY TimesKeeps
<1>3. f * s <= f * (2 * k + 1)
  BY <1>2
<1>4. Leq(Ratio(f, 2 * k + 1), Ratio(f, s))
  BY <1>3 DEF Leq, Ratio
<1> QED
  BY <1>1, <1>4, LeqTrans

\* On a value-pegged network the work behind a payout is worth half the safety factor of
\* the subsidy at the time it is redeemed, but for the rounding, whatever the caches
\* remember and however long the visitor took, unless the price is at the cap or was
\* computed from a subsidy the explorer could not refresh.
THEOREM MiningIsCovered == Spec => []PriceCoversMining
<1>1. Work /\ Prices => PriceCoversMining
  <2> SUFFICES ASSUME Work, Prices, NEW r \in Paid, cfg.value_pegged, token[r].issued,
                      ~token[r].stale,
                      ~Leq(Whole(cfg.value_cap_seconds), token[r].seconds)
               PROVE  Leq(Ratio(cfg.value_safety_factor * paid[r],
                                2 * SubsidyForHeight(okAt[r]) + 1),
                          token[r].seconds)
    BY Zenon DEF PriceCoversMining
  <2> DEFINE t == token[r]
             sats == Sats(t.form)
             x == t.seconds
             k == okAt[r]
  <2>1. r \in Requests /\ paid[r] > 0 /\ paid[r] \in Nat
    BY DEF Paid, Work, Typed
  <2>2. t \in Tokens /\ cfg \in Settings
    <3>1. ~NoToken.issued
      BY DEF NoToken
    <3>2. t \in Tokens \cup {NoToken} /\ cfg \in Settings
      BY <2>1 DEF Work, Typed
    <3> QED
      BY <3>1, <3>2
  <2>3. x \in Ratios /\ t.iat \in Nat /\ t.ttl \in Nat /\ t.form \in Forms
        /\ t.balance \in Known /\ t.claims \in Nat
    BY <2>2 DEF Tokens
  <2>4. r \in spent /\ paid[r] = sats
    BY <2>1 DEF Work, OnePayout
  <2>5. k \in t.iat..(t.iat + t.ttl)
    BY <2>1, <2>4 DEF Work, Bound, InLife
  <2>6. sats \in Nat
    BY <2>1, <2>4
  <2>7. PICK h \in 0..t.iat : t.iat - h < CacheTtl /\ PricedFrom(t, SubsidyForHeight(h))
    BY <2>1 DEF Prices, Priced
  <2>8. t.ttl = EffectiveTtl(x)
    BY <2>1 DEF Prices, Priced
  <2> DEFINE s == SubsidyForHeight(h)
  <2>9. x = TargetSeconds(sats, t.balance, t.claims, s)
    BY <2>7, Zenon DEF PricedFrom
  <2>10. h \in Nat /\ k \in Nat /\ h <= k /\ k - h <= HalvingInterval
    <3>1. t.ttl <= cfg.ttl_seconds \/ t.ttl <= 2 * cfg.value_cap_seconds
      BY <2>2, <2>3, <2>8, LifeBelowCap
    <3>2. CacheTtl - 1 + cfg.ttl_seconds <= HalvingInterval
          /\ CacheTtl - 1 + 2 * cfg.value_cap_seconds <= HalvingInterval
      BY <2>2, HalvingAssumption
    <3>3. cfg.ttl_seconds \in Nat /\ cfg.value_cap_seconds \in Nat /\ CacheTtl \in Nat
          /\ HalvingInterval \in Nat
      BY <2>2, SettingsTyped, PolicyAssumption
    <3> DEFINE iat == t.iat
               ttl == t.ttl
    <3>4. iat \in Nat /\ ttl \in Nat /\ h \in 0..iat /\ k \in iat..(iat + ttl)
          /\ iat - h < CacheTtl
      BY <2>3, <2>5, <2>7
    <3> HIDE DEF iat, k
    <3>5. h \in Nat /\ k \in Nat /\ h <= k /\ k - h <= CacheTtl - 1 + ttl
      <4> HIDE DEF ttl
      <4> QED
        BY <3>3, <3>4
    <3> DEFINE a == cfg.ttl_seconds
               b == 2 * cfg.value_cap_seconds
    <3>6. /\ a \in Nat /\ b \in Nat
          /\ ttl <= a \/ ttl <= b
          /\ CacheTtl - 1 + a <= HalvingInterval /\ CacheTtl - 1 + b <= HalvingInterval
      BY <3>1, <3>2, <3>3
    <3>7. ttl \in Nat /\ k \in Nat
      BY <3>4, <3>5
    <3> HIDE DEF a, b, ttl
    <3> QED
      BY <3>3, <3>5, <3>6, <3>7
  <2>11. /\ s \in Nat /\ SubsidyForHeight(k) \in Nat /\ s <= 2 * SubsidyForHeight(k) + 1
    <3> HIDE DEF k, x, t
    <3> QED
      BY <2>10, OneHalving
  <2> HIDE DEF s
  <2>12. s \in Nat \ {0}
    <3>1. x.n # None
      BY <2>3 DEF Ratios, None
    <3>2. s \in {None} \cup Nat
      BY <2>11
    <3> HIDE DEF t, sats, x
    <3>3. TargetSeconds(sats, t.balance, t.claims, s).n # None
      BY <2>9, <3>1
    <3> QED
      BY <2>2, <2>3, <2>6, <3>2, <3>3, TargetTyped
  <2>13. x = PeggedPrice(sats, s)
    <3>1. s \notin {None, 0}
      BY <2>12 DEF None
    <3> HIDE DEF t, sats, x
    <3> QED
      BY <2>9, <3>1, TargetIs
  <2>14. Leq(Ratio(cfg.value_safety_factor * sats, s), x)
    <3>1. ~Leq(Whole(cfg.value_cap_seconds), x)
      OBVIOUS
    <3> HIDE DEF t, sats, x
    <3> QED
      BY <2>2, <2>3, <2>6, <2>12, <2>13, <3>1, PeggedWorth
  <2>15. cfg.value_safety_factor * sats \in Nat
    <3> HIDE DEF sats
    <3> QED
      BY <2>2, <2>6, SettingsTyped, ProductNat
  <2>16. Leq(Ratio(cfg.value_safety_factor * sats, 2 * SubsidyForHeight(k) + 1), x)
    <3> HIDE DEF t, sats, x, k
    <3> QED
      BY <2>3, <2>11, <2>12, <2>14, <2>15, WorthLater
  <2> QED
    BY <2>4, <2>16
<1> QED
  BY <1>1, WorkHolds, PricesHold, PTL
=============================================================================
