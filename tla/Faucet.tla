------------------------------- MODULE Faucet -------------------------------
(***************************************************************************)
(* The faucet of one network: argus/faucet/app.py over argus/faucet/       *)
(* store.py.  Several gunicorn workers, each serving one request at a      *)
(* time, share one SQLite database whose statements commit one by one; a   *)
(* request is therefore a sequence of steps between which other requests,  *)
(* the clock and the daily purge may run.  The LND wallet that pays is     *)
(* external and may pay after the faucet has stopped waiting for it.       *)
(*                                                                         *)
(* Left out: the amount rules (FaucetPolicy.tla; Refuse is a free choice), *)
(* the pages' contents and the payout log, which no rule reads (a failure  *)
(* to write it is a Die).  Rows of different networks never meet: every    *)
(* table but Maintenance is keyed by the network, so one network is        *)
(* enough.                                                                 *)
(***************************************************************************)
EXTENDS Integers, FiniteSets

CONSTANTS
  Requests,      \* the POSTs visitors make; each is made at most once
  NumWorkers,    \* gunicorn -w: requests in progress at the same time
  Ips,           \* salted IP hashes
  NoIp,          \* the visitor's IP is unknown: ip_hash is None
  Nonces,        \* challenges the faucet may issue, named by their nonce
  NoNonce,       \* the request carries no proof of work
  DaySeconds,    \* DAY_SECONDS, in ticks of the model's clock
  Ttl,           \* life of a challenge, in ticks
  MaxPerDay,     \* pow_max_per_day, 0 for unlimited
  OnePerDay,     \* config one_per_ip_per_day
  RetentionDays, \* USAGE_RETENTION_DAYS
  RequestLife,   \* gunicorn --timeout: a worker busy for longer is killed
  MaxClock       \* bound of the model: the clock stops here

ASSUME FaucetAssumption ==
  /\ NumWorkers \in Nat /\ DaySeconds \in Nat \ {0} /\ Ttl \in Nat
  /\ MaxPerDay \in Nat /\ RetentionDays \in Nat /\ RequestLife \in Nat
  /\ MaxClock \in Nat /\ OnePerDay \in BOOLEAN
  /\ NoIp \notin Ips /\ NoNonce \notin Nonces

VARIABLES
  clock,      \* time.time(), in ticks
  pc,         \* pc[r]: where request r stands in faucet() and _process
  ip, nonce,  \* the visitor and the challenge of a request
  now,        \* the instant faucet() captured for the request
  issuedAt,   \* iat of a challenge, -1 before it is issued
  redeemed,   \* table RedeemedNonce
  ipClaim,    \* table IpClaim: last_claim_at, -1 when there is no row
  powCount,   \* table PowDailyClaim: count, 0 when there is no row
  usage,      \* table DailyUsage: count, 0 when there is no row
  lnd,        \* what the wallet knows of a request's payment
  okAt,       \* history: when the request passed its last gate, or -1
  raced       \* history: IPs that had two requests of one kind open at once

tables == <<redeemed, ipClaim, powCount, usage>>
history == <<okAt, raced>>
request == <<ip, nonce, now>>
vars == <<clock, pc, request, issuedAt, tables, lnd, history>>

Never == -1
DayOf(t) == t \div DaySeconds
Days == {DayOf(t) : t \in 0..MaxClock}
Expiry(n) == issuedAt[n] + Ttl
IsFree(r) == nonce[r] = NoNonce

Running == {"check", "redeem", "send", "wait", "usage", "usageInsert",
            "claim", "powInsert"}
Finished == {"done", "ended"}
Active(r) == pc[r] \in Running
Goto(r, to) == pc' = [pc EXCEPT ![r] = to]

Init ==
  /\ clock = 0
  /\ pc = [r \in Requests |-> "new"]
  /\ ip = [r \in Requests |-> NoIp]
  /\ nonce = [r \in Requests |-> NoNonce]
  /\ now = [r \in Requests |-> 0]
  /\ issuedAt = [n \in Nonces |-> Never]
  /\ redeemed = {}
  /\ ipClaim = [i \in Ips |-> Never]
  /\ powCount = [i \in Ips |-> [d \in Days |-> 0]]
  /\ usage = [d \in Days |-> 0]
  /\ lnd = [r \in Requests |-> "none"]
  /\ okAt = [r \in Requests |-> Never]
  /\ raced = {}
-----------------------------------------------------------------------------
(* The world outside a request.                                            *)

MutantStampExpiry(n) ==
  /\ issuedAt[n] = Never
  /\ issuedAt' = [issuedAt EXCEPT ![n] = clock + Ttl]
  /\ UNCHANGED <<clock, pc, request, tables, lnd, history>>

\* faucet_challenge(): a fresh random nonce, signed and stamped.
IssueChallenge(n) ==
  /\ issuedAt[n] = Never
  /\ issuedAt' = [issuedAt EXCEPT ![n] = clock]
  /\ UNCHANGED <<clock, pc, request, tables, lnd, history>>

\* Time passes; the worker timeout bounds how old a running request gets.
Tick ==
  /\ clock < MaxClock
  /\ \A r \in Requests : Active(r) => clock - now[r] < RequestLife
  /\ clock' = clock + 1
  /\ UNCHANGED <<pc, request, issuedAt, tables, lnd, history>>

\* A worker dies (killed, an unhandled database error): whatever its request
\* had committed stays.
Die(r) ==
  /\ Active(r)
  /\ Goto(r, "ended")
  /\ UNCHANGED <<clock, request, issuedAt, tables, lnd, history>>
-----------------------------------------------------------------------------
(* A request, one statement or call at a time.                             *)

\* faucet() starts on a POST: the balance has been read, now is captured.
\* The challenge is not bound to an IP, so anyone may present it.
Arrive(r, i, n) ==
  /\ pc[r] = "new"
  /\ Cardinality({q \in Requests : Active(q)}) < NumWorkers
  /\ n # NoNonce => issuedAt[n] # Never
  /\ Goto(r, "check")
  /\ ip' = [ip EXCEPT ![r] = i]
  /\ nonce' = [nonce EXCEPT ![r] = n]
  /\ now' = [now EXCEPT ![r] = clock]
  /\ raced' = IF \E q \in Requests :
                    Active(q) /\ ip[q] = i /\ i # NoIp /\ (IsFree(q) <=> n = NoNonce)
              THEN raced \cup {i} ELSE raced
  /\ UNCHANGED <<clock, issuedAt, tables, lnd, okAt>>

\* pow.verify: the token is unexpired at the captured instant.
Verifies(r) == now[r] <= Expiry(nonce[r])

\* store.last_ip_claim; an unknown IP has none.
LastIpClaim(r) == IF ip[r] = NoIp THEN Never ELSE ipClaim[ip[r]]

MutantDayTooShort(r) ==
  (IsFree(r) /\ OnePerDay /\ LastIpClaim(r) # Never)
    => now[r] - LastIpClaim(r) >= DaySeconds - 1

\* rules._one_per_ip_per_day
OnePerIpPerDay(r) ==
  (IsFree(r) /\ OnePerDay /\ LastIpClaim(r) # Never)
    => now[r] - LastIpClaim(r) >= DaySeconds

\* store.pow_claims_today; an unknown IP has none.
PowClaimsToday(r) == IF ip[r] = NoIp THEN 0 ELSE powCount[ip[r]][DayOf(now[r])]

MutantPowCapOffByOne(r) ==
  (~IsFree(r) /\ MaxPerDay > 0) => PowClaimsToday(r) <= MaxPerDay

\* rules._pow_daily_cap
PowDailyCap(r) == (~IsFree(r) /\ MaxPerDay > 0) => PowClaimsToday(r) < MaxPerDay

MutantSkipRedeem(r) ==
  /\ pc[r] = "check"
  /\ ~IsFree(r) => Verifies(r)
  /\ OnePerIpPerDay(r) /\ PowDailyCap(r)
  /\ Goto(r, "send")
  /\ okAt' = IF IsFree(r) THEN [okAt EXCEPT ![r] = clock] ELSE okAt
  /\ UNCHANGED <<clock, request, issuedAt, tables, lnd, raced>>

\* _process approves.  A free request passes its last gate here.
Approve(r) ==
  /\ pc[r] = "check"
  /\ ~IsFree(r) => Verifies(r)
  /\ OnePerIpPerDay(r) /\ PowDailyCap(r)
  /\ Goto(r, IF IsFree(r) THEN "send" ELSE "redeem")
  /\ okAt' = IF IsFree(r) THEN [okAt EXCEPT ![r] = clock] ELSE okAt
  /\ UNCHANGED <<clock, request, issuedAt, tables, lnd, raced>>

\* Any rule may fail: those above, or one whose figures are not modelled.
Refuse(r) ==
  /\ pc[r] = "check"
  /\ Goto(r, "ended")
  /\ UNCHANGED <<clock, request, issuedAt, tables, lnd, history>>

\* store.redeem_nonce succeeds: the unique index accepts the row.
Redeem(r) ==
  /\ pc[r] = "redeem"
  /\ nonce[r] \notin redeemed
  /\ redeemed' = redeemed \cup {nonce[r]}
  /\ Goto(r, "send")
  /\ okAt' = [okAt EXCEPT ![r] = clock]
  /\ UNCHANGED <<clock, request, issuedAt, ipClaim, powCount, usage, lnd, raced>>

\* ... or raises IntegrityError: the challenge has been used.
RefuseReplay(r) ==
  /\ pc[r] = "redeem"
  /\ nonce[r] \in redeemed
  /\ Goto(r, "ended")
  /\ UNCHANGED <<clock, request, issuedAt, tables, lnd, history>>

\* FaucetLnd.send posts the payment to the wallet.
Send(r) ==
  /\ pc[r] = "send"
  /\ Goto(r, "wait")
  /\ lnd' = [lnd EXCEPT ![r] = "order"]
  /\ UNCHANGED <<clock, request, issuedAt, tables, history>>

\* The wallet answered 200 with a txid.
SendReturns(r) ==
  /\ pc[r] = "wait"
  /\ lnd[r] = "paid"
  /\ Goto(r, "usage")
  /\ UNCHANGED <<clock, request, issuedAt, tables, lnd, history>>

\* FaucetLndError with the wallet's own refusal, or no connection to it.
SendRefused(r) ==
  /\ pc[r] \in {"send", "wait"}
  /\ lnd[r] # "paid"
  /\ Goto(r, "ended")
  /\ lnd' = [lnd EXCEPT ![r] = "none"]
  /\ UNCHANGED <<clock, request, issuedAt, tables, history>>

\* FaucetLndError because no answer came within 30 seconds, or one without a
\* txid: the wallet may have paid, or may pay yet.
SendTimesOut(r) ==
  /\ pc[r] = "wait"
  /\ Goto(r, "ended")
  /\ UNCHANGED <<clock, request, issuedAt, tables, lnd, history>>

\* store.increment_usage: UPDATE ... SET count = count + 1.  It matches a row
\* or, on the day's first payout, none.
UpdateUsage(r) ==
  LET d == DayOf(now[r]) IN
  /\ pc[r] = "usage"
  /\ Goto(r, IF usage[d] > 0 THEN "claim" ELSE "usageInsert")
  /\ usage' = IF usage[d] > 0 THEN [usage EXCEPT ![d] = @ + 1] ELSE usage
  /\ UNCHANGED <<clock, request, issuedAt, redeemed, ipClaim, powCount, lnd, history>>

MutantUsageReplaced(r) ==
  /\ pc[r] = "usageInsert"
  /\ Goto(r, "claim")
  /\ usage' = [usage EXCEPT ![DayOf(now[r])] = 1]
  /\ UNCHANGED <<clock, request, issuedAt, redeemed, ipClaim, powCount, lnd, history>>

\* ... then INSERT 1, or count + 1 if another request inserted it meanwhile.
InsertUsage(r) ==
  /\ pc[r] = "usageInsert"
  /\ Goto(r, "claim")
  /\ usage' = [usage EXCEPT ![DayOf(now[r])] = @ + 1]
  /\ UNCHANGED <<clock, request, issuedAt, redeemed, ipClaim, powCount, lnd, history>>

\* An unknown IP leaves no claim behind.
SkipClaim(r) ==
  /\ pc[r] = "claim" /\ ip[r] = NoIp
  /\ Goto(r, "done")
  /\ UNCHANGED <<clock, request, issuedAt, tables, lnd, history>>

\* store.record_ip_claim: an upsert of the captured instant.
RecordIpClaim(r) ==
  /\ pc[r] = "claim" /\ ip[r] # NoIp /\ IsFree(r)
  /\ ipClaim' = [ipClaim EXCEPT ![ip[r]] = now[r]]
  /\ Goto(r, "done")
  /\ UNCHANGED <<clock, request, issuedAt, redeemed, powCount, usage, lnd, history>>

\* store.record_pow_claim: UPDATE, then INSERT as for the usage count.
UpdatePowClaim(r) ==
  LET d == DayOf(now[r])
      known == powCount[ip[r]][d] > 0 IN
  /\ pc[r] = "claim" /\ ip[r] # NoIp /\ ~IsFree(r)
  /\ Goto(r, IF known THEN "done" ELSE "powInsert")
  /\ powCount' = IF known THEN [powCount EXCEPT ![ip[r]][d] = @ + 1] ELSE powCount
  /\ UNCHANGED <<clock, request, issuedAt, redeemed, ipClaim, usage, lnd, history>>

MutantPowClaimReplaced(r) ==
  /\ pc[r] = "powInsert"
  /\ Goto(r, "done")
  /\ powCount' = [powCount EXCEPT ![ip[r]][DayOf(now[r])] = 1]
  /\ UNCHANGED <<clock, request, issuedAt, redeemed, ipClaim, usage, lnd, history>>

InsertPowClaim(r) ==
  /\ pc[r] = "powInsert"
  /\ Goto(r, "done")
  /\ powCount' = [powCount EXCEPT ![ip[r]][DayOf(now[r])] = @ + 1]
  /\ UNCHANGED <<clock, request, issuedAt, redeemed, ipClaim, usage, lnd, history>>
-----------------------------------------------------------------------------
(* The wallet: external.  It pays an order once, whether or not the faucet *)
(* still waits.                                                            *)

LndPay(r) ==
  /\ lnd[r] = "order"
  /\ lnd' = [lnd EXCEPT ![r] = "paid"]
  /\ UNCHANGED <<clock, pc, request, issuedAt, tables, history>>
-----------------------------------------------------------------------------
(* The deletes of run_maintenance.  Each commits on its own and reads the  *)
(* clock itself; the module can also be run by hand, at any time and       *)
(* beside itself, and may die after any of them.  So each delete may come  *)
(* at any moment here, which allows every order the code can produce and   *)
(* more; FaucetMaintenance.tla has the daily claim and the order.          *)

MutantPurgeEarly ==
  /\ redeemed' = {n \in redeemed : issuedAt[n] > clock}
  /\ UNCHANGED <<clock, pc, request, issuedAt, ipClaim, powCount, usage, lnd, history>>

PurgeNonces ==
  /\ redeemed' = {n \in redeemed : Expiry(n) >= clock}
  /\ UNCHANGED <<clock, pc, request, issuedAt, ipClaim, powCount, usage, lnd, history>>

PurgePowClaims ==
  /\ powCount' = [i \in Ips |-> [d \in Days |->
                    IF d < DayOf(clock) - 1 THEN 0 ELSE powCount[i][d]]]
  /\ UNCHANGED <<clock, pc, request, issuedAt, redeemed, ipClaim, usage, lnd, history>>

PurgeIpClaims ==
  /\ ipClaim' = [i \in Ips |-> IF ipClaim[i] < clock - DaySeconds THEN Never
                               ELSE ipClaim[i]]
  /\ UNCHANGED <<clock, pc, request, issuedAt, redeemed, powCount, usage, lnd, history>>

PurgeUsage ==
  /\ usage' = [d \in Days |-> IF d < DayOf(clock) - RetentionDays THEN 0 ELSE usage[d]]
  /\ UNCHANGED <<clock, pc, request, issuedAt, redeemed, ipClaim, powCount, lnd,
                 history>>
-----------------------------------------------------------------------------
Serve(r) ==
  \/ Approve(r) \/ Refuse(r) \/ Redeem(r) \/ RefuseReplay(r)
  \/ Send(r) \/ SendReturns(r) \/ SendRefused(r) \/ SendTimesOut(r)
  \/ UpdateUsage(r) \/ InsertUsage(r)
  \/ SkipClaim(r) \/ RecordIpClaim(r) \/ UpdatePowClaim(r) \/ InsertPowClaim(r)

Maintain ==
  PurgeNonces \/ PurgePowClaims \/ PurgeIpClaims \/ PurgeUsage

Next ==
  \/ \E n \in Nonces : IssueChallenge(n)
  \/ \E r \in Requests, i \in Ips \cup {NoIp}, n \in Nonces \cup {NoNonce} : Arrive(r, i, n)
  \/ \E r \in Requests : Serve(r) \/ Die(r) \/ LndPay(r)
  \/ Maintain
  \/ Tick

Spec == Init /\ [][Next]_vars
-----------------------------------------------------------------------------
(* Properties.                                                             *)

\* Every variable has its type.
TypeOK ==
  /\ clock \in 0..MaxClock
  /\ pc \in [Requests -> {"new"} \cup Running \cup Finished]
  /\ ip \in [Requests -> Ips \cup {NoIp}]
  /\ nonce \in [Requests -> Nonces \cup {NoNonce}]
  /\ now \in [Requests -> 0..MaxClock]
  /\ issuedAt \in [Nonces -> {Never} \cup 0..MaxClock]
  /\ redeemed \subseteq Nonces
  /\ ipClaim \in [Ips -> {Never} \cup 0..MaxClock]
  /\ powCount \in [Ips -> [Days -> Nat]]
  /\ usage \in [Days -> Nat]
  /\ lnd \in [Requests -> {"none", "order", "paid"}]
  /\ okAt \in [Requests -> {Never} \cup 0..MaxClock]
  /\ raced \subseteq Ips

Spent(r, n) == nonce[r] = n /\ n # NoNonce /\ okAt[r] # Never

\* While a challenge is valid it backs one payment at most, whatever the
\* interleaving of submits, purges and worker deaths: of two requests that
\* spent one nonce, one did so after the challenge had expired
\* (store.redeem_nonce against store.purge_redeemed_nonces).
SingleUseWhileValid ==
  \A a, b \in Requests : \A n \in Nonces :
    (a # b /\ Spent(a, n) /\ Spent(b, n)) => okAt[a] > Expiry(n) \/ okAt[b] > Expiry(n)

FreeClaim(r, i) == pc[r] = "done" /\ IsFree(r) /\ ip[r] = i

\* One claim per 24 hours, as long as an IP never has two free requests open
\* at once: the purge, the PoW claims and deaths between two
\* requests never let a second recorded payout through within a day of the
\* first (rules._one_per_ip_per_day, store.record_ip_claim, purge_ip_claims).
SerialDailyLimit ==
  OnePerDay =>
    \A i \in Ips \ raced : \A a, b \in Requests :
      (a # b /\ FreeClaim(a, i) /\ FreeClaim(b, i)) =>
        okAt[b] - now[a] >= DaySeconds \/ okAt[a] - now[b] >= DaySeconds

PowClaims(i, d) ==
  {r \in Requests : pc[r] = "done" /\ ~IsFree(r) /\ ip[r] = i /\ DayOf(now[r]) = d}

\* The PoW counter of a day that can still be asked for is the number of PoW
\* claims made: no upsert loses another's, no purge takes it, and free claims
\* leave it alone (store.record_pow_claim, store.purge_pow_claims).
PowCountExact ==
  \A i \in Ips, d \in Days :
    d >= DayOf(clock) - 1 => powCount[i][d] = Cardinality(PowClaims(i, d))

\* The PoW cap per IP and day, as long as an IP never has two PoW requests
\* open at once (rules._pow_daily_cap).
SerialPowCap ==
  MaxPerDay > 0 =>
    \A i \in Ips \ raced, d \in Days : Cardinality(PowClaims(i, d)) <= MaxPerDay

Counted(d) ==
  {r \in Requests : pc[r] \in {"claim", "powInsert", "done"} /\ DayOf(now[r]) = d}
PaidOn(d) == {r \in Requests : lnd[r] = "paid" /\ DayOf(now[r]) = d}

\* The usage history loses no payout that reached it and counts none the
\* wallet did not make (store.increment_usage, store.purge_usage).
UsageCountsPayouts ==
  \A d \in Days : d >= DayOf(clock) - RetentionDays =>
    /\ Cardinality(Counted(d)) <= usage[d]
    /\ usage[d] <= Cardinality(PaidOn(d))

\* The faucet implements the voucher service: see Vouchers.tla.
Promise == INSTANCE Vouchers WITH
  time <- clock,
  expiry <- [n \in Nonces |-> IF issuedAt[n] = Never THEN Never ELSE Expiry(n)],
  grant <- [r \in Requests |-> IF okAt[r] = Never THEN <<>> ELSE <<nonce[r], okAt[r]>>],
  paid <- {r \in Requests : lnd[r] = "paid"}

\* Only requests that passed every gate are paid, each once, and a valid
\* challenge is granted on once.
ImplementsVouchers == Promise!Spec

\* What rules.py and the page say of an IP: one free claim per 24 hours.
OneFreeClaimPerDay ==
  \A i \in Ips : \A a, b \in Requests :
    (a # b /\ FreeClaim(a, i) /\ FreeClaim(b, i)) =>
      okAt[b] - now[a] >= DaySeconds \/ okAt[a] - now[b] >= DaySeconds
=============================================================================
