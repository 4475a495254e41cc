---------------------------- MODULE FaucetProofs ----------------------------
(***************************************************************************)
(* Theorems about Faucet.tla and, at the end, FaucetMaintenance.tla, for   *)
(* every number of requests, IPs, challenges and workers.                  *)
(***************************************************************************)
EXTENDS Faucet, FiniteSetTheorems, TLAPS

(***************************************************************************)
(* TypeOK alone is not inductive: a request that stands at "redeem" must   *)
(* carry a challenge, or RedeemedNonce could take a row that is none, and  *)
(* one at "powInsert" must have an IP.                                     *)
(***************************************************************************)
Stands ==
  \A r \in Requests :
    /\ pc[r] = "redeem" => ~IsFree(r)
    /\ pc[r] = "powInsert" => ~IsFree(r) /\ ip[r] # NoIp
    /\ pc[r] = "new" => nonce[r] = NoNonce

Typed == TypeOK /\ Stands

\* The day of any instant has its rows in the tables.
LEMMA DayInDays == ASSUME NEW t \in 0..MaxClock PROVE DayOf(t) \in Days
  BY DEF Days

\* Counting one claim leaves a table of counts.
LEMMA CountOne ==
  ASSUME NEW i \in Ips, NEW d \in Days, NEW f \in [Ips -> [Days -> Nat]]
  PROVE  [f EXCEPT ![i][d] = @ + 1] \in [Ips -> [Days -> Nat]]
  OBVIOUS

LEMMA TypedInit == Init => Typed
  BY FaucetAssumption
  DEF Init, Typed, TypeOK, Stands, IsFree, Running, Finished, Never, Days, DayOf

LEMMA TypedNext == Typed /\ [Next]_vars => Typed'
<1> SUFFICES ASSUME Typed, [Next]_vars PROVE Typed'
  OBVIOUS
<1> USE FaucetAssumption DEF Typed, TypeOK, Stands, IsFree, Running, Finished,
                             Never, Goto, tables, history, request
<1>1. ASSUME NEW n \in Nonces, IssueChallenge(n) PROVE Typed'
  BY <1>1 DEF IssueChallenge
<1>2. ASSUME NEW r \in Requests, NEW i \in Ips \cup {NoIp},
             NEW n \in Nonces \cup {NoNonce}, Arrive(r, i, n)
      PROVE  Typed'
  BY <1>2 DEF Arrive
<1>3. ASSUME NEW r \in Requests, Approve(r) PROVE Typed'
  BY <1>3 DEF Approve
<1>4. ASSUME NEW r \in Requests, Refuse(r) PROVE Typed'
  BY <1>4 DEF Refuse
<1>5. ASSUME NEW r \in Requests, Redeem(r) PROVE Typed'
  BY <1>5 DEF Redeem
<1>6. ASSUME NEW r \in Requests, RefuseReplay(r) PROVE Typed'
  BY <1>6 DEF RefuseReplay
<1>7. ASSUME NEW r \in Requests, Send(r) PROVE Typed'
  BY <1>7 DEF Send
<1>8. ASSUME NEW r \in Requests, SendReturns(r) PROVE Typed'
  BY <1>8 DEF SendReturns
<1>9. ASSUME NEW r \in Requests, SendRefused(r) PROVE Typed'
  BY <1>9 DEF SendRefused
<1>10. ASSUME NEW r \in Requests, SendTimesOut(r) PROVE Typed'
  BY <1>10 DEF SendTimesOut
<1>11. ASSUME NEW r \in Requests, UpdateUsage(r) PROVE Typed'
<2>1. usage' \in [Days -> Nat]
  BY <1>11, DayInDays DEF UpdateUsage
<2> QED
  BY <1>11, <2>1 DEF UpdateUsage
<1>12. ASSUME NEW r \in Requests, InsertUsage(r) PROVE Typed'
<2>1. usage' \in [Days -> Nat]
  BY <1>12, DayInDays DEF InsertUsage
<2> QED
  BY <1>12, <2>1 DEF InsertUsage
<1>13. ASSUME NEW r \in Requests, SkipClaim(r) PROVE Typed'
  BY <1>13 DEF SkipClaim
<1>14. ASSUME NEW r \in Requests, RecordIpClaim(r) PROVE Typed'
  BY <1>14 DEF RecordIpClaim
<1>15. ASSUME NEW r \in Requests, UpdatePowClaim(r) PROVE Typed'
<2>1. ip[r] \in Ips
  BY <1>15 DEF UpdatePowClaim
<2>2. powCount' \in [Ips -> [Days -> Nat]]
  <3>1. CASE powCount[ip[r]][DayOf(now[r])] > 0
    BY <1>15, <2>1, <3>1, DayInDays, CountOne DEF UpdatePowClaim
  <3>2. CASE ~(powCount[ip[r]][DayOf(now[r])] > 0)
    BY <1>15, <3>2 DEF UpdatePowClaim
  <3> QED
    BY <3>1, <3>2
<2> QED
  BY <1>15, <2>1, <2>2 DEF UpdatePowClaim
<1>16. ASSUME NEW r \in Requests, InsertPowClaim(r) PROVE Typed'
<2>1. powCount' \in [Ips -> [Days -> Nat]]
  BY <1>16, DayInDays, CountOne DEF InsertPowClaim
<2> QED
  BY <1>16, <2>1 DEF InsertPowClaim
<1>17. ASSUME NEW r \in Requests, Die(r) PROVE Typed'
  BY <1>17 DEF Die
<1>18. ASSUME NEW r \in Requests, LndPay(r) PROVE Typed'
  BY <1>18 DEF LndPay
<1>19. CASE PurgeNonces
  BY <1>19 DEF PurgeNonces
<1>20. CASE PurgePowClaims
  BY <1>20 DEF PurgePowClaims
<1>21. CASE PurgeIpClaims
  BY <1>21 DEF PurgeIpClaims
<1>22. CASE PurgeUsage
  BY <1>22 DEF PurgeUsage
<1>23. CASE Tick
  BY <1>23 DEF Tick
<1>24. CASE UNCHANGED vars
  BY <1>24 DEF vars
<1> QED
  BY <1>1, <1>2, <1>3, <1>4, <1>5, <1>6, <1>7, <1>8, <1>9, <1>10, <1>11, <1>12,
     <1>13, <1>14, <1>15, <1>16, <1>17, <1>18, <1>19, <1>20, <1>21, <1>22, <1>23,
     <1>24 DEF Next, Serve, Maintain

\* Every variable keeps its type, whatever the interleaving.
THEOREM TypeCorrect == Spec => []TypeOK
<1>1. Typed => TypeOK
  BY DEF Typed
<1> QED
  BY <1>1, TypedInit, TypedNext, PTL DEF Spec
-----------------------------------------------------------------------------
(***************************************************************************)
(* Payments.  Where a request stands tells whether it has passed its last  *)
(* gate and whether the wallet has been asked; a challenge that has been   *)
(* spent stays in RedeemedNonce until it has expired.                      *)
(***************************************************************************)
BeforeGate == {"new", "check", "redeem"}
PastGate == (Running \ BeforeGate) \cup {"done"}
PastAnswer == {"usage", "usageInsert", "claim", "powInsert", "done"}

Gate(r) ==
  /\ now[r] <= clock
  /\ okAt[r] # Never => now[r] <= okAt[r] /\ okAt[r] <= clock
  /\ pc[r] \in BeforeGate => okAt[r] = Never
  /\ pc[r] \in PastGate => okAt[r] # Never
  /\ pc[r] \in BeforeGate \cup {"send"} => lnd[r] = "none"
  /\ pc[r] \in PastAnswer => lnd[r] = "paid"
  /\ lnd[r] # "none" => okAt[r] # Never
  /\ nonce[r] # NoNonce => issuedAt[nonce[r]] # Never

Gates == \A r \in Requests : Gate(r)

Burned ==
  \A r \in Requests : (okAt[r] # Never /\ ~IsFree(r)) =>
    nonce[r] \in redeemed \/ clock > Expiry(nonce[r])

Gated == Typed /\ Gates
Payments == Gated /\ Burned /\ SingleUseWhileValid

LEMMA GatedInit == Init => Gated
  BY TypedInit, FaucetAssumption
  DEF Init, Gated, Gates, Gate, Never, BeforeGate, PastGate, PastAnswer, Running

LEMMA GatedNext == Gated /\ [Next]_vars => Gated'
<1> SUFFICES ASSUME Gated, [Next]_vars PROVE Gates'
  BY TypedNext DEF Gated
<1> USE FaucetAssumption DEF Gated, Typed, TypeOK, Stands, Gates, Gate, IsFree,
        Running, Finished, BeforeGate, PastGate, PastAnswer, Never, Goto, tables,
        history, request
<1>1. ASSUME NEW n \in Nonces, IssueChallenge(n) PROVE Gates'
  BY <1>1 DEF IssueChallenge
<1>2. ASSUME NEW r \in Requests, NEW i \in Ips \cup {NoIp},
             NEW n \in Nonces \cup {NoNonce}, Arrive(r, i, n)
      PROVE  Gates'
  BY <1>2 DEF Arrive
<1>3. ASSUME NEW r \in Requests, Serve(r) PROVE Gates'
<2>1. CASE Approve(r)
  BY <2>1 DEF Approve
<2>2. CASE Refuse(r)
  BY <2>2 DEF Refuse
<2>3. CASE Redeem(r)
  BY <2>3 DEF Redeem
<2>4. CASE RefuseReplay(r)
  BY <2>4 DEF RefuseReplay
<2>5. CASE Send(r)
  BY <2>5 DEF Send
<2>6. CASE SendReturns(r)
  BY <2>6 DEF SendReturns
<2>7. CASE SendRefused(r)
  BY <2>7 DEF SendRefused
<2>8. CASE SendTimesOut(r)
  BY <2>8 DEF SendTimesOut
<2>9. CASE UpdateUsage(r)
  BY <2>9 DEF UpdateUsage
<2>10. CASE InsertUsage(r)
  BY <2>10 DEF InsertUsage
<2>11. CASE SkipClaim(r)
  BY <2>11 DEF SkipClaim
<2>12. CASE RecordIpClaim(r)
  BY <2>12 DEF RecordIpClaim
<2>13. CASE UpdatePowClaim(r)
  BY <2>13 DEF UpdatePowClaim
<2>14. CASE InsertPowClaim(r)
  BY <2>14 DEF InsertPowClaim
<2> QED
  BY <1>3, <2>1, <2>2, <2>3, <2>4, <2>5, <2>6, <2>7, <2>8, <2>9, <2>10, <2>11,
     <2>12, <2>13, <2>14 DEF Serve
<1>4. ASSUME NEW r \in Requests, Die(r) PROVE Gates'
  BY <1>4 DEF Die, Active
<1>5. ASSUME NEW r \in Requests, LndPay(r) PROVE Gates'
  BY <1>5 DEF LndPay
<1>6. CASE Maintain
  BY <1>6 DEF Maintain, PurgeNonces, PurgePowClaims, PurgeIpClaims, PurgeUsage
<1>7. CASE Tick
  BY <1>7 DEF Tick
<1>8. CASE UNCHANGED vars
  BY <1>8 DEF vars
<1> QED
  BY <1>1, <1>2, <1>3, <1>4, <1>5, <1>6, <1>7, <1>8 DEF Next

LEMMA PaymentsInit == Init => Payments
  BY GatedInit
  DEF Init, Payments, Burned, SingleUseWhileValid, Spent, Never, IsFree

\* A step that leaves the challenges and the gates alone keeps the promise.
LEMMA QuietStep ==
  ASSUME Burned, SingleUseWhileValid,
         UNCHANGED <<clock, nonce, issuedAt, redeemed, okAt>>
  PROVE  Burned' /\ SingleUseWhileValid'
  BY DEF Burned, SingleUseWhileValid, Spent, Expiry, IsFree

LEMMA PaymentsNext == Payments /\ [Next]_vars => Payments'
<1> SUFFICES ASSUME Payments, [Next]_vars PROVE Burned' /\ SingleUseWhileValid'
  BY GatedNext DEF Payments
<1>0. Gated'
  BY GatedNext DEF Payments
<1> USE FaucetAssumption DEF Payments, Gated, Typed, TypeOK, Gates, Gate, IsFree, Never,
        tables, history, request
<1>1. ASSUME NEW n \in Nonces, IssueChallenge(n)
      PROVE  Burned' /\ SingleUseWhileValid'
  BY <1>1 DEF IssueChallenge, Burned, SingleUseWhileValid, Spent, Expiry
<1>2. ASSUME NEW r \in Requests, NEW i \in Ips \cup {NoIp},
             NEW n \in Nonces \cup {NoNonce}, Arrive(r, i, n)
      PROVE  Burned' /\ SingleUseWhileValid'
<2>1. okAt[r] = Never
  BY <1>2 DEF Arrive, BeforeGate
<2> QED
  BY <1>2, <2>1 DEF Arrive, Burned, SingleUseWhileValid, Spent, Expiry
<1>3. ASSUME NEW r \in Requests, Approve(r)
      PROVE  Burned' /\ SingleUseWhileValid'
  BY <1>3 DEF Approve, Burned, SingleUseWhileValid, Spent, Expiry
<1>4. ASSUME NEW r \in Requests, Redeem(r)
      PROVE  Burned' /\ SingleUseWhileValid'
<2>1. nonce[r] # NoNonce /\ okAt' = [okAt EXCEPT ![r] = clock]
  BY <1>4 DEF Redeem, Stands
<2>2. Burned'
  BY <1>4, <2>1 DEF Redeem, Burned, Expiry
<2>3. ASSUME NEW b \in Requests, b # r, Spent(b, nonce[r])
      PROVE  clock > Expiry(nonce[r])
  BY <1>4, <2>3 DEF Redeem, Burned, Spent
<2>4. SingleUseWhileValid'
  BY <1>4, <2>1, <2>3 DEF Redeem, SingleUseWhileValid, Spent, Expiry
<2> QED
  BY <2>2, <2>4
<1>5. CASE PurgeNonces
  BY <1>5 DEF PurgeNonces, Burned, SingleUseWhileValid, Spent, Expiry
<1>6. CASE Tick
  BY <1>6 DEF Tick, Burned, SingleUseWhileValid, Spent, Expiry
<1>7. ASSUME NEW r \in Requests, Serve(r), ~Approve(r), ~Redeem(r)
      PROVE  Burned' /\ SingleUseWhileValid'
<2>1. UNCHANGED <<clock, nonce, issuedAt, redeemed, okAt>>
  BY <1>7 DEF Serve, Refuse, RefuseReplay, Send, SendReturns, SendRefused,
     SendTimesOut, UpdateUsage, InsertUsage, SkipClaim, RecordIpClaim,
     UpdatePowClaim, InsertPowClaim
<2> QED
  BY <2>1, QuietStep
<1>8. ASSUME NEW r \in Requests, Die(r) \/ LndPay(r)
      PROVE  Burned' /\ SingleUseWhileValid'
  BY <1>8, QuietStep DEF Die, LndPay
<1>9. CASE PurgePowClaims \/ PurgeIpClaims \/ PurgeUsage
  BY <1>9, QuietStep DEF PurgePowClaims, PurgeIpClaims, PurgeUsage
<1>10. CASE UNCHANGED vars
  BY <1>10, QuietStep DEF vars
<1> QED
  BY <1>1, <1>2, <1>3, <1>4, <1>5, <1>6, <1>7, <1>8, <1>9, <1>10 DEF Next, Maintain

\* While a challenge is valid it backs one payment at most: the insert into
\* RedeemedNonce against the daily purge of that table.
THEOREM ChallengeSingleUse == Spec => []SingleUseWhileValid
<1>1. Payments => SingleUseWhileValid
  BY DEF Payments
<1> QED
  BY <1>1, PaymentsInit, PaymentsNext, PTL DEF Spec
-----------------------------------------------------------------------------
(***************************************************************************)
(* The faucet implements the voucher service: Approve of a free request    *)
(* and Redeem are its Grant, the wallet's payment its Pay, and every other *)
(* step of a request a stutter.                                            *)
(***************************************************************************)
LEMMA VouchersInit == Init => Promise!Init
  BY DEF Init, Promise!Init, Never

\* A step that leaves the clock, the challenges, the gates and the wallet's
\* payments alone is a stutter of the voucher service.
LEMMA Stutter ==
  ASSUME UNCHANGED <<clock, issuedAt, okAt>>,
         \A r \in Requests : okAt[r] # Never => nonce'[r] = nonce[r],
         \A r \in Requests : (lnd'[r] = "paid") <=> (lnd[r] = "paid")
  PROVE  UNCHANGED Promise!vars
  BY DEF Promise!vars, Expiry

LEMMA VouchersNext == Payments /\ [Next]_vars => [Promise!Next]_(Promise!vars)
<1> SUFFICES ASSUME Payments, [Next]_vars
             PROVE  Promise!Next \/ UNCHANGED Promise!vars
  OBVIOUS
<1> USE FaucetAssumption DEF Payments, Gated, Typed, TypeOK, Gates, Gate, IsFree,
        Never, tables, history, request
<1> DEFINE expiry == [n \in Nonces |-> IF issuedAt[n] = Never THEN Never ELSE Expiry(n)]
           grant == [r \in Requests |-> IF okAt[r] = Never THEN <<>>
                                        ELSE <<nonce[r], okAt[r]>>]
           paid == {r \in Requests : lnd[r] = "paid"}
<1>1. ASSUME NEW n \in Nonces, IssueChallenge(n) PROVE Promise!Issue(n)
<2>1. expiry' = [expiry EXCEPT ![n] = clock + Ttl]
  <3>1. \A m \in Nonces : expiry'[m] = IF m = n THEN clock + Ttl ELSE expiry[m]
    BY <1>1 DEF IssueChallenge, Expiry
  <3> QED
    BY <3>1
<2>2. expiry[n] = -1 /\ clock' = clock /\ grant' = grant /\ paid' = paid
  BY <1>1 DEF IssueChallenge
<2> QED
  BY <2>1, <2>2 DEF Promise!Issue
<1>2. ASSUME NEW r \in Requests, NEW i \in Ips \cup {NoIp},
             NEW n \in Nonces \cup {NoNonce}, Arrive(r, i, n)
      PROVE  UNCHANGED Promise!vars
<2>1. okAt[r] = Never
  BY <1>2 DEF Arrive, BeforeGate
<2> QED
  BY <1>2, <2>1, Stutter DEF Arrive
<1>3. ASSUME NEW r \in Requests, NEW n \in Nonces \cup {NoNonce},
             okAt[r] = Never, okAt' = [okAt EXCEPT ![r] = clock], nonce[r] = n,
             n # NoNonce => \A q \in Requests : Spent(q, n) => clock > Expiry(n),
             UNCHANGED <<clock, nonce, issuedAt, lnd>>
      PROVE  Promise!Grant(r, n)
<2>1. grant' = [grant EXCEPT ![r] = <<n, clock>>]
  <3>1. grant'[r] = <<n, clock>>
    BY <1>3
  <3>2. \A q \in Requests \ {r} : grant'[q] = grant[q]
    BY <1>3
  <3>3. grant' = [q \in Requests |-> grant'[q]]
    OBVIOUS
  <3> HIDE DEF grant
  <3>4. [grant EXCEPT ![r] = <<n, clock>>] =
          [q \in Requests |-> IF q = r THEN <<n, clock>> ELSE grant[q]]
    BY DEF grant
  <3> QED
    BY <3>1, <3>2, <3>3, <3>4
<2>2. grant[r] = <<>> /\ clock' = clock /\ expiry' = expiry /\ paid' = paid
  BY <1>3 DEF Expiry
<2>3. CASE n = NoNonce
  BY <2>1, <2>2, <2>3 DEF Promise!Grant, Promise!Granted
<2>4. CASE n \in Nonces
  <3>1. expiry[n] # -1 /\ expiry[n] = Expiry(n)
    BY <1>3, <2>4 DEF Expiry
  <3>2. ASSUME NEW q \in Requests, grant[q] # <<>>, grant[q][1] = n
        PROVE  clock > expiry[n]
    BY <1>3, <2>4, <3>1, <3>2 DEF Spent
  <3> QED
    BY <2>1, <2>2, <2>4, <3>1, <3>2 DEF Promise!Grant, Promise!Granted
<2> QED
  BY <2>3, <2>4
<1>4. ASSUME NEW r \in Requests, Approve(r)
      PROVE  Promise!Next \/ UNCHANGED Promise!vars
<2>1. CASE IsFree(r)
  <3>1. okAt[r] = Never /\ okAt' = [okAt EXCEPT ![r] = clock]
    BY <1>4, <2>1 DEF Approve, BeforeGate
  <3>2. Promise!Grant(r, NoNonce)
    BY <1>3, <1>4, <2>1, <3>1 DEF Approve
  <3> QED
    BY <3>2 DEF Promise!Next
<2>2. CASE ~IsFree(r)
  BY <1>4, <2>2, Stutter DEF Approve
<2> QED
  BY <2>1, <2>2
<1>5. ASSUME NEW r \in Requests, Redeem(r) PROVE Promise!Next
<2>1. okAt[r] = Never
  BY <1>5 DEF Redeem, BeforeGate
<2>2. PICK n \in Nonces : nonce[r] = n
  BY <1>5 DEF Redeem, Stands
<2>3. \A q \in Requests : Spent(q, n) => clock > Expiry(n)
  BY <1>5, <2>2 DEF Redeem, Burned, Spent
<2>4. okAt' = [okAt EXCEPT ![r] = clock] /\ UNCHANGED <<clock, nonce, issuedAt, lnd>>
  BY <1>5 DEF Redeem
<2>5. Promise!Grant(r, n)
  BY <1>3, <2>1, <2>2, <2>3, <2>4
<2> QED
  BY <2>5 DEF Promise!Next
<1>6. ASSUME NEW r \in Requests, LndPay(r) PROVE Promise!Pay(r)
<2>1. r \notin paid /\ paid' = paid \cup {r}
  BY <1>6 DEF LndPay
<2>2. grant[r] # <<>>
  BY <1>6 DEF LndPay
<2>3. clock' = clock /\ expiry' = expiry /\ grant' = grant
  BY <1>6 DEF LndPay, Expiry
<2> QED
  BY <2>1, <2>2, <2>3 DEF Promise!Pay, Promise!Granted
<1>7. ASSUME Tick PROVE Promise!Pass
  BY <1>7 DEF Tick, Promise!Pass, Expiry
<1>8. ASSUME NEW r \in Requests, Serve(r), ~Approve(r), ~Redeem(r)
      PROVE  UNCHANGED Promise!vars
<2>1. CASE Send(r)
  BY <2>1, Stutter DEF Send
<2>2. CASE SendRefused(r)
  BY <2>2, Stutter DEF SendRefused
<2>3. ASSUME ~Send(r), ~SendRefused(r)
      PROVE  UNCHANGED <<clock, issuedAt, okAt, nonce, lnd>>
  BY <1>8, <2>3 DEF Serve, Refuse, RefuseReplay, SendReturns, SendTimesOut, UpdateUsage,
     InsertUsage, SkipClaim, RecordIpClaim, UpdatePowClaim, InsertPowClaim
<2> QED
  BY <2>1, <2>2, <2>3, Stutter
<1>9. ASSUME NEW r \in Requests, Die(r) PROVE UNCHANGED Promise!vars
  BY <1>9, Stutter DEF Die
<1>10. ASSUME Maintain PROVE UNCHANGED Promise!vars
  BY <1>10, Stutter DEF Maintain, PurgeNonces, PurgePowClaims, PurgeIpClaims, PurgeUsage
<1>11. CASE UNCHANGED vars
  BY <1>11, Stutter DEF vars
<1> QED
  BY <1>1, <1>2, <1>4, <1>5, <1>6, <1>7, <1>8, <1>9, <1>10, <1>11
  DEF Next, Promise!Next

\* Only requests that passed every gate are paid, each once, and a valid
\* challenge is granted on once, whatever the wallet does after the faucet
\* has stopped waiting for it.
THEOREM FaucetImplementsVouchers == Spec => ImplementsVouchers
  BY PaymentsInit, PaymentsNext, VouchersInit, VouchersNext, PTL
  DEF Spec, ImplementsVouchers, Promise!Spec
-----------------------------------------------------------------------------
(***************************************************************************)
(* The daily limit, for an IP that never has two free requests open at     *)
(* once.  While request a's claim is younger than a day, IpClaim holds it  *)
(* or a younger one, so the next request that passes the rule does so a    *)
(* day after a.                                                            *)
(***************************************************************************)
Free(r, i) == ip[r] = i /\ IsFree(r)

Alone ==
  \A a, b \in Requests : \A i \in Ips :
    (a # b /\ Active(a) /\ Active(b) /\ Free(a, i) /\ Free(b, i)) => i \in raced

Remembered ==
  \A i \in Ips \ raced : \A a \in Requests :
    FreeClaim(a, i) => ipClaim[i] >= now[a] \/ clock > now[a] + DaySeconds

Ordered ==
  \A i \in Ips \ raced : \A a, b \in Requests :
    (FreeClaim(a, i) /\ Active(b) /\ Free(b, i)) => now[a] <= now[b]

Spaced ==
  \A i \in Ips \ raced : \A a, b \in Requests :
    (FreeClaim(a, i) /\ Active(b) /\ Free(b, i) /\ okAt[b] # Never) =>
      okAt[b] - now[a] >= DaySeconds

Limits == Alone /\ Remembered /\ Ordered /\ (OnePerDay => Spaced) /\ SerialDailyLimit
Limited == Gated /\ Limits

LEMMA LimitedInit == Init => Limited
  BY GatedInit, FaucetAssumption
  DEF Init, Limited, Limits, Alone, Remembered, Ordered, Spaced, SerialDailyLimit, Active,
      Running, FreeClaim, Free

\* A step that opens and closes no request, and leaves the claims alone,
\* keeps the limit.
LEMMA QuietForLimit ==
  ASSUME Limited, UNCHANGED <<clock, ip, nonce, now, ipClaim, okAt, raced>>,
         \A r \in Requests : (pc'[r] = "done") => (pc[r] = "done" \/ ~IsFree(r) \/ ip[r] = NoIp),
         \A r \in Requests : Active(r)' => Active(r)
  PROVE  Limits'
  BY FaucetAssumption
  DEF Limited, Limits, Alone, Remembered, Ordered, Spaced, SerialDailyLimit, Active,
      FreeClaim, Free, IsFree

LEMMA LimitedNext == Limited /\ [Next]_vars => Limited'
<1> SUFFICES ASSUME Limited, [Next]_vars PROVE Limits'
  BY GatedNext DEF Limited
<1> USE FaucetAssumption DEF tables, history, request, Goto
<1>0. TypeOK /\ Gates
  BY DEF Limited, Gated, Typed
<1>1. ASSUME NEW n \in Nonces, IssueChallenge(n) PROVE Limits'
  BY <1>1, QuietForLimit DEF IssueChallenge, Active
<1>2. ASSUME NEW r \in Requests, NEW i \in Ips \cup {NoIp},
             NEW n \in Nonces \cup {NoNonce}, Arrive(r, i, n)
      PROVE  Limits'
<2> USE <1>0, <1>2 DEF Arrive, TypeOK, Gates, Gate, Active, Running, Finished, Free,
        FreeClaim, IsFree, BeforeGate
<2>1. Alone'
  BY DEF Limited, Limits, Alone
<2>2. Remembered'
  BY DEF Limited, Limits, Remembered
<2>3. Ordered'
  BY DEF Limited, Limits, Ordered
<2>4. OnePerDay => Spaced'
  BY DEF Limited, Limits, Spaced
<2>5. SerialDailyLimit'
  BY DEF Limited, Limits, SerialDailyLimit
<2> QED
  BY <2>1, <2>2, <2>3, <2>4, <2>5 DEF Limits
<1>3. ASSUME NEW r \in Requests, Approve(r) PROVE Limits'
<2> USE <1>0, <1>3 DEF Approve, TypeOK, Gates, Gate, Active, Running, Finished, Free,
        FreeClaim, IsFree, BeforeGate
<2>1. Alone'
  BY DEF Limited, Limits, Alone
<2>2. Remembered'
  BY DEF Limited, Limits, Remembered
<2>3. Ordered'
  BY DEF Limited, Limits, Ordered
<2>4. OnePerDay => Spaced'
  BY DEF Limited, Limits, Spaced, Remembered, OnePerIpPerDay, LastIpClaim, Never
<2>5. SerialDailyLimit'
  BY DEF Limited, Limits, SerialDailyLimit
<2> QED
  BY <2>1, <2>2, <2>3, <2>4, <2>5 DEF Limits
<1>4. ASSUME NEW r \in Requests, Redeem(r) PROVE Limits'
<2> USE <1>0, <1>4 DEF Redeem, TypeOK, Gates, Gate, Active, Running, Finished, Free,
        FreeClaim, IsFree, BeforeGate
<2>0. ~IsFree(r)
  BY DEF Limited, Gated, Typed, Stands
<2>1. Alone'
  BY DEF Limited, Limits, Alone
<2>2. Remembered'
  BY DEF Limited, Limits, Remembered
<2>3. Ordered'
  BY DEF Limited, Limits, Ordered
<2>4. OnePerDay => Spaced'
  BY <2>0 DEF Limited, Limits, Spaced
<2>5. SerialDailyLimit'
  BY <2>0 DEF Limited, Limits, SerialDailyLimit
<2> QED
  BY <2>1, <2>2, <2>3, <2>4, <2>5 DEF Limits
<1>5. ASSUME NEW r \in Requests, RecordIpClaim(r) PROVE Limits'
<2> USE <1>0, <1>5 DEF RecordIpClaim, TypeOK, Gates, Gate, Active, Running, Finished,
        Free, FreeClaim, IsFree, PastGate, BeforeGate
<2>1. Alone'
  BY DEF Limited, Limits, Alone
<2>2. Remembered'
  BY DEF Limited, Limits, Remembered, Ordered
<2>3. Ordered'
  BY DEF Limited, Limits, Ordered, Alone
<2>4. OnePerDay => Spaced'
  BY DEF Limited, Limits, Spaced, Alone
<2>5. SerialDailyLimit'
  BY DEF Limited, Limits, SerialDailyLimit, Spaced
<2> QED
  BY <2>1, <2>2, <2>3, <2>4, <2>5 DEF Limits
<1>6. CASE PurgeIpClaims
<2> USE <1>0, <1>6 DEF PurgeIpClaims, TypeOK, Active, Free, FreeClaim, IsFree
<2>1. Remembered'
  BY DEF Limited, Limits, Remembered
<2>2. (Alone /\ Ordered /\ (OnePerDay => Spaced) /\ SerialDailyLimit)'
  BY DEF Limited, Limits, Alone, Ordered, Spaced, SerialDailyLimit
<2> QED
  BY <2>1, <2>2 DEF Limits
<1>7. CASE Tick
<2> USE <1>0, <1>7 DEF Tick, TypeOK, Active, Free, FreeClaim, IsFree
<2>1. Remembered'
  BY DEF Limited, Limits, Remembered
<2>2. (Alone /\ Ordered /\ (OnePerDay => Spaced) /\ SerialDailyLimit)'
  BY DEF Limited, Limits, Alone, Ordered, Spaced, SerialDailyLimit
<2> QED
  BY <2>1, <2>2 DEF Limits
<1>8. ASSUME NEW r \in Requests,
             Serve(r), ~Approve(r), ~Redeem(r), ~RecordIpClaim(r)
      PROVE  Limits'
<2>1. UNCHANGED <<clock, ip, nonce, now, ipClaim, okAt, raced>>
  BY <1>8 DEF Serve, Refuse, RefuseReplay, Send, SendReturns, SendRefused, SendTimesOut,
     UpdateUsage, InsertUsage, SkipClaim, UpdatePowClaim, InsertPowClaim
<2>2. ASSUME NEW q \in Requests, pc'[q] = "done"
      PROVE  pc[q] = "done" \/ ~IsFree(q) \/ ip[q] = NoIp
  BY <1>0, <1>8, <2>2 DEF TypeOK, Limited, Gated, Typed, Stands, Serve, Refuse,
     RefuseReplay, Send, SendReturns, SendRefused, SendTimesOut, UpdateUsage,
     InsertUsage, SkipClaim, UpdatePowClaim, InsertPowClaim
<2>3. ASSUME NEW q \in Requests, Active(q)' PROVE Active(q)
  BY <1>0, <1>8, <2>3 DEF TypeOK, Active, Running, Finished, Serve, Refuse,
     RefuseReplay, Send, SendReturns, SendRefused, SendTimesOut, UpdateUsage,
     InsertUsage, SkipClaim, UpdatePowClaim, InsertPowClaim
<2> QED
  BY <2>1, <2>2, <2>3, QuietForLimit
<1>9. ASSUME NEW r \in Requests, Die(r) \/ LndPay(r) PROVE Limits'
<2>1. \A q \in Requests : pc'[q] = "done" => pc[q] = "done"
  BY <1>0, <1>9 DEF Die, LndPay, TypeOK
<2>2. \A q \in Requests : Active(q)' => Active(q)
  BY <1>0, <1>9 DEF Die, LndPay, TypeOK, Active, Running
<2> QED
  BY <1>9, <2>1, <2>2, QuietForLimit DEF Die, LndPay
<1>10. CASE PurgeNonces \/ PurgePowClaims \/ PurgeUsage
  BY <1>10, QuietForLimit DEF PurgeNonces, PurgePowClaims, PurgeUsage, Active
<1>11. CASE UNCHANGED vars
  BY <1>11, QuietForLimit DEF vars, Active
<1> QED
  BY <1>1, <1>2, <1>3, <1>4, <1>5, <1>6, <1>7, <1>8, <1>9, <1>10, <1>11
  DEF Next, Maintain

\* One free claim per IP and day, as long as the IP never has two free
\* requests open at once: purges, PoW claims, deaths and late payments never
\* let a second one through early.
THEOREM DailyLimit == Spec => []SerialDailyLimit
<1>1. Limited => SerialDailyLimit
  BY DEF Limited, Limits
<1> QED
  BY <1>1, LimitedInit, LimitedNext, PTL DEF Spec

-----------------------------------------------------------------------------
(***************************************************************************)
(* The counters: what store.py adds up with an UPDATE and an INSERT of     *)
(* their own is the number of the requests that got there.                 *)
(***************************************************************************)

\* The requests that have arrived.
Arrived == {r \in Requests : pc[r] # "new"}

\* Where a payout has been counted, and where it may have been: a request that has ended
\* does not tell whether it died before or after.
Recorded == {"claim", "powInsert", "done"}
Booked(d) == {r \in PaidOn(d) : pc[r] \in Recorded \cup {"ended"}}

\* UsageCountsPayouts in two halves.  The upper one counts only payouts whose request is
\* past the usage count or has ended: one that is still on its way has not been counted.
UsageLow ==
  \A d \in Days : d >= DayOf(clock) - RetentionDays => Cardinality(Counted(d)) <= usage[d]
UsageHigh == \A d \in Days : usage[d] <= Cardinality(Booked(d))

Counts == Gated /\ IsFiniteSet(Arrived) /\ PowCountExact /\ UsageLow /\ UsageHigh

\* The day never goes back.
LEMMA LaterDay ==
  ASSUME NEW s \in Nat, NEW t \in Nat, s <= t
  PROVE  DayOf(s) \in Nat /\ DayOf(t) \in Nat /\ DayOf(s) <= DayOf(t)
  BY FaucetAssumption DEF DayOf

\* Only requests that have arrived are counted anywhere.
LEMMA CountedFinite ==
  ASSUME IsFiniteSet(Arrived)
  PROVE  /\ \A i \in Ips, d \in Days : IsFiniteSet(PowClaims(i, d))
         /\ \A d \in Days : IsFiniteSet(Counted(d)) /\ IsFiniteSet(Booked(d))
<1>1. ASSUME NEW i \in Ips, NEW d \in Days PROVE IsFiniteSet(PowClaims(i, d))
  <2>1. PowClaims(i, d) \subseteq Arrived
    BY DEF PowClaims, Arrived
  <2> QED
    BY <2>1, FS_Subset
<1>2. ASSUME NEW d \in Days PROVE IsFiniteSet(Counted(d)) /\ IsFiniteSet(Booked(d))
  <2>1. Counted(d) \subseteq Arrived /\ Booked(d) \subseteq Arrived
    BY DEF Counted, Booked, PaidOn, Recorded, Arrived
  <2> QED
    BY <2>1, FS_Subset
<1> QED
  BY <1>1, <1>2

LEMMA ArrivedFinite ==
  ASSUME Typed, IsFiniteSet(Arrived), [Next]_vars
  PROVE  IsFiniteSet(Arrived)'
<1> USE DEF Typed, TypeOK, Goto, Arrived, Running, Finished
<1>1. ASSUME NEW r \in Requests, NEW i \in Ips \cup {NoIp},
             NEW n \in Nonces \cup {NoNonce}, Arrive(r, i, n)
      PROVE  IsFiniteSet(Arrived)'
  <2>1. Arrived' = Arrived \cup {r}
    BY <1>1 DEF Arrive
  <2> HIDE DEF Arrived
  <2>2. IsFiniteSet(Arrived \cup {r})
    BY FS_AddElement
  <2> QED
    BY <2>1, <2>2
<1>2. ASSUME Arrived' \subseteq Arrived PROVE IsFiniteSet(Arrived)'
  BY <1>2, FS_Subset
<1>3. ASSUME NEW r \in Requests, Serve(r) PROVE Arrived' \subseteq Arrived
  BY <1>3 DEF Serve, Approve, Refuse, Redeem, RefuseReplay, Send, SendReturns,
     SendRefused, SendTimesOut, UpdateUsage, InsertUsage, SkipClaim, RecordIpClaim,
     UpdatePowClaim, InsertPowClaim
<1>4. ASSUME NEW r \in Requests, Die(r) \/ LndPay(r) PROVE Arrived' \subseteq Arrived
  BY <1>4 DEF Die, LndPay, Active
<1>5. CASE Maintain \/ Tick \/ UNCHANGED vars \/ \E n \in Nonces : IssueChallenge(n)
  <2>1. pc' = pc
    BY <1>5 DEF Maintain, PurgeNonces, PurgePowClaims, PurgeIpClaims, PurgeUsage, Tick,
       vars, IssueChallenge
  <2> QED
    BY <2>1
<1> QED
  BY <1>1, <1>2, <1>3, <1>4, <1>5 DEF Next
-----------------------------------------------------------------------------
(* Steps that count nothing.                                               *)

\* What a request carries is settled once it has arrived.
Settled == \A r \in Requests : pc[r] # "new" =>
             nonce'[r] = nonce[r] /\ ip'[r] = ip[r] /\ now'[r] = now[r]

LEMMA PowQuiet ==
  ASSUME Typed, PowCountExact, DayOf(clock) <= DayOf(clock'),
         DayOf(clock) \in Nat, DayOf(clock') \in Nat,
         \A i \in Ips, d \in Days :
           d >= DayOf(clock') - 1 => powCount'[i][d] = powCount[i][d],
         Settled,
         \A r \in Requests : pc[r] = "done" => pc'[r] = "done",
         \A r \in Requests : pc'[r] = "done" /\ pc[r] # "done" =>
           pc[r] # "new" /\ (ip[r] = NoIp \/ IsFree(r))
  PROVE  PowCountExact'
<1>1. ASSUME NEW i \in Ips, NEW d \in Days PROVE PowClaims(i, d)' = PowClaims(i, d)
  <2>1. i # NoIp
    BY FaucetAssumption
  <2> QED
    BY <2>1 DEF PowClaims, IsFree, Settled
<1>2. \A d \in Days : d \in Int
  BY LaterDay DEF Days
<1> QED
  BY <1>1, <1>2 DEF PowCountExact

LEMMA UsageQuiet ==
  ASSUME Typed, IsFiniteSet(Arrived), IsFiniteSet(Arrived)', UsageLow, UsageHigh,
         DayOf(clock) <= DayOf(clock'), DayOf(clock) \in Nat, DayOf(clock') \in Nat,
         \A d \in Days : usage'[d] \in Nat /\ usage'[d] <= usage[d],
         \A d \in Days : d >= DayOf(clock') - RetentionDays => usage'[d] = usage[d],
         Settled,
         \A r \in Requests : pc'[r] \in Recorded => pc[r] \in Recorded,
         \A r \in Requests : pc[r] \in Recorded \cup {"ended"} =>
           pc'[r] \in Recorded \cup {"ended"},
         \A r \in Requests : lnd[r] = "paid" => lnd'[r] = "paid"
  PROVE  UsageLow' /\ UsageHigh'
<1>1. \A d \in Days : d \in Int
  BY LaterDay DEF Days
<1>2. ASSUME NEW d \in Days
      PROVE  /\ Cardinality(Counted(d)') \in Nat /\ Cardinality(Counted(d)) \in Nat
             /\ Cardinality(Counted(d)') <= Cardinality(Counted(d))
  <2>1. Counted(d)' \subseteq Counted(d)
    BY DEF Counted, Settled, Recorded
  <2> QED
    BY <2>1, CountedFinite, FS_Subset, FS_CardinalityType
<1>3. ASSUME NEW d \in Days
      PROVE  /\ Cardinality(Booked(d)') \in Nat /\ Cardinality(Booked(d)) \in Nat
             /\ Cardinality(Booked(d)) <= Cardinality(Booked(d)')
  <2>1. Booked(d) \subseteq Booked(d)'
    BY DEF Booked, PaidOn, Settled, Recorded
  <2>2. Booked(d)' \subseteq Arrived'
    BY DEF Booked, PaidOn, Recorded, Arrived
  <2>3. IsFiniteSet(Booked(d)')
    BY <2>2, FS_Subset
  <2> QED
    BY <2>1, <2>3, FS_Subset, FS_CardinalityType
<1>4. \A d \in Days : usage[d] \in Nat
  BY DEF Typed, TypeOK
<1>5. UsageLow'
  BY <1>1, <1>2, <1>4, FaucetAssumption DEF UsageLow
<1>6. UsageHigh'
  BY <1>3, <1>4 DEF UsageHigh
<1> QED
  BY <1>5, <1>6
-----------------------------------------------------------------------------
(* Steps that count.                                                       *)

\* A set of requests that gains one that was not there.
LEMMA OneMore ==
  ASSUME NEW S, NEW T, NEW r, IsFiniteSet(S), T = S \cup {r}, r \notin S
  PROVE  Cardinality(S) \in Nat /\ Cardinality(T) = Cardinality(S) + 1
  BY FS_AddElement, FS_CardinalityType

\* The claim that request r makes is one more of its IP and its day.
LEMMA PowCountsOne ==
  ASSUME Typed, IsFiniteSet(Arrived), PowCountExact, NEW r \in Requests,
         ~IsFree(r), ip[r] \in Ips, pc[r] \notin {"new", "done"},
         pc' = [pc EXCEPT ![r] = "done"],
         powCount' = [powCount EXCEPT ![ip[r]][DayOf(now[r])] = @ + 1],
         UNCHANGED <<clock, request>>
  PROVE  PowCountExact'
<1>1. now[r] \in 0..MaxClock
  BY DEF Typed, TypeOK
<1>2. DayOf(now[r]) \in Days
  BY <1>1, DayInDays
<1>3. ASSUME NEW i \in Ips, NEW d \in Days, d >= DayOf(clock) - 1
      PROVE  powCount'[i][d] = Cardinality(PowClaims(i, d)')
  <2>1. powCount[i][d] = Cardinality(PowClaims(i, d))
    BY <1>3 DEF PowCountExact
  <2>2. CASE i = ip[r] /\ d = DayOf(now[r])
    <3>1. PowClaims(i, d)' = PowClaims(i, d) \cup {r} /\ r \notin PowClaims(i, d)
      BY <2>2 DEF PowClaims, request, IsFree, Typed, TypeOK
    <3>2. Cardinality(PowClaims(i, d)') = Cardinality(PowClaims(i, d)) + 1
      BY <3>1, OneMore, CountedFinite
    <3>3. powCount'[i][d] = powCount[i][d] + 1
      BY <2>2 DEF Typed, TypeOK
    <3> QED
      BY <2>1, <3>2, <3>3
  <2>3. CASE ~(i = ip[r] /\ d = DayOf(now[r]))
    <3>1. PowClaims(i, d)' = PowClaims(i, d)
      BY <2>3 DEF PowClaims, request, IsFree, Typed, TypeOK
    <3>2. powCount'[i][d] = powCount[i][d]
      BY <1>2, <2>3 DEF Typed, TypeOK
    <3> QED
      BY <2>1, <3>1, <3>2
  <2> QED
    BY <2>2, <2>3
<1> QED
  BY <1>3 DEF PowCountExact, DayOf, request

\* The payout that request r counts is one more of its day.
LEMMA UsageCountsOne ==
  ASSUME Gated, IsFiniteSet(Arrived), UsageLow, UsageHigh, NEW r \in Requests,
         pc[r] \in {"usage", "usageInsert"}, pc' = [pc EXCEPT ![r] = "claim"],
         usage' = [usage EXCEPT ![DayOf(now[r])] = @ + 1],
         UNCHANGED <<clock, request, lnd>>
  PROVE  UsageLow' /\ UsageHigh'
<1>1. now[r] \in 0..MaxClock /\ lnd[r] = "paid"
  BY DEF Gated, Typed, TypeOK, Gates, Gate, PastAnswer
<1>2. DayOf(now[r]) \in Days
  BY <1>1, DayInDays
<1>3. ASSUME NEW d \in Days, d = DayOf(now[r])
      PROVE  /\ usage'[d] = usage[d] + 1
             /\ Cardinality(Counted(d)') = Cardinality(Counted(d)) + 1
             /\ Cardinality(Booked(d)') = Cardinality(Booked(d)) + 1
  <2>1. usage'[d] = usage[d] + 1
    BY <1>3 DEF Gated, Typed, TypeOK
  <2>2. Counted(d)' = Counted(d) \cup {r} /\ r \notin Counted(d)
    BY <1>3 DEF Counted, request, Gated, Typed, TypeOK
  <2>3. Booked(d)' = Booked(d) \cup {r} /\ r \notin Booked(d)
    BY <1>1, <1>3 DEF Booked, PaidOn, Recorded, request, Gated, Typed, TypeOK
  <2> QED
    BY <2>1, <2>2, <2>3, OneMore, CountedFinite
<1>4. ASSUME NEW d \in Days, d # DayOf(now[r])
      PROVE  usage'[d] = usage[d] /\ Counted(d)' = Counted(d) /\ Booked(d)' = Booked(d)
  <2>1. usage'[d] = usage[d]
    BY <1>2, <1>4 DEF Gated, Typed, TypeOK
  <2>2. Counted(d)' = Counted(d)
    BY <1>4 DEF Counted, request, Gated, Typed, TypeOK
  <2>3. Booked(d)' = Booked(d)
    BY <1>4 DEF Booked, PaidOn, Recorded, request, Gated, Typed, TypeOK
  <2> QED
    BY <2>1, <2>2, <2>3
<1>5. \A d \in Days : /\ Cardinality(Counted(d)) \in Nat /\ Cardinality(Booked(d)) \in Nat
                      /\ usage[d] \in Nat
  BY CountedFinite, FS_CardinalityType DEF Gated, Typed, TypeOK
<1>6. DayOf(clock)' = DayOf(clock)
  BY DEF DayOf
<1>7. UsageLow'
  BY <1>3, <1>4, <1>5, <1>6 DEF UsageLow
<1>8. UsageHigh'
  BY <1>3, <1>4, <1>5 DEF UsageHigh
<1> QED
  BY <1>7, <1>8
-----------------------------------------------------------------------------
LEMMA CountsInit == Init => Counts
<1> SUFFICES ASSUME Init PROVE Counts
  OBVIOUS
<1>1. Gated
  BY GatedInit
<1>2. Arrived = {} /\ IsFiniteSet({}) /\ Cardinality({}) = 0
  BY FS_EmptySet DEF Init, Arrived
<1>3. PowCountExact
  <2>1. \A i \in Ips, d \in Days : PowClaims(i, d) = {} /\ powCount[i][d] = 0
    BY DEF Init, PowClaims
  <2> QED
    BY <1>2, <2>1 DEF PowCountExact
<1>4. UsageLow /\ UsageHigh
  <2>1. \A d \in Days : Counted(d) = {} /\ Booked(d) = {} /\ usage[d] = 0
    BY DEF Init, Counted, Booked, PaidOn
  <2> QED
    BY <1>2, <2>1 DEF UsageLow, UsageHigh
<1> QED
  BY <1>1, <1>2, <1>3, <1>4 DEF Counts

LEMMA PowNext == Counts /\ [Next]_vars => PowCountExact'
<1> SUFFICES ASSUME Counts, [Next]_vars PROVE PowCountExact'
  OBVIOUS
<1> USE FaucetAssumption DEF Counts, Gated, Typed, TypeOK, Stands, IsFree, Settled, Goto,
        tables, history, request
<1>0. /\ DayOf(clock) \in Nat /\ DayOf(clock') \in Nat
      /\ clock <= clock' => DayOf(clock) <= DayOf(clock')
  <2>1. clock \in Nat /\ clock' \in Nat
    BY TypedNext
  <2> QED
    BY <2>1, LaterDay
<1>1. ASSUME NEW r \in Requests, Serve(r), ~UpdatePowClaim(r), ~InsertPowClaim(r)
      PROVE  PowCountExact'
  <2>1. UNCHANGED <<clock, request, powCount>>
    BY <1>1 DEF Serve, Approve, Refuse, Redeem, RefuseReplay, Send, SendReturns,
       SendRefused, SendTimesOut, UpdateUsage, InsertUsage, SkipClaim, RecordIpClaim
  <2>2. /\ \A q \in Requests : pc[q] = "done" => pc'[q] = "done"
        /\ \A q \in Requests : pc'[q] = "done" /\ pc[q] # "done" =>
             pc[q] # "new" /\ (ip[q] = NoIp \/ IsFree(q))
    BY <1>1 DEF Serve, Approve, Refuse, Redeem, RefuseReplay, Send, SendReturns,
       SendRefused, SendTimesOut, UpdateUsage, InsertUsage, SkipClaim, RecordIpClaim
  <2> QED
    BY <1>0, <2>1, <2>2, PowQuiet
<1>2. ASSUME NEW r \in Requests, UpdatePowClaim(r)
      PROVE  PowCountExact'
  <2>1. CASE powCount[ip[r]][DayOf(now[r])] > 0
    BY <1>2, <2>1, PowCountsOne DEF UpdatePowClaim
  <2>2. CASE ~(powCount[ip[r]][DayOf(now[r])] > 0)
    <3>1. UNCHANGED <<clock, request, powCount>>
      BY <1>2, <2>2 DEF UpdatePowClaim
    <3>2. \A q \in Requests : pc[q] = "done" <=> pc'[q] = "done"
      BY <1>2, <2>2 DEF UpdatePowClaim
    <3> QED
      BY <1>0, <3>1, <3>2, PowQuiet
  <2> QED
    BY <2>1, <2>2
<1>3. ASSUME NEW r \in Requests, InsertPowClaim(r)
      PROVE  PowCountExact'
  BY <1>3, PowCountsOne DEF InsertPowClaim
<1>4. ASSUME NEW r \in Requests, NEW i \in Ips \cup {NoIp},
             NEW n \in Nonces \cup {NoNonce}, Arrive(r, i, n)
      PROVE  PowCountExact'
  <2>1. \A q \in Requests : pc[q] = "done" <=> pc'[q] = "done"
    BY <1>4 DEF Arrive
  <2>2. Settled /\ UNCHANGED <<clock, powCount>>
    BY <1>4 DEF Arrive
  <2> QED
    BY <1>0, <2>1, <2>2, PowQuiet
<1>5. ASSUME NEW r \in Requests, Die(r) \/ LndPay(r)
      PROVE  PowCountExact'
  <2>1. UNCHANGED <<clock, request, powCount>>
    BY <1>5 DEF Die, LndPay
  <2>2. \A q \in Requests : pc[q] = "done" <=> pc'[q] = "done"
    BY <1>5 DEF Die, LndPay, Active, Running
  <2> QED
    BY <1>0, <2>1, <2>2, PowQuiet
<1>6. CASE PurgePowClaims
  <2>1. UNCHANGED <<clock, request, pc>>
    BY <1>6 DEF PurgePowClaims
  <2>2. \A i \in Ips, d \in Days : d >= DayOf(clock) - 1 => powCount'[i][d] = powCount[i][d]
    <3>1. \A d \in Days : d \in Int
      BY LaterDay DEF Days
    <3> QED
      BY <1>0, <1>6, <3>1 DEF PurgePowClaims
  <2> QED
    BY <1>0, <2>1, <2>2, PowQuiet
<1>7. CASE PurgeNonces \/ PurgeIpClaims \/ PurgeUsage \/ Tick \/ UNCHANGED vars
           \/ \E n \in Nonces : IssueChallenge(n)
  <2>1. UNCHANGED <<pc, request, powCount>> /\ clock <= clock'
    BY <1>7 DEF PurgeNonces, PurgeIpClaims, PurgeUsage, Tick, vars, IssueChallenge
  <2> QED
    BY <1>0, <2>1, PowQuiet
<1> QED
  BY <1>1, <1>2, <1>3, <1>4, <1>5, <1>6, <1>7 DEF Next, Maintain

LEMMA UsageNext == Counts /\ [Next]_vars => UsageLow' /\ UsageHigh'
<1> SUFFICES ASSUME Counts, [Next]_vars PROVE UsageLow' /\ UsageHigh'
  OBVIOUS
<1>0. IsFiniteSet(Arrived)'
  BY ArrivedFinite DEF Counts, Gated
<1> USE FaucetAssumption DEF Counts, Gated, Typed, TypeOK, IsFree, Settled, Goto,
        tables, history, request, Recorded
<1>1. /\ DayOf(clock) \in Nat /\ DayOf(clock') \in Nat
      /\ clock <= clock' => DayOf(clock) <= DayOf(clock')
  <2>1. clock \in Nat /\ clock' \in Nat
    BY TypedNext
  <2> QED
    BY <2>1, LaterDay
<1>2. ASSUME NEW r \in Requests, Serve(r), ~UpdateUsage(r), ~InsertUsage(r)
      PROVE  UsageLow' /\ UsageHigh'
  <2>1. UNCHANGED <<clock, request, usage>>
    BY <1>2 DEF Serve, Approve, Refuse, Redeem, RefuseReplay, Send, SendReturns,
       SendRefused, SendTimesOut, SkipClaim, RecordIpClaim, UpdatePowClaim, InsertPowClaim
  <2>2. /\ \A q \in Requests : pc'[q] \in Recorded => pc[q] \in Recorded
        /\ \A q \in Requests : pc[q] \in Recorded \cup {"ended"} =>
             pc'[q] \in Recorded \cup {"ended"}
        /\ \A q \in Requests : lnd[q] = "paid" => lnd'[q] = "paid"
    BY <1>2 DEF Serve, Approve, Refuse, Redeem, RefuseReplay, Send, SendReturns, Gates,
       Gate, BeforeGate,
       SendRefused, SendTimesOut, SkipClaim, RecordIpClaim, UpdatePowClaim, InsertPowClaim
  <2> QED
    BY <1>0, <1>1, <2>1, <2>2, UsageQuiet
<1>3. ASSUME NEW r \in Requests, UpdateUsage(r)
      PROVE  UsageLow' /\ UsageHigh'
  <2>1. CASE usage[DayOf(now[r])] > 0
    BY <1>3, <2>1, UsageCountsOne DEF UpdateUsage
  <2>2. CASE ~(usage[DayOf(now[r])] > 0)
    <3>1. UNCHANGED <<clock, request, usage, lnd>>
      BY <1>3, <2>2 DEF UpdateUsage
    <3>2. \A q \in Requests : /\ pc'[q] \in Recorded => pc[q] \in Recorded
                              /\ pc[q] \in Recorded \cup {"ended"} =>
                                   pc'[q] \in Recorded \cup {"ended"}
      BY <1>3, <2>2 DEF UpdateUsage
    <3> QED
      BY <1>0, <1>1, <3>1, <3>2, UsageQuiet
  <2> QED
    BY <2>1, <2>2
<1>4. ASSUME NEW r \in Requests, InsertUsage(r)
      PROVE  UsageLow' /\ UsageHigh'
  BY <1>4, UsageCountsOne DEF InsertUsage
<1>5. ASSUME NEW r \in Requests, NEW i \in Ips \cup {NoIp},
             NEW n \in Nonces \cup {NoNonce}, Arrive(r, i, n)
      PROVE  UsageLow' /\ UsageHigh'
  <2>1. \A q \in Requests : /\ pc'[q] \in Recorded => pc[q] \in Recorded
                            /\ pc[q] \in Recorded \cup {"ended"} =>
                                 pc'[q] \in Recorded \cup {"ended"}
    BY <1>5 DEF Arrive
  <2>2. Settled /\ UNCHANGED <<clock, usage, lnd>>
    BY <1>5 DEF Arrive
  <2> QED
    BY <1>0, <1>1, <2>1, <2>2, UsageQuiet
<1>6. ASSUME NEW r \in Requests, Die(r) \/ LndPay(r)
      PROVE  UsageLow' /\ UsageHigh'
  <2>1. UNCHANGED <<clock, request, usage>>
    BY <1>6 DEF Die, LndPay
  <2>2. \A q \in Requests : /\ pc'[q] \in Recorded => pc[q] \in Recorded
                            /\ pc[q] \in Recorded \cup {"ended"} =>
                                 pc'[q] \in Recorded \cup {"ended"}
                            /\ lnd[q] = "paid" => lnd'[q] = "paid"
    BY <1>6 DEF Die, LndPay
  <2> QED
    BY <1>0, <1>1, <2>1, <2>2, UsageQuiet
<1>7. CASE PurgeUsage
  <2>1. UNCHANGED <<clock, request, pc, lnd>>
    BY <1>7 DEF PurgeUsage
  <2>2. \A d \in Days : /\ usage'[d] \in Nat /\ usage'[d] <= usage[d]
                        /\ d >= DayOf(clock) - RetentionDays => usage'[d] = usage[d]
    <3>1. \A d \in Days : d \in Int
      BY LaterDay DEF Days
    <3> QED
      BY <1>1, <1>7, <3>1 DEF PurgeUsage
  <2> QED
    BY <1>0, <1>1, <2>1, <2>2, UsageQuiet
<1>8. CASE PurgeNonces \/ PurgeIpClaims \/ PurgePowClaims \/ Tick \/ UNCHANGED vars
           \/ \E n \in Nonces : IssueChallenge(n)
  <2>1. UNCHANGED <<pc, request, usage, lnd>> /\ clock <= clock'
    BY <1>8 DEF PurgeNonces, PurgeIpClaims, PurgePowClaims, Tick, vars, IssueChallenge
  <2> QED
    BY <1>0, <1>1, <2>1, UsageQuiet
<1> QED
  BY <1>2, <1>3, <1>4, <1>5, <1>6, <1>7, <1>8 DEF Next, Maintain

\* The invariant of the counters.
THEOREM CountsInductive == Spec => []Counts
<1>1. Counts /\ [Next]_vars => Counts'
  BY GatedNext, ArrivedFinite, PowNext, UsageNext DEF Counts, Gated
<1> QED
  BY <1>1, CountsInit, PTL DEF Spec

\* PowCountExact: the PoW counter of a day that can still be asked for is the number of
\* PoW claims made, whatever the order of the updates, inserts and purges of store.py.
THEOREM PowCounterExact == Spec => []PowCountExact
<1>1. Counts => PowCountExact
  BY DEF Counts
<1> QED
  BY <1>1, CountsInductive, PTL

\* UsageCountsPayouts: the usage history loses no payout that reached it and counts none
\* that the wallet did not make.
THEOREM UsageHistoryHonest == Spec => []UsageCountsPayouts
<1>1. Counts => UsageCountsPayouts
  <2> SUFFICES ASSUME Counts, NEW d \in Days, d >= DayOf(clock) - RetentionDays
               PROVE  /\ Cardinality(Counted(d)) <= usage[d]
                      /\ usage[d] <= Cardinality(PaidOn(d))
    BY DEF UsageCountsPayouts
  <2>1. Booked(d) \subseteq PaidOn(d) /\ PaidOn(d) \subseteq Arrived
    BY DEF Booked, PaidOn, Arrived, Counts, Gated, Gates, Gate, BeforeGate
  <2>2. IsFiniteSet(PaidOn(d)) /\ IsFiniteSet(Booked(d))
    BY <2>1, FS_Subset DEF Counts
  <2>3. /\ Cardinality(Booked(d)) <= Cardinality(PaidOn(d))
        /\ Cardinality(Booked(d)) \in Nat /\ Cardinality(PaidOn(d)) \in Nat
    BY <2>1, <2>2, FS_Subset, FS_CardinalityType
  <2>4. usage[d] \in Nat /\ usage[d] <= Cardinality(Booked(d))
    BY DEF Counts, UsageHigh, Gated, Typed, TypeOK
  <2> QED
    BY <2>3, <2>4 DEF Counts, UsageLow
<1> QED
  BY <1>1, CountsInductive, PTL
-----------------------------------------------------------------------------
(***************************************************************************)
(* The cap on PoW claims.  A request takes a place under the cap when it   *)
(* is approved, and keeps it until it ends without a record.               *)
(***************************************************************************)
Asks(r, i) == ip[r] = i /\ ~IsFree(r)

Placed(i, d) ==
  {r \in Requests : /\ pc[r] \in (Running \ {"check"}) \cup {"done"}
                    /\ Asks(r, i) /\ DayOf(now[r]) = d}

\* Two open PoW requests of one IP have raced.
OneOpen ==
  \A a, b \in Requests : \A i \in Ips :
    (a # b /\ Active(a) /\ Active(b) /\ Asks(a, i) /\ Asks(b, i)) => i \in raced

\* The worker timeout bounds the age of the instant a request works with.
Young == \A r \in Requests : Active(r) => clock - now[r] <= RequestLife

Capped == MaxPerDay > 0 =>
            \A i \in Ips \ raced, d \in Days : Cardinality(Placed(i, d)) <= MaxPerDay

Places == Counts /\ OneOpen /\ Young /\ Capped

LEMMA PlacedFinite ==
  ASSUME IsFiniteSet(Arrived)
  PROVE  \A i \in Ips, d \in Days : IsFiniteSet(Placed(i, d))
<1> SUFFICES ASSUME NEW i \in Ips, NEW d \in Days PROVE IsFiniteSet(Placed(i, d))
  OBVIOUS
<1>1. Placed(i, d) \subseteq Arrived
  BY DEF Placed, Running, Arrived
<1> QED
  BY <1>1, FS_Subset

\* An instant no older than a day is of today or of yesterday.
LEMMA AtMostYesterday ==
  ASSUME NEW s \in Nat, NEW t \in Nat, s <= t, t - s <= DaySeconds
  PROVE  DayOf(s) >= DayOf(t) - 1
  BY FaucetAssumption DEF DayOf

\* Steps that give no one a place.
LEMMA CapQuiet ==
  ASSUME IsFiniteSet(Arrived), Capped, raced \subseteq raced',
         \A i \in Ips \ raced', d \in Days : Placed(i, d)' \subseteq Placed(i, d)
  PROVE  Capped'
<1> SUFFICES ASSUME MaxPerDay > 0, NEW i \in Ips \ raced', NEW d \in Days
             PROVE  Cardinality(Placed(i, d)') <= MaxPerDay
  BY DEF Capped
<1>1. Placed(i, d)' \subseteq Placed(i, d) /\ IsFiniteSet(Placed(i, d))
  BY PlacedFinite
<1>2. /\ Cardinality(Placed(i, d)') <= Cardinality(Placed(i, d))
      /\ Cardinality(Placed(i, d)') \in Nat /\ Cardinality(Placed(i, d)) \in Nat
  BY <1>1, FS_Subset, FS_CardinalityType
<1>3. Cardinality(Placed(i, d)) <= MaxPerDay
  BY DEF Capped
<1> QED
  BY <1>2, <1>3, FaucetAssumption

\* An approval: whoever has not raced has no other request open, so that those placed are
\* those who have claimed, and they are fewer than the cap.
LEMMA CapApprove ==
  ASSUME Places, RequestLife <= DaySeconds, NEW r \in Requests, Approve(r)
  PROVE  Capped'
<1> USE FaucetAssumption DEF Places, Counts, Gated, Typed, TypeOK, Goto, tables, history,
        request
<1>1. pc[r] = "check" /\ UNCHANGED <<clock, ip, nonce, now, raced>>
  BY DEF Approve
<1>2. pc' = [pc EXCEPT ![r] = IF IsFree(r) THEN "send" ELSE "redeem"]
  BY DEF Approve
<1> SUFFICES ASSUME MaxPerDay > 0, NEW i \in Ips \ raced, NEW d \in Days
             PROVE  Cardinality(Placed(i, d)') <= MaxPerDay
  BY <1>1 DEF Capped
<1>3. /\ Cardinality(Placed(i, d)) <= MaxPerDay
      /\ IsFiniteSet(Placed(i, d)) /\ Cardinality(Placed(i, d)) \in Nat
  BY PlacedFinite, FS_CardinalityType DEF Capped
<1>4. CASE Asks(r, i) /\ DayOf(now[r]) = d
  <2>1. Placed(i, d) = PowClaims(i, d)
    BY <1>1, <1>4 DEF Placed, PowClaims, Asks, OneOpen, Active, Running
  <2>2. Placed(i, d)' = Placed(i, d) \cup {r} /\ r \notin Placed(i, d)
    BY <1>1, <1>2, <1>4 DEF Placed, Asks, Running, IsFree
  <2>3. d >= DayOf(clock) - 1
    <3>1. now[r] \in Nat /\ clock \in Nat /\ now[r] <= clock
      BY DEF Gates, Gate
    <3>2. clock - now[r] <= DaySeconds
      BY <1>1, <3>1 DEF Young, Active, Running
    <3> QED
      BY <1>4, <3>1, <3>2, AtMostYesterday
  <2>4. powCount[i][d] < MaxPerDay
    BY <1>4 DEF Approve, PowDailyCap, PowClaimsToday, Asks
  <2>5. powCount[i][d] = Cardinality(PowClaims(i, d))
    BY <2>3 DEF PowCountExact
  <2>6. Cardinality(Placed(i, d)') = Cardinality(Placed(i, d)) + 1
    BY <1>3, <2>2, OneMore
  <2> QED
    BY <1>3, <2>1, <2>4, <2>5, <2>6
<1>5. CASE ~(Asks(r, i) /\ DayOf(now[r]) = d)
  <2>1. Placed(i, d)' = Placed(i, d)
    BY <1>1, <1>2, <1>5 DEF Placed, Asks, Running, IsFree
  <2> QED
    BY <1>3, <2>1
<1> QED
  BY <1>4, <1>5

LEMMA PlacesInit == Init => Places
<1> SUFFICES ASSUME Init PROVE Places
  OBVIOUS
<1>1. Counts
  BY CountsInit
<1>2. OneOpen /\ Young
  BY DEF Init, OneOpen, Young, Active, Running
<1>3. Capped
  <2>1. \A i \in Ips, d \in Days : Placed(i, d) = {}
    BY DEF Init, Placed, Running
  <2>2. Cardinality({}) = 0
    BY FS_EmptySet
  <2> QED
    BY <2>1, <2>2, FaucetAssumption DEF Capped
<1> QED
  BY <1>1, <1>2, <1>3 DEF Places

LEMMA PlacesNext == Places /\ RequestLife <= DaySeconds /\ [Next]_vars => Places'
<1> SUFFICES ASSUME Places, RequestLife <= DaySeconds, [Next]_vars PROVE Places'
  OBVIOUS
<1>1. Counts'
  BY GatedNext, ArrivedFinite, PowNext, UsageNext DEF Places, Counts, Gated
<1> USE FaucetAssumption DEF Places, Counts, Gated, Typed, TypeOK, Goto, tables, history,
        request
<1>2. ASSUME NEW r \in Requests, NEW i \in Ips \cup {NoIp},
             NEW n \in Nonces \cup {NoNonce}, Arrive(r, i, n)
      PROVE  OneOpen' /\ Young' /\ Capped'
  <2>1. OneOpen'
    BY <1>2 DEF Arrive, OneOpen, Active, Running, Asks, IsFree
  <2>2. Young'
    BY <1>2 DEF Arrive, Young, Active, Running
  <2>3. raced \subseteq raced' /\ pc[r] = "new" /\ pc' = [pc EXCEPT ![r] = "check"]
    BY <1>2 DEF Arrive
  <2>4. \A j \in Ips, d \in Days : Placed(j, d)' = Placed(j, d)
    BY <1>2, <2>3 DEF Arrive, Placed, Asks, Running, IsFree
  <2> QED
    BY <2>1, <2>2, <2>3, <2>4, CapQuiet
<1>3. ASSUME NEW r \in Requests, Serve(r) \/ Die(r)
      PROVE  OneOpen' /\ Young' /\ Capped'
  <2>1. UNCHANGED <<clock, ip, nonce, now, raced>>
    BY <1>3 DEF Serve, Approve, Refuse, Redeem, RefuseReplay, Send, SendReturns, Die,
       SendRefused, SendTimesOut, UpdateUsage, InsertUsage, SkipClaim, RecordIpClaim,
       UpdatePowClaim, InsertPowClaim
  <2>2. /\ Active(r)
        /\ \A q \in Requests \ {r} : pc'[q] = pc[q]
    BY <1>3 DEF Serve, Approve, Refuse, Redeem, RefuseReplay, Send, SendReturns, Die,
       SendRefused, SendTimesOut, UpdateUsage, InsertUsage, SkipClaim, RecordIpClaim,
       UpdatePowClaim, InsertPowClaim, Active, Running
  <2>3. OneOpen' /\ Young'
    BY <2>1, <2>2 DEF OneOpen, Young, Active, Asks, IsFree
  <2>4. CASE Approve(r)
    BY <2>3, <2>4, CapApprove
  <2>5. CASE ~Approve(r)
    <3>1. pc[r] = "check" => pc'[r] = "ended"
      BY <1>3, <2>5 DEF Serve, Refuse, Redeem, RefuseReplay, Send, SendReturns, Die,
         SendRefused, SendTimesOut, UpdateUsage, InsertUsage, SkipClaim, RecordIpClaim,
         UpdatePowClaim, InsertPowClaim
    <3>2. \A i \in Ips, d \in Days : Placed(i, d)' \subseteq Placed(i, d)
      BY <2>1, <2>2, <3>1 DEF Placed, Asks, Active, Running, IsFree
    <3> QED
      BY <2>1, <2>3, <3>2, CapQuiet
  <2> QED
    BY <2>4, <2>5
<1>4. CASE Tick
  <2>1. UNCHANGED <<pc, ip, nonce, now, raced>>
    BY <1>4 DEF Tick
  <2>2. OneOpen' /\ (\A i \in Ips, d \in Days : Placed(i, d)' \subseteq Placed(i, d))
    BY <2>1 DEF OneOpen, Placed, Active, Asks, IsFree
  <2>3. Young'
    BY <1>4 DEF Tick, Young, Active
  <2>4. Capped'
    BY <2>1, <2>2, CapQuiet
  <2> QED
    BY <1>1, <2>2, <2>3, <2>4
<1>5. CASE Maintain \/ UNCHANGED vars \/ (\E r \in Requests : LndPay(r))
           \/ \E n \in Nonces : IssueChallenge(n)
  <2>1. UNCHANGED <<clock, pc, ip, nonce, now, raced>>
    BY <1>5 DEF Maintain, PurgeNonces, PurgePowClaims, PurgeIpClaims, PurgeUsage, vars,
       LndPay, IssueChallenge
  <2>2. OneOpen' /\ Young'
    BY <2>1 DEF OneOpen, Young, Active, Asks, IsFree
  <2>3. \A i \in Ips, d \in Days : Placed(i, d)' \subseteq Placed(i, d)
    BY <2>1 DEF Placed, Asks, IsFree
  <2>4. Capped'
    BY <2>1, <2>3, CapQuiet
  <2> QED
    BY <1>1, <2>2, <2>4
<1> QED
  BY <1>1, <1>2, <1>3, <1>4, <1>5 DEF Next

\* SerialPowCap: an IP that never has two PoW requests open at once makes no more than
\* pow_max_per_day PoW claims in a day, as long as the worker timeout is below a day: the
\* count of a day must not be purged while a request that asked on it is open.
THEOREM PowCapHolds == RequestLife <= DaySeconds /\ Spec => []SerialPowCap
<1>1. Places => SerialPowCap
  <2> SUFFICES ASSUME Places, MaxPerDay > 0, NEW i \in Ips \ raced, NEW d \in Days
               PROVE  Cardinality(PowClaims(i, d)) <= MaxPerDay
    BY DEF SerialPowCap
  <2>1. PowClaims(i, d) \subseteq Placed(i, d) /\ IsFiniteSet(Placed(i, d))
    BY PlacedFinite DEF PowClaims, Placed, Asks, Places, Counts
  <2>2. /\ Cardinality(PowClaims(i, d)) <= Cardinality(Placed(i, d))
        /\ Cardinality(PowClaims(i, d)) \in Nat /\ Cardinality(Placed(i, d)) \in Nat
    BY <2>1, FS_Subset, FS_CardinalityType
  <2> QED
    BY <2>2, FaucetAssumption DEF Places, Capped
<1> SUFFICES ASSUME RequestLife <= DaySeconds PROVE Spec => []SerialPowCap
  OBVIOUS
<1>2. Places /\ [Next]_vars => Places'
  BY PlacesNext
<1> QED
  BY <1>1, <1>2, PlacesInit, PTL DEF Spec
-----------------------------------------------------------------------------
(***************************************************************************)
(* The daily purge that Faucet.tla lets happen at any time is claimed by   *)
(* the maintenance threads of its NumWorkers workers, once in DaySeconds:  *)
(* FaucetMaintenance.tla with the constants of the faucet, for starts that *)
(* are staggered.                                                          *)
(***************************************************************************)
CONSTANT MaxFaults
VARIABLES at, age, expired, sinceWin, faults

Workers == 1..NumWorkers

Upkeep == INSTANCE FaucetMaintenance WITH Interval <- DaySeconds, Staggered <- TRUE

(***************************************************************************)
(* A worker that is about to seed the Maintenance table has seen it empty; *)
(* if starts are staggered nobody else fills it meanwhile, so a row that   *)
(* is due was seeded before any claim was won, or claimed an interval ago. *)
(***************************************************************************)
Seeded == \E w \in Workers : age[w] # Upkeep!NoRow

OneStarts ==
  \A v, w \in Workers : (at[v] \in Upkeep!Starting /\ at[w] \in Upkeep!Starting) => v = w
Unseeded == \A w \in Workers : at[w] = "insert" => ~Seeded
NoEarlyWin == ~Seeded => sinceWin = DaySeconds
OneRow == \A v, w \in Workers : (age[v] # Upkeep!NoRow /\ age[w] # Upkeep!NoRow) => v = w
RowsAge == \A w \in Workers : age[w] # Upkeep!NoRow => age[w] <= sinceWin

SeedSafe == Upkeep!TypeOK /\ OneStarts /\ Unseeded /\ NoEarlyWin /\ OneRow /\ RowsAge

LEMMA RowsTypedInit ==
  ASSUME MaxFaults \in Nat PROVE Upkeep!Init => Upkeep!TypeOK
  BY FaucetAssumption DEF Upkeep!Init, Upkeep!TypeOK

LEMMA RowsTypedNext ==
  ASSUME MaxFaults \in Nat
  PROVE  Upkeep!TypeOK /\ [Upkeep!Next]_(Upkeep!vars) => Upkeep!TypeOK'
<1> SUFFICES ASSUME Upkeep!TypeOK, [Upkeep!Next]_(Upkeep!vars) PROVE Upkeep!TypeOK'
  OBVIOUS
<1> USE FaucetAssumption
    DEF Upkeep!TypeOK, Upkeep!Goto, Upkeep!Starting, Upkeep!Tables, Upkeep!NoRow,
        Upkeep!Capped
<1>1. ASSUME NEW w \in Workers, Upkeep!Start(w) PROVE Upkeep!TypeOK'
  BY <1>1 DEF Upkeep!Start
<1>2. ASSUME NEW w \in Workers, Upkeep!SeedSelect(w) PROVE Upkeep!TypeOK'
  BY <1>2 DEF Upkeep!SeedSelect
<1>3. ASSUME NEW w \in Workers, Upkeep!SeedInsert(w) PROVE Upkeep!TypeOK'
  BY <1>3 DEF Upkeep!SeedInsert
<1>4. ASSUME NEW w \in Workers, Upkeep!Claim(w) PROVE Upkeep!TypeOK'
  BY <1>4 DEF Upkeep!Claim
<1>5. ASSUME NEW w \in Workers, Upkeep!Purge(w) PROVE Upkeep!TypeOK'
  BY <1>5 DEF Upkeep!Purge, Upkeep!After
<1>6. ASSUME NEW w \in Workers, Upkeep!Wake(w) PROVE Upkeep!TypeOK'
  BY <1>6 DEF Upkeep!Wake
<1>7. ASSUME NEW w \in Workers, Upkeep!Hiccup(w) PROVE Upkeep!TypeOK'
  BY <1>7 DEF Upkeep!Hiccup
<1>8. ASSUME NEW w \in Workers, Upkeep!Crash(w) PROVE Upkeep!TypeOK'
  BY <1>8 DEF Upkeep!Crash
<1>9. CASE Upkeep!Tick
  BY <1>9 DEF Upkeep!Tick
<1>10. CASE UNCHANGED Upkeep!vars
  BY <1>10 DEF Upkeep!vars
<1> QED
  BY <1>1, <1>2, <1>3, <1>4, <1>5, <1>6, <1>7, <1>8, <1>9, <1>10 DEF Upkeep!Next, Upkeep!Step

\* A claim that is won finds a row that is due.
LEMMA WonNeedsRow ==
  ASSUME Upkeep!Cardinality(Upkeep!Due) = 1 PROVE \E v \in Workers : age[v] = DaySeconds
<1>1. Upkeep!Cardinality({}) = Cardinality({})
  BY Zenon DEF Cardinality, Upkeep!Cardinality
<1>2. Upkeep!Due # {}
  BY <1>1, FS_EmptySet
<1> QED
  BY <1>2 DEF Upkeep!Due

LEMMA SeedSafeInit ==
  ASSUME MaxFaults \in Nat PROVE Upkeep!Init => SeedSafe
  BY RowsTypedInit
  
  DEF Upkeep!Init, SeedSafe, OneStarts, Unseeded, NoEarlyWin, OneRow, RowsAge, Seeded,
      Upkeep!Starting

LEMMA SeedSafeNext ==
  ASSUME MaxFaults \in Nat
  PROVE  SeedSafe /\ [Upkeep!Next]_(Upkeep!vars) => SeedSafe'
<1> SUFFICES ASSUME SeedSafe, [Upkeep!Next]_(Upkeep!vars)
             PROVE  (OneStarts /\ Unseeded /\ NoEarlyWin /\ OneRow /\ RowsAge)'
  BY RowsTypedNext DEF SeedSafe
<1> USE FaucetAssumption
    DEF SeedSafe, Upkeep!TypeOK, OneStarts, Unseeded, NoEarlyWin, OneRow, RowsAge, Seeded,
        Upkeep!Goto, Upkeep!Starting, Upkeep!Tables, Upkeep!NoRow, Upkeep!Capped
<1> DEFINE Safe == OneStarts /\ Unseeded /\ NoEarlyWin /\ OneRow /\ RowsAge
<1>1. ASSUME NEW w \in Workers, Upkeep!Start(w) PROVE Safe'
  BY <1>1 DEF Upkeep!Start
<1>2. ASSUME NEW w \in Workers, Upkeep!SeedSelect(w) PROVE Safe'
  BY <1>2 DEF Upkeep!SeedSelect
<1>3. ASSUME NEW w \in Workers, Upkeep!SeedInsert(w) PROVE Safe'
  BY <1>3 DEF Upkeep!SeedInsert
<1>4. ASSUME NEW w \in Workers, Upkeep!Claim(w) PROVE Safe'
<2>1. age' \in [Workers -> {Upkeep!NoRow} \cup 0..DaySeconds]
  BY <1>4 DEF Upkeep!Claim
<2>2. \A v \in Workers : age'[v] # Upkeep!NoRow <=> age[v] # Upkeep!NoRow
  BY <1>4 DEF Upkeep!Claim, Upkeep!Due
<2>3. (OneStarts /\ Unseeded /\ OneRow)'
  BY <1>4, <2>2 DEF Upkeep!Claim
<2>4. CASE Upkeep!Cardinality(Upkeep!Due) = 1
  <3>1. PICK v \in Workers : age[v] = DaySeconds
    BY <2>4, WonNeedsRow
  <3>2. age'[v] = 0 /\ \A u \in Workers \ {v} : age[u] = Upkeep!NoRow
    BY <1>4, <3>1 DEF Upkeep!Claim, Upkeep!Due
  <3> QED
    BY <1>4, <2>2, <2>3, <2>4, <3>1, <3>2 DEF Upkeep!Claim
<2>5. CASE Upkeep!Cardinality(Upkeep!Due) # 1
  <3>1. sinceWin' = sinceWin
    BY <1>4, <2>5 DEF Upkeep!Claim
  <3>2. \A v \in Workers : age[v] # Upkeep!NoRow => age'[v] <= age[v]
    BY <1>4 DEF Upkeep!Claim, Upkeep!Due
  <3> QED
    BY <2>1, <2>2, <2>3, <3>1, <3>2
<2> QED
  BY <2>4, <2>5
<1>5. ASSUME NEW w \in Workers, Upkeep!Purge(w) PROVE Safe'
  BY <1>5 DEF Upkeep!Purge, Upkeep!After
<1>6. ASSUME NEW w \in Workers, Upkeep!Wake(w) PROVE Safe'
  BY <1>6 DEF Upkeep!Wake
<1>7. ASSUME NEW w \in Workers, Upkeep!Hiccup(w) PROVE Safe'
  BY <1>7 DEF Upkeep!Hiccup
<1>8. ASSUME NEW w \in Workers, Upkeep!Crash(w) PROVE Safe'
  BY <1>8 DEF Upkeep!Crash
<1>9. CASE Upkeep!Tick
  BY <1>9 DEF Upkeep!Tick
<1>10. CASE UNCHANGED Upkeep!vars
  BY <1>10 DEF Upkeep!vars
<1> QED
  BY <1>1, <1>2, <1>3, <1>4, <1>5, <1>6, <1>7, <1>8, <1>9, <1>10 DEF Upkeep!Next, Upkeep!Step

\* "True to exactly one caller per interval" holds of claim_maintenance_run
\* for every number of workers and crashes, provided no two workers seed the
\* Maintenance table at the same time: ClaimsSpaced, with Staggered TRUE.
THEOREM ClaimedOncePerInterval ==
  ASSUME MaxFaults \in Nat PROVE Upkeep!Spec => Upkeep!ClaimsSpaced
<1>1. SeedSafe /\ [Upkeep!Next]_(Upkeep!vars)
        => [sinceWin' < sinceWin => sinceWin = DaySeconds]_sinceWin
  <2> SUFFICES ASSUME SeedSafe, [Upkeep!Next]_(Upkeep!vars), sinceWin' < sinceWin
               PROVE  sinceWin = DaySeconds
    OBVIOUS
  <2>1. PICK w \in Workers : Upkeep!Claim(w)
    BY FaucetAssumption
    DEF SeedSafe, Upkeep!TypeOK, Upkeep!Next, Upkeep!Step, Upkeep!Start,
        Upkeep!SeedSelect, Upkeep!SeedInsert, Upkeep!Purge, Upkeep!Wake, Upkeep!Hiccup,
        Upkeep!Crash, Upkeep!Tick, Upkeep!Capped, Upkeep!vars
  <2>2. Upkeep!Cardinality(Upkeep!Due) = 1
    BY <2>1, FaucetAssumption DEF Upkeep!Claim, SeedSafe, Upkeep!TypeOK
  <2> QED
    BY <2>2, WonNeedsRow, FaucetAssumption DEF SeedSafe, Upkeep!TypeOK, RowsAge, Upkeep!NoRow
<1> QED
  BY <1>1, SeedSafeInit, SeedSafeNext, PTL DEF Upkeep!Spec, Upkeep!ClaimsSpaced
=============================================================================
