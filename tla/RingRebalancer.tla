---------------------------- MODULE RingRebalancer ----------------------------
(***************************************************************************)
(* The balances of the three ring channels once they are active, and the   *)
(* two scripts that move them with circular self-payments: the last part   *)
(* of lnd-channels (the initial rebalance) and the lnd-rebalancer loop     *)
(* (argus/builders/lnd.py).  They run at the same time and look at         *)
(* balances that payments of users change too.                             *)
(*                                                                         *)
(* Node n opened channel n to node n + 1.  own[n] is what node n owns of   *)
(* it; node n + 1 owns the rest.  A payment around the ring shifts all     *)
(* three by the same amount.  Routing fees are left out.                   *)
(***************************************************************************)
EXTENDS Integers

CONSTANTS
  Cap,            \* CHAN_SAT, the capacity of a ring channel
  Reserve,        \* what the side that pays must keep in a channel
  Low, High,      \* the band, in percent
  MinAmount,      \* MIN_REBAL_SAT
  Tries,          \* attempts of the initial rebalance (12)
  Amounts,        \* what users pay
  MaxPayments,    \* bound of the model: how many payments users make
  MaxFaults       \* bound of the model: how many faults happen

ASSUME RebalancerAssumption ==
  /\ Cap \in Nat \ {0} /\ Reserve \in 1..Cap
  /\ Cap - (Cap \div 2) < (Cap \div 2) + Reserve
  /\ Low \in 1..99 /\ High \in 1..99 /\ Low < High
  /\ MinAmount \in Nat \ {0, 1} /\ Tries \in Nat \ {0}
  /\ Amounts \subseteq Nat \ {0}
  /\ MaxPayments \in Nat /\ MaxFaults \in Nat

Nodes == 1..3
After(n) == IF n = 3 THEN 1 ELSE n + 1
Before(n) == IF n = 1 THEN 3 ELSE n - 1

VARIABLES
  own,      \* balances
  foreign,    \* nodes with an active channel to somebody outside the ring
  opener,     \* where lnd-channels stands
  tries,      \* its failed attempts
  marked,     \* does the marker "rebalanced" exist?
  rebal,      \* what lnd-rebalancer does: look at a node, or pay
  turn,       \* the node it deals with
  plan,       \* the shift it is about to pay for: > 0 is n, n + 1, n + 2, n
  seen,       \* history: the balances the plan was made from
  payments,   \* history: payments of users so far
  faults      \* history: faults so far

openerVars == <<opener, tries, marked>>
rebalVars == <<rebal, turn, plan, seen>>
vars == <<own, foreign, openerVars, rebalVars, payments, faults>>

Half == Cap \div 2
Nothing == [n \in Nodes |-> 0]

Init ==
  /\ own = [n \in Nodes |-> Cap]
  /\ foreign = {}
  /\ opener = "start" /\ tries = 0 /\ marked = FALSE
  /\ rebal = "look" /\ turn = 1 /\ plan = 0 /\ seen = Nothing
  /\ payments = 0
  /\ faults = 0

Shifted(b, amount) == [n \in Nodes |-> b[n] - amount]
\* Does the side that pays on each hop keep its reserve?
Spares(b, amount) == IF amount > 0 THEN b - amount >= Reserve ELSE Cap - b + amount >= Reserve
Carries(b, amount) == \A n \in Nodes : Spares(b[n], amount)
------------------------------------------------------------------------------
(* The world.                                                              *)

\* A user's payment crosses channel n in either direction.
UserPays(n) ==
  /\ payments < MaxPayments
  /\ \E amount \in Amounts \cup {-a : a \in Amounts} :
        /\ Spares(own[n], amount)
        /\ own' = [own EXCEPT ![n] = @ - amount]
  /\ payments' = payments + 1
  /\ UNCHANGED <<foreign, openerVars, rebalVars, faults>>

\* A channel with an outsider: Electrum, the Ark bridge, a stranger.
OpenForeign(n) ==
  /\ n \notin foreign
  /\ foreign' = foreign \cup {n}
  /\ UNCHANGED <<own, openerVars, rebalVars, payments, faults>>
------------------------------------------------------------------------------
(* lnd-channels, once the ring is up.                                      *)

OpenerStart ==
  /\ opener = "start"
  /\ opener' = IF marked THEN "done" ELSE "pay"
  /\ tries' = 0
  /\ UNCHANGED <<own, foreign, marked, rebalVars, payments, faults>>

\* Half a channel around the ring, 1, 2, 3, 1.
InitialRebalance ==
  /\ opener = "pay"
  /\ Carries(own, Half)
  /\ own' = Shifted(own, Half)
  /\ opener' = "touch"
  /\ UNCHANGED <<foreign, tries, marked, rebalVars, payments, faults>>

\* A mutation: a counter that is never compared with its limit.
MutantTryForever ==
  /\ opener = "pay"
  /\ tries' = tries + 1
  /\ UNCHANGED <<own, foreign, opener, marked, rebalVars, payments, faults>>

\* No route: not enough liquidity, or the graph has not settled.  Try again,
\* but not for ever.
InitialRebalanceFails ==
  /\ opener = "pay"
  /\ tries' = tries + 1
  /\ opener' = IF tries' = Tries THEN "done" ELSE "pay"
  /\ UNCHANGED <<own, foreign, marked, rebalVars, payments, faults>>

TouchRebalanced ==
  /\ opener = "touch"
  /\ marked' = TRUE
  /\ opener' = "done"
  /\ UNCHANGED <<own, foreign, tries, rebalVars, payments, faults>>

\* The script dies and docker starts it again, or docker compose up does.
OpenerRestarts ==
  /\ faults < MaxFaults
  /\ opener' = "start"
  /\ faults' = faults + 1
  /\ UNCHANGED <<own, foreign, tries, marked, rebalVars, payments>>
------------------------------------------------------------------------------
(* lnd-rebalancer.                                                         *)

Ratio(amount) == (amount * 100) \div Cap
Least(a, b) == IF b < a THEN b ELSE a
WithinBand(full, empty) == Ratio(full) <= High /\ Ratio(empty) >= Low

\* A mutation: all that the full side must shed.
MutantShed(full, empty) ==
  LET amount == full - Half IN
  IF WithinBand(full, empty) \/ amount < MinAmount THEN 0 ELSE amount

\* A mutation: half of what brings one side to the middle.
MutantPartial(full, empty) ==
  LET amount == Least(full - Half, Half - empty) \div 2 IN
  IF WithinBand(full, empty) \/ amount < MinAmount THEN 0 ELSE amount

\* rebalance_node: what to move from the fuller channel of a node to the other
\* one, given the node's balances in them; 0 for nothing.
Surplus(full, empty) ==
  LET amount == Least(full - Half, Half - empty) IN
  IF WithinBand(full, empty) \/ amount < MinAmount THEN 0 ELSE amount

\* A mutation: in by the fuller channel, out by the other.
MutantReverse(n, b) ==
  LET mine == b[n]
      other == Cap - b[Before(n)] IN
  IF Ratio(mine) > Ratio(other) THEN -Surplus(mine, other) ELSE Surplus(other, mine)

\* The shift that brings node n nearer to half and half on both sides: out by
\* the fuller channel, back in by the other.
Shift(n, b) ==
  LET mine == b[n]
      other == Cap - b[Before(n)] IN
  IF Ratio(mine) > Ratio(other) THEN Surplus(mine, other) ELSE -Surplus(other, mine)

NextTurn ==
  /\ rebal' = "look"
  /\ turn' = After(turn)
  /\ plan' = 0
  /\ seen' = Nothing

\* listchannels, with exactly two active channels, and a shift to make.
Look ==
  /\ rebal = "look"
  /\ turn \notin foreign
  /\ Shift(turn, own) # 0
  /\ rebal' = "pay"
  /\ plan' = Shift(turn, own)
  /\ seen' = own
  /\ UNCHANGED <<own, foreign, openerVars, turn, payments, faults>>

\* More than two active channels, in the band, or nothing to gain.
Skip ==
  /\ rebal = "look"
  /\ turn \in foreign \/ Shift(turn, own) = 0
  /\ NextTurn
  /\ UNCHANGED <<own, foreign, openerVars, payments, faults>>

\* payinvoice succeeds, on the balances of now.
Pay ==
  /\ rebal = "pay"
  /\ Carries(own, plan)
  /\ own' = Shifted(own, plan)
  /\ NextTurn
  /\ UNCHANGED <<foreign, openerVars, payments, faults>>

\* payinvoice fails: a hop cannot carry the amount.
NoRoute ==
  /\ rebal = "pay"
  /\ ~Carries(own, plan)
  /\ NextTurn
  /\ UNCHANGED <<own, foreign, openerVars, payments, faults>>

\* payinvoice fails for another reason: fees, an offline peer.
PayFails ==
  /\ faults < MaxFaults
  /\ rebal = "pay"
  /\ NextTurn
  /\ faults' = faults + 1
  /\ UNCHANGED <<own, foreign, openerVars, payments>>

\* The loop dies and docker starts it again.
RebalancerRestarts ==
  /\ faults < MaxFaults
  /\ rebal' = "look" /\ turn' = 1 /\ plan' = 0 /\ seen' = Nothing
  /\ faults' = faults + 1
  /\ UNCHANGED <<own, foreign, openerVars, payments>>
------------------------------------------------------------------------------
Opener == OpenerStart \/ InitialRebalance \/ InitialRebalanceFails \/ TouchRebalanced
Rebalancer == Look \/ Skip \/ Pay \/ NoRoute

Next == \/ \E n \in Nodes : UserPays(n) \/ OpenForeign(n)
        \/ Opener \/ OpenerRestarts
        \/ Rebalancer \/ PayFails \/ RebalancerRestarts

Spec == Init /\ [][Next]_vars

\* Docker keeps both scripts running.
FairSpec == Spec /\ WF_vars(Opener) /\ WF_vars(Rebalancer)
------------------------------------------------------------------------------
\* Every variable has its type; in particular no payment overdraws a channel.
TypeOK ==
  /\ own \in [Nodes -> 0..Cap]
  /\ foreign \subseteq Nodes
  /\ opener \in {"start", "pay", "touch", "done"}
  /\ tries \in 0..Tries
  /\ marked \in BOOLEAN
  /\ rebal \in {"look", "pay"}
  /\ turn \in Nodes
  /\ plan \in -Cap..Cap
  /\ seen \in [Nodes -> 0..Cap]
  /\ payments \in 0..MaxPayments
  /\ faults \in 0..MaxFaults

Abs(i) == IF i < 0 THEN -i ELSE i

\* How far the ring is from half and half, in half units.
Skew(b) == Abs(2 * b[1] - Cap) + Abs(2 * b[2] - Cap) + Abs(2 * b[3] - Cap)
\* How far the balances are from those the plan was made from.
Drift(b, c) == Abs(b[1] - c[1]) + Abs(b[2] - c[2]) + Abs(b[3] - c[3])

\* Every payment of the rebalancer brings the ring as a whole nearer to half
\* and half, by what it moves on one channel, although it may push the third
\* channel away.  What others moved since it looked spoils this at most twofold.
PaymentsPayOff ==
  [][Pay => Skew(own') + 2 * Abs(plan) <= Skew(own) + 4 * Drift(own, seen) + 2]_vars

Band == {b \in 0..Cap : Ratio(b) \in Low..High /\ Ratio(Cap - b) \in Low..High}
InBand == \A n \in Nodes : own[n] \in Band

\* As long as no user has paid and some node has no foreign channel, whatever
\* lnd-channels and the rebalancer do at the same time and however they fail,
\* the ring ends up in the band and stays there.
SettlesInBand == [](payments = 0 /\ foreign # Nodes) => <>[]InBand

\* Whatever users paid, the rebalancer comes to rest: no node that it serves has
\* a shift left that the ring could carry.
ComesToRest ==
  <>[](\A n \in Nodes \ foreign : Shift(n, own) # 0 => ~Carries(own, Shift(n, own)))

\* When the initial rebalance succeeds every channel is at half, as lnd-channels
\* then says, however often the script ran before and whatever lnd-rebalancer
\* did at the same time, unless users have paid already.  (A second payment
\* would empty the ring again; the reserve forbids it.)
CompleteMeansBalanced ==
  [][InitialRebalance /\ payments = 0 => \A n \in Nodes : own'[n] = Cap - Half]_vars
=============================================================================
