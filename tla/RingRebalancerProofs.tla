------------------------- MODULE RingRebalancerProofs -------------------------
(***************************************************************************)
(* Theorems about RingRebalancer.tla, for any capacity, reserve and band,  *)
(* any payments of users and any number of faults.                         *)
(***************************************************************************)
EXTENDS RingRebalancer, TLAPS

LEMMA HalfBounds == Half \in Nat /\ 2 * Half <= Cap /\ Cap <= 2 * Half + 1
  BY RebalancerAssumption DEF RebalancerAssumption, Half

\* rebalance_node asks for nothing, or for what both sides can give.
LEMMA SurplusBounds ==
  ASSUME NEW full \in Int, NEW empty \in Int
  PROVE  /\ Surplus(full, empty) \in Int
         /\ \/ Surplus(full, empty) = 0
            \/ /\ Surplus(full, empty) >= 2
               /\ Surplus(full, empty) <= full - Half
               /\ Surplus(full, empty) <= Half - empty
<1> USE RebalancerAssumption, HalfBounds DEF RebalancerAssumption
<1> DEFINE amount == Least(full - Half, Half - empty)
<1>1. amount \in Int /\ amount <= full - Half /\ amount <= Half - empty
  BY DEF Least
<1>2. CASE WithinBand(full, empty) \/ amount < MinAmount
  BY <1>2 DEF Surplus
<1>3. CASE ~(WithinBand(full, empty) \/ amount < MinAmount)
  <2>1. Surplus(full, empty) = amount
    BY <1>3 DEF Surplus
  <2>2. amount >= 2
    BY <1>1, <1>3
  <2> HIDE DEF amount
  <2> QED
    BY <1>1, <2>1, <2>2
<1> QED
  BY <1>2, <1>3

\* A shift of node n moves its channel towards half, and the one of the node
\* before it, on which n owns the rest, by as much.
Helps(n, b, s) ==
  \/ s = 0
  \/ s >= 2 /\ s <= b[n] - Half /\ s <= Half - (Cap - b[Before(n)])
  \/ s <= -2 /\ -s <= Half - b[n] /\ -s <= Cap - b[Before(n)] - Half

LEMMA ShiftBounds ==
  ASSUME NEW b \in [Nodes -> 0..Cap], NEW n \in Nodes
  PROVE  Shift(n, b) \in -Cap..Cap /\ Helps(n, b, Shift(n, b))
<1> USE RebalancerAssumption, HalfBounds DEF RebalancerAssumption
<1> DEFINE mine == b[n]
           other == Cap - b[Before(n)]
<1>1. mine \in 0..Cap /\ other \in 0..Cap /\ b[Before(n)] = Cap - other
  BY DEF Nodes, Before
<1>2. Shift(n, b) = IF Ratio(mine) > Ratio(other) THEN Surplus(mine, other) ELSE -Surplus(other, mine)
  BY DEF Shift
<1> HIDE DEF mine, other
<1>i. mine \in Int /\ other \in Int
  BY <1>1
<1>3. CASE Ratio(mine) > Ratio(other)
  <2>1. Shift(n, b) = Surplus(mine, other)
    BY <1>2, <1>3
  <2>2. /\ Surplus(mine, other) \in Int
        /\ \/ Surplus(mine, other) = 0
           \/ /\ Surplus(mine, other) >= 2
              /\ Surplus(mine, other) <= mine - Half
              /\ Surplus(mine, other) <= Half - other
    BY ONLY <1>i, SurplusBounds, Zenon
  <2>3. Shift(n, b) \in -Cap..Cap
    BY <1>1, <2>1, <2>2
  <2> QED
    BY <1>1, <2>1, <2>2, <2>3 DEF Helps, mine
<1>4. CASE ~(Ratio(mine) > Ratio(other))
  <2>1. Shift(n, b) = -Surplus(other, mine)
    BY <1>2, <1>4
  <2>2. /\ Surplus(other, mine) \in Int
        /\ \/ Surplus(other, mine) = 0
           \/ /\ Surplus(other, mine) >= 2
              /\ Surplus(other, mine) <= other - Half
              /\ Surplus(other, mine) <= Half - mine
    BY ONLY <1>i, SurplusBounds, Zenon
  <2>3. Shift(n, b) \in -Cap..Cap
    BY <1>1, <2>1, <2>2
  <2> QED
    BY <1>1, <2>1, <2>2, <2>3 DEF Helps, mine
<1> QED
  BY <1>3, <1>4
------------------------------------------------------------------------------
(* Types.                                                                  *)

LEMMA ShiftedType ==
  ASSUME NEW b \in [Nodes -> 0..Cap], NEW s \in Int, Carries(b, s)
  PROVE  Shifted(b, s) \in [Nodes -> 0..Cap]
<1> SUFFICES ASSUME NEW n \in Nodes PROVE b[n] - s \in 0..Cap
  BY DEF Shifted
<1>1. Spares(b[n], s) /\ b[n] \in 0..Cap
  BY DEF Carries
<1> QED
  BY <1>1, RebalancerAssumption DEF RebalancerAssumption, Spares

\* The initial rebalance is given up at its last try.
Typed == TypeOK /\ (opener = "pay" => tries < Tries)

LEMMA TypedInvariant == Spec => []Typed
<1> USE RebalancerAssumption, HalfBounds DEF RebalancerAssumption
<1>1. Init => Typed
  <2>1. 0 \in 0..Cap /\ Cap \in 0..Cap /\ 0 \in -Cap..Cap /\ 1 \in Nodes
    BY DEF Nodes
  <2>2. Init => own \in [Nodes -> 0..Cap] /\ seen \in [Nodes -> 0..Cap]
    BY <2>1 DEF Init, Nothing
  <2>3. 0 \in 0..Tries /\ 0 \in 0..MaxPayments /\ 0 \in 0..MaxFaults
    OBVIOUS
  <2>4. Init => opener = "start" /\ opener # "pay"
    BY DEF Init
  <2> QED
    BY ONLY <2>1, <2>2, <2>3, <2>4, Zenon DEF Init, Typed, TypeOK
<1>2. Typed /\ [Next]_vars => Typed'
  <2> SUFFICES ASSUME Typed, [Next]_vars PROVE Typed'
    OBVIOUS
  <2> USE DEF Typed, TypeOK, openerVars, rebalVars
  <2>1. ASSUME NEW n \in Nodes, UserPays(n) PROVE Typed'
    <3>1. PICK amount \in Amounts \cup {-a : a \in Amounts} :
             /\ Spares(own[n], amount)
             /\ own' = [own EXCEPT ![n] = @ - amount]
      BY <2>1 DEF UserPays
    <3>2. amount \in Int
      OBVIOUS
    <3>3. own[n] - amount \in 0..Cap
      BY <3>1, <3>2 DEF Spares
    <3>4. own' \in [Nodes -> 0..Cap]
      BY <3>1, <3>3
    <3> QED
      BY <2>1, <3>4 DEF UserPays
  <2>2. ASSUME NEW n \in Nodes, OpenForeign(n) PROVE Typed'
    BY <2>2 DEF OpenForeign
  <2>3. ASSUME OpenerStart PROVE Typed'
    BY <2>3 DEF OpenerStart
  <2>4. ASSUME InitialRebalance PROVE Typed'
    <3>1. own' \in [Nodes -> 0..Cap]
      BY <2>4, ShiftedType DEF InitialRebalance
    <3> QED
      BY <2>4, <3>1 DEF InitialRebalance
  <2>5. ASSUME InitialRebalanceFails PROVE Typed'
    BY <2>5 DEF InitialRebalanceFails
  <2>6. ASSUME TouchRebalanced PROVE Typed'
    BY <2>6 DEF TouchRebalanced
  <2>7. ASSUME OpenerRestarts PROVE Typed'
    BY <2>7 DEF OpenerRestarts
  <2>8. ASSUME Look PROVE Typed'
    <3>1. Shift(turn, own) \in -Cap..Cap
      BY ShiftBounds
    <3> QED
      BY <2>8, <3>1 DEF Look
  <2>9. ASSUME NextTurn PROVE rebal' = "look" /\ turn' \in Nodes /\ plan' \in -Cap..Cap
                              /\ seen' \in [Nodes -> 0..Cap]
    BY <2>9 DEF NextTurn, After, Nodes, Nothing
  <2>10. ASSUME Skip PROVE Typed'
    BY <2>9, <2>10 DEF Skip
  <2>11. ASSUME Pay PROVE Typed'
    <3>1. own' \in [Nodes -> 0..Cap]
      BY <2>11, ShiftedType DEF Pay
    <3> QED
      BY <2>9, <2>11, <3>1 DEF Pay
  <2>12. ASSUME NoRoute PROVE Typed'
    BY <2>9, <2>12 DEF NoRoute
  <2>13. ASSUME PayFails PROVE Typed'
    BY <2>9, <2>13 DEF PayFails
  <2>14. ASSUME RebalancerRestarts PROVE Typed'
    BY <2>14 DEF RebalancerRestarts, Nothing, Nodes
  <2>15. CASE UNCHANGED vars
    BY <2>15 DEF vars
  <2> QED
    BY <2>1, <2>2, <2>3, <2>4, <2>5, <2>6, <2>7, <2>8, <2>10, <2>11, <2>12, <2>13, <2>14, <2>15
    DEF Next, Opener, Rebalancer
<1> QED
  BY <1>1, <1>2, PTL DEF Spec

\* Every variable keeps its type: no payment overdraws a channel.
THEOREM TypeCorrect == Spec => []TypeOK
<1>1. Typed => TypeOK
  BY DEF Typed
<1> QED
  BY <1>1, TypedInvariant, PTL
------------------------------------------------------------------------------
(* Every payment pays off.                                                 *)

Planned == rebal = "pay" => plan = Shift(turn, seen)

LEMMA PlannedInvariant == Spec => []Planned
<1>1. Init => Planned
  BY DEF Init, Planned
<1>2. Planned /\ [Next]_vars => Planned'
  <2> SUFFICES ASSUME Planned, [Next]_vars PROVE Planned'
    OBVIOUS
  <2> USE DEF Planned, rebalVars
  <2>1. CASE Look
    BY <2>1 DEF Look
  <2>2. CASE Skip \/ Pay \/ NoRoute \/ PayFails \/ RebalancerRestarts
    BY <2>2 DEF Skip, Pay, NoRoute, PayFails, RebalancerRestarts, NextTurn
  <2>3. CASE Opener \/ OpenerRestarts
    BY <2>3 DEF Opener, OpenerStart, InitialRebalance, InitialRebalanceFails, TouchRebalanced,
                OpenerRestarts
  <2>4. CASE \E n \in Nodes : UserPays(n) \/ OpenForeign(n)
    BY <2>4 DEF UserPays, OpenForeign
  <2>5. CASE UNCHANGED vars
    BY <2>5 DEF vars
  <2> QED
    BY <2>1, <2>2, <2>3, <2>4, <2>5 DEF Next, Rebalancer
<1> QED
  BY <1>1, <1>2, PTL DEF Spec

\* How far one channel is from half.
Off(c) == Abs(2 * c - Cap)

\* What a shift does to a channel that it brings nearer to half: it gains twice
\* the amount; what others moved since the plan was made counts at most fourfold.
LEMMA HelpedChannel ==
  ASSUME NEW c \in Int, NEW old \in Int, NEW s \in Int,
         \/ s >= 0 /\ 2 * old >= Cap + 2 * s
         \/ s <= 0 /\ 2 * old <= Cap + 2 * s
  PROVE  Off(c - s) + 2 * Abs(s) <= Off(c) + 4 * Abs(c - old)
  BY RebalancerAssumption DEF RebalancerAssumption, Off, Abs

\* With an odd capacity one of the two channels may end up on the other side.
LEMMA CrossedChannel ==
  ASSUME NEW c \in Int, NEW old \in Int, NEW s \in Int,
         \/ s >= 0 /\ 2 * old >= Cap + 2 * s - 1
         \/ s <= 0 /\ 2 * old <= Cap + 2 * s + 1
  PROVE  Off(c - s) + 2 * Abs(s) <= Off(c) + 4 * Abs(c - old) + 2
  BY RebalancerAssumption DEF RebalancerAssumption, Off, Abs

\* Any other channel loses at most twice the amount.
LEMMA OtherChannel ==
  ASSUME NEW c \in Int, NEW s \in Int
  PROVE  Off(c - s) <= Off(c) + 2 * Abs(s)
  BY RebalancerAssumption DEF RebalancerAssumption, Off, Abs

LEMMA SkewSum ==
  ASSUME NEW b \in [Nodes -> Int], NEW n \in Nodes
  PROVE  Skew(b) = Off(b[n]) + Off(b[Before(n)]) + Off(b[After(n)])
<1>1. /\ Off(b[1]) \in Int /\ Off(b[2]) \in Int /\ Off(b[3]) \in Int
      /\ Skew(b) = Off(b[1]) + Off(b[2]) + Off(b[3])
  BY RebalancerAssumption DEF RebalancerAssumption, Skew, Off, Abs, Nodes
<1> QED
  BY <1>1 DEF Nodes, Before, After

LEMMA DriftSum ==
  ASSUME NEW b \in [Nodes -> Int], NEW c \in [Nodes -> Int], NEW n \in Nodes
  PROVE  Drift(b, c) >= Abs(b[n] - c[n]) + Abs(b[Before(n)] - c[Before(n)])
  BY DEF Drift, Abs, Nodes, Before

LEMMA HelpsBounds ==
  ASSUME NEW b \in [Nodes -> Int], NEW n \in Nodes, NEW s \in Int, Helps(n, b, s)
  PROVE  \/ s = 0
         \/ s >= 0 /\ 2 * b[Before(n)] >= Cap + 2 * s /\ 2 * b[n] >= Cap + 2 * s - 1
         \/ s <= 0 /\ 2 * b[n] <= Cap + 2 * s /\ 2 * b[Before(n)] <= Cap + 2 * s + 1
<1>1. b[n] \in Int /\ b[Before(n)] \in Int
  BY DEF Nodes, Before
<1> QED
  BY <1>1, HalfBounds, RebalancerAssumption DEF RebalancerAssumption, Helps

\* Every payment of lnd-rebalancer brings the ring nearer to half and half by
\* what it moves on one channel, as far as users have not moved it meanwhile.
THEOREM EveryPaymentPaysOff == Spec => PaymentsPayOff
<1>1. ASSUME TypeOK, Planned, Pay
      PROVE  Skew(own') + 2 * Abs(plan) <= Skew(own) + 4 * Drift(own, seen) + 2
  <2> DEFINE n == turn
             p == Before(turn)
             q == After(turn)
  <2>1. /\ n \in Nodes /\ p \in Nodes /\ q \in Nodes
        /\ own \in [Nodes -> Int] /\ seen \in [Nodes -> Int] /\ plan \in Int
    BY <1>1, RebalancerAssumption DEF TypeOK, RebalancerAssumption, Nodes, Before, After
  <2>2. own' = [m \in Nodes |-> own[m] - plan]
    BY <1>1 DEF Pay, Shifted
  <2>3. own' \in [Nodes -> Int]
    BY <2>1, <2>2
  <2>4. \/ plan = 0
        \/ plan >= 0 /\ 2 * seen[p] >= Cap + 2 * plan /\ 2 * seen[n] >= Cap + 2 * plan - 1
        \/ plan <= 0 /\ 2 * seen[n] <= Cap + 2 * plan /\ 2 * seen[p] <= Cap + 2 * plan + 1
    <3>1. Helps(n, seen, plan)
      BY <1>1, ShiftBounds DEF TypeOK, Planned, Pay
    <3> QED
      BY ONLY <2>1, <3>1, HelpsBounds, Zenon
  <2>5. Skew(own') = Off(own[n] - plan) + Off(own[p] - plan) + Off(own[q] - plan)
    BY <2>1, <2>2, <2>3, SkewSum
  <2>6. Skew(own) = Off(own[n]) + Off(own[p]) + Off(own[q])
    BY <2>1, SkewSum
  <2>7. Drift(own, seen) >= Abs(own[n] - seen[n]) + Abs(own[p] - seen[p])
    BY <2>1, DriftSum
  <2>8. /\ own[n] \in Int /\ own[p] \in Int /\ own[q] \in Int
        /\ seen[n] \in Int /\ seen[p] \in Int
    BY <2>1
  <2>9. /\ \A c \in Int : Off(c) \in Int
        /\ \A c \in Int : Abs(c) \in Int
        /\ Drift(own, seen) \in Int
    BY <2>1, RebalancerAssumption DEF RebalancerAssumption, Off, Abs, Drift, Nodes
  <2> HIDE DEF n, p, q
  <2>10. Off(own[q] - plan) <= Off(own[q]) + 2 * Abs(plan)
    BY <2>1, <2>8, OtherChannel
  <2>11. CASE plan = 0
    <3>1. Off(own[n] - plan) = Off(own[n]) /\ Off(own[p] - plan) = Off(own[p])
          /\ Off(own[q] - plan) = Off(own[q]) /\ Abs(plan) = 0
      BY <2>8, <2>11, RebalancerAssumption DEF RebalancerAssumption, Off, Abs
    <3>2. Drift(own, seen) >= 0
      BY <2>1 DEF Drift, Abs, Nodes
    <3> QED
      BY <2>5, <2>6, <2>8, <2>9, <3>1, <3>2
  <2>12. CASE plan >= 0 /\ 2 * seen[p] >= Cap + 2 * plan /\ 2 * seen[n] >= Cap + 2 * plan - 1
    <3>1. Off(own[p] - plan) + 2 * Abs(plan) <= Off(own[p]) + 4 * Abs(own[p] - seen[p])
      BY ONLY <2>1, <2>8, <2>12, HelpedChannel, Zenon
    <3>2. Off(own[n] - plan) + 2 * Abs(plan) <= Off(own[n]) + 4 * Abs(own[n] - seen[n]) + 2
      BY ONLY <2>1, <2>8, <2>12, CrossedChannel, Zenon
    <3> QED
      BY <2>1, <2>5, <2>6, <2>7, <2>8, <2>9, <2>10, <3>1, <3>2
  <2>13. CASE plan <= 0 /\ 2 * seen[n] <= Cap + 2 * plan /\ 2 * seen[p] <= Cap + 2 * plan + 1
    <3>1. Off(own[n] - plan) + 2 * Abs(plan) <= Off(own[n]) + 4 * Abs(own[n] - seen[n])
      BY ONLY <2>1, <2>8, <2>13, HelpedChannel, Zenon
    <3>2. Off(own[p] - plan) + 2 * Abs(plan) <= Off(own[p]) + 4 * Abs(own[p] - seen[p]) + 2
      BY ONLY <2>1, <2>8, <2>13, CrossedChannel, Zenon
    <3> QED
      BY <2>1, <2>5, <2>6, <2>7, <2>8, <2>9, <2>10, <3>1, <3>2
  <2> QED
    BY <2>4, <2>11, <2>12, <2>13
<1> QED
  BY <1>1, TypeCorrect, PlannedInvariant, PTL DEF PaymentsPayOff
------------------------------------------------------------------------------
(* The initial rebalance, and what lnd-rebalancer may do before it.        *)

\* Until a user pays all channels look the same: full, or at half.  A planned
\* payment is the one that empties the full ring by half.
Uniform ==
  payments = 0 =>
     /\ \/ \A n \in Nodes : own[n] = Cap
        \/ \A n \in Nodes : own[n] = Cap - Half
     /\ rebal = "pay" => plan = Half

\* The ring cannot carry a second half.
LEMMA NoSecondHalf ==
  ASSUME \A n \in Nodes : own[n] = Cap - Half
  PROVE  ~Carries(own, Half)
<1>1. 1 \in Nodes /\ own[1] = Cap - Half
  BY DEF Nodes
<1>2. Half > 0 /\ Cap - Half - Half < Reserve
  BY HalfBounds, RebalancerAssumption DEF RebalancerAssumption, Half
<1>3. ~Spares(own[1], Half)
  BY <1>1, <1>2, HalfBounds, RebalancerAssumption DEF RebalancerAssumption, Spares
<1> QED
  BY <1>1, <1>3 DEF Carries

LEMMA UniformInvariant == Spec => []Uniform
<1> USE HalfBounds, RebalancerAssumption DEF RebalancerAssumption
<1>1. Init => Uniform
  BY DEF Init, Uniform
<1>2. TypeOK /\ Uniform /\ [Next]_vars => Uniform'
  <2> SUFFICES ASSUME TypeOK, Uniform, [Next]_vars PROVE Uniform'
    OBVIOUS
  <2> USE DEF openerVars, rebalVars
  <2>1. ASSUME NEW n \in Nodes, UserPays(n) PROVE Uniform'
    BY <2>1 DEF UserPays, Uniform, TypeOK
  <2>2. CASE \/ \E n \in Nodes : OpenForeign(n)
             \/ OpenerStart \/ InitialRebalanceFails \/ TouchRebalanced \/ OpenerRestarts
    BY <2>2 DEF OpenForeign, OpenerStart, InitialRebalanceFails, TouchRebalanced, OpenerRestarts,
                Uniform
  <2>3. CASE Skip \/ NoRoute \/ PayFails \/ RebalancerRestarts
    BY <2>3 DEF Skip, NoRoute, PayFails, RebalancerRestarts, NextTurn, Uniform
  <2>4. ASSUME payments = 0, Carries(own, Half), own' = Shifted(own, Half)
        PROVE  \A n \in Nodes : own'[n] = Cap - Half
    BY <2>4, NoSecondHalf DEF Uniform, Shifted
  <2>5. CASE InitialRebalance
    BY <2>4, <2>5 DEF InitialRebalance, Uniform
  <2>6. CASE Pay
    BY <2>4, <2>6 DEF Pay, NextTurn, Uniform
  <2>7. CASE Look
    <3>1. SUFFICES ASSUME payments = 0 PROVE plan' = Half
      BY <2>7 DEF Look, Uniform
    <3>2. turn \in Nodes /\ Before(turn) \in Nodes
      BY DEF TypeOK, Nodes, Before
    <3>3. CASE \A n \in Nodes : own[n] = Cap
      <4>1. plan' = Shift(turn, own) /\ Shift(turn, own) # 0
        BY <2>7 DEF Look
      <4>2. Shift(turn, own) = IF Ratio(Cap) > Ratio(0) THEN Surplus(Cap, 0) ELSE -Surplus(0, Cap)
        BY <3>2, <3>3 DEF Shift
      <4>3. Surplus(0, Cap) = 0
        BY SurplusBounds
      <4>4. Surplus(Cap, 0) \in {0, Half}
        BY DEF Surplus, Least
      <4>5. Shift(turn, own) \in {0, Half}
        BY ONLY <4>2, <4>3, <4>4
      <4> QED
        BY ONLY <4>1, <4>5
    <3>4. CASE \A n \in Nodes : own[n] = Cap - Half
      <4> DEFINE s == Shift(turn, own)
      <4>1. Helps(turn, own, s) /\ s \in Int
        BY <3>2, ShiftBounds DEF TypeOK
      <4>2. own[turn] = Cap - Half /\ own[Before(turn)] = Cap - Half
        BY <3>2, <3>4
      <4> HIDE DEF s
      <4>3. s = 0
        BY <4>1, <4>2 DEF Helps
      <4> QED
        BY <2>7, <4>3 DEF Look, s
    <3> QED
      BY <3>1, <3>3, <3>4 DEF Uniform
  <2>8. CASE UNCHANGED vars
    BY <2>8 DEF vars, Uniform
  <2> QED
    BY <2>1, <2>2, <2>3, <2>5, <2>6, <2>7, <2>8 DEF Next, Opener, Rebalancer
<1> QED
  BY <1>1, <1>2, TypeCorrect, PTL DEF Spec

\* Before users pay, an initial rebalance that succeeds leaves every channel at
\* half, whatever lnd-rebalancer did and however often the script ran.
THEOREM CompletedIsBalanced == Spec => CompleteMeansBalanced
<1>1. ASSUME Uniform, InitialRebalance, payments = 0
      PROVE  \A n \in Nodes : own'[n] = Cap - Half
  BY <1>1, NoSecondHalf, HalfBounds, RebalancerAssumption
  DEF Uniform, InitialRebalance, Shifted, RebalancerAssumption
<1> QED
  BY <1>1, UniformInvariant, PTL DEF CompleteMeansBalanced
==============================================================================
