------------------------- MODULE LiquidityRingProofs -------------------------
(***************************************************************************)
(* Theorems about LiquidityRing.tla, for any amounts, any mix of funding   *)
(* modes and any number of faults.                                         *)
(***************************************************************************)
EXTENDS LiquidityRing, TLAPS

\* Every variable keeps its type.
THEOREM TypeCorrect == Spec => []TypeOK
<1> USE RingAssumption DEF RingAssumption
<1>1. Init => TypeOK
  BY DEF Init, TypeOK, Nodes, AllModes
<1>2. TypeOK /\ [Next]_vars => TypeOK'
  <2> SUFFICES ASSUME TypeOK, [Next]_vars PROVE TypeOK'
    OBVIOUS
  <2> USE DEF TypeOK, Nodes, Next3, setupVars, openerVars, wallets, channels
  <2>1. ASSUME Mine PROVE TypeOK'
    BY <2>1 DEF Mine, Confirm
  <2>2. ASSUME NEW n \in Nodes, Deposit(n) PROVE TypeOK'
    BY <2>2 DEF Deposit, Pay
  <2>3. ASSUME NEW n \in Nodes, TopUp(n) PROVE TypeOK'
    BY <2>3 DEF TopUp, Pay
  <2>4. ASSUME OpenGate PROVE TypeOK'
    BY <2>4 DEF OpenGate
  <2>5. ASSUME Setup PROVE TypeOK'
    <3>1. ASSUME SetupStart PROVE TypeOK'
      BY <3>1 DEF SetupStart
    <3>2. ASSUME NEW n \in Nodes, SendTo(n) PROVE TypeOK'
      BY <3>2 DEF SendTo, Pay
    <3>3. ASSUME ConfirmFunding PROVE TypeOK'
      BY <3>3 DEF ConfirmFunding, Confirm
    <3>4. ASSUME MarkFunded PROVE TypeOK'
      BY <3>4 DEF MarkFunded, Funded
    <3> QED
      BY <2>5, <3>1, <3>2, <3>3, <3>4 DEF Setup
  <2>6. ASSUME Opener PROVE TypeOK'
    <3>1. ASSUME AwaitFunded PROVE TypeOK'
      BY <3>1 DEF AwaitFunded
    <3>2. ASSUME AwaitBalance PROVE TypeOK'
      BY <3>2 DEF AwaitBalance
    <3>3. ASSUME SkipEdge PROVE TypeOK'
      BY <3>3 DEF SkipEdge, NextEdge
    <3>4. ASSUME OpenChannel PROVE TypeOK'
      BY <3>4 DEF OpenChannel, BroadcastChannel
    <3>5. ASSUME OpenUnfunded PROVE TypeOK'
      BY <3>5 DEF OpenUnfunded
    <3>6. ASSUME TouchEdge PROVE TypeOK'
      BY <3>6 DEF TouchEdge, NextEdge
    <3>7. ASSUME MarkChannels PROVE TypeOK'
      BY <3>7 DEF MarkChannels, ChannelsDone
    <3>8. ASSUME AwaitActive PROVE TypeOK'
      BY <3>8 DEF AwaitActive
    <3> QED
      BY <2>6, <3>1, <3>2, <3>3, <3>4, <3>5, <3>6, <3>7, <3>8 DEF Opener
  <2>7. ASSUME Fault PROVE TypeOK'
    <3>1. ASSUME SetupDies PROVE TypeOK'
      BY <3>1 DEF SetupDies
    <3>2. ASSUME OpenerDies PROVE TypeOK'
      BY <3>2 DEF OpenerDies
    <3>3. ASSUME Redeploy PROVE TypeOK'
      BY <3>3 DEF Redeploy
    <3> QED
      BY <2>7, <3>1, <3>2, <3>3 DEF Fault
  <2>8. CASE UNCHANGED vars
    BY <2>8 DEF vars
  <2> QED
    BY <2>1, <2>2, <2>3, <2>4, <2>5, <2>6, <2>7, <2>8 DEF Next
<1> QED
  BY <1>1, <1>2, PTL DEF Spec
------------------------------------------------------------------------------
(* What the markers vouch for, and in which order they come to be there.   *)

MarkedIsOpened == \A n \in Nodes : n \in markers => Opened(n) >= 1

TouchingIsOpened == opener = "touch" => edge \notin markers /\ Opened(edge) >= 1

EdgesInOrder ==
  /\ opener \in {"open", "touch"} => \A n \in Nodes : n < edge => n \in markers
  /\ opener \in {"mark", "active", "up"} => \A n \in Nodes : n \in markers
  /\ ChannelsDone \in markers => \A n \in Nodes : n \in markers

FundedFirst ==
  /\ SelfFunded /\ opener # "start" => Funded \in markers
  /\ SelfFunded /\ ChannelsDone \in markers => Funded \in markers

FundedIsPaid ==
  /\ Funded \in markers => setup \in {"start", "done"} /\ \A n \in Nodes : sent[n] >= 1
  /\ setup \in {"confirm", "mark"} => \A n \in Nodes : sent[n] >= 1
  /\ setup = "send" => \A n \in Nodes : n < payee => sent[n] >= 1

GateWaits == mode = "regtest" /\ p2p => ChannelsDone \in markers

Order == /\ MarkedIsOpened /\ TouchingIsOpened /\ EdgesInOrder
         /\ FundedFirst /\ FundedIsPaid /\ GateWaits

LEMMA OrderInit == Init => Order
  BY DEF Init, Order, MarkedIsOpened, TouchingIsOpened, EdgesInOrder, FundedFirst,
         FundedIsPaid, GateWaits, Opened, SelfFunded, Nodes, Funded, ChannelsDone

LEMMA OrderNext == TypeOK /\ TypeOK' /\ Order /\ [Next]_vars => Order'
<1> SUFFICES ASSUME TypeOK, TypeOK', Order, [Next]_vars PROVE Order'
  OBVIOUS
<1> USE DEF Order, TypeOK, MarkedIsOpened, TouchingIsOpened, EdgesInOrder, FundedFirst,
            FundedIsPaid, GateWaits, Opened, SelfFunded, Nodes, Next3, Funded, ChannelsDone,
            setupVars, openerVars, wallets, channels
<1>1. ASSUME Mine PROVE Order'
  BY <1>1 DEF Mine, Confirm
<1>2. ASSUME NEW n \in Nodes, Deposit(n) PROVE Order'
  BY <1>2 DEF Deposit, Pay
<1>3. ASSUME NEW n \in Nodes, TopUp(n) PROVE Order'
  BY <1>3 DEF TopUp, Pay
<1>4. ASSUME OpenGate PROVE Order'
  BY <1>4 DEF OpenGate
<1>5. ASSUME Setup PROVE Order'
  <2>1. ASSUME SetupStart PROVE Order'
    BY <2>1 DEF SetupStart
  <2>2. ASSUME NEW n \in Nodes, SendTo(n) PROVE Order'
    BY <2>2 DEF SendTo, Pay
  <2>3. ASSUME ConfirmFunding PROVE Order'
    BY <2>3 DEF ConfirmFunding, Confirm
  <2>4. ASSUME MarkFunded PROVE Order'
    BY <2>4 DEF MarkFunded, Funded
  <2> QED
    BY <1>5, <2>1, <2>2, <2>3, <2>4 DEF Setup
<1>6. ASSUME Opener PROVE Order'
  <2>1. ASSUME AwaitFunded PROVE Order'
    BY <2>1 DEF AwaitFunded
  <2>2. ASSUME AwaitBalance PROVE Order'
    BY <2>2 DEF AwaitBalance
  <2>3. ASSUME SkipEdge PROVE Order'
    BY <2>3 DEF SkipEdge, NextEdge
  <2>4. ASSUME OpenChannel PROVE Order'
    BY <2>4 DEF OpenChannel, BroadcastChannel
  <2>5. ASSUME OpenUnfunded PROVE Order'
    BY <2>5 DEF OpenUnfunded
  <2>6. ASSUME TouchEdge PROVE Order'
    BY <2>6 DEF TouchEdge, NextEdge
  <2>7. ASSUME MarkChannels PROVE Order'
    BY <2>7 DEF MarkChannels, ChannelsDone
  <2>8. ASSUME AwaitActive PROVE Order'
    BY <2>8 DEF AwaitActive
  <2> QED
    BY <1>6, <2>1, <2>2, <2>3, <2>4, <2>5, <2>6, <2>7, <2>8 DEF Opener
<1>7. ASSUME Fault PROVE Order'
  <2>1. ASSUME SetupDies PROVE Order'
    BY <2>1 DEF SetupDies
  <2>2. ASSUME OpenerDies PROVE Order'
    BY <2>2 DEF OpenerDies
  <2>3. ASSUME Redeploy PROVE Order'
    BY <2>3 DEF Redeploy
  <2> QED
    BY <1>7, <2>1, <2>2, <2>3 DEF Fault
<1>8. CASE UNCHANGED vars
  BY <1>8 DEF vars
<1> QED
  BY <1>1, <1>2, <1>3, <1>4, <1>5, <1>6, <1>7, <1>8 DEF Next

\* On regtest no peer can connect before the wallets are paid and the channels
\* broadcast, and nothing is paid or opened afterwards.
THEOREM GateOpensLast == Spec => []PrivateWhileFunding
<1>1. TypeOK /\ Order => PrivateWhileFunding
  BY DEF TypeOK, Order, MarkedIsOpened, TouchingIsOpened, EdgesInOrder, FundedFirst,
         FundedIsPaid, GateWaits, PrivateWhileFunding, SelfFunded
<1> QED
  BY <1>1, TypeCorrect, OrderInit, OrderNext, PTL DEF Spec
------------------------------------------------------------------------------
(* What a fault leaves to be done twice: a round of payments that was begun *)
(* and will begin again, a channel that is open and not marked.  A fault    *)
(* adds at most one of them (lnd-channels touches nothing before lnd-setup  *)
(* has left its marker), and doing it twice takes it away.                  *)

WillPayAgain ==
  /\ SelfFunded
  /\ Funded \notin markers
  /\ sent[1] >= 1
  /\ setup = "start" \/ (setup = "send" /\ payee = 1)

WillOpenAgain(n) ==
  /\ n \notin markers
  /\ Opened(n) >= 1
  /\ ~(opener = "touch" /\ edge = n)

Due(owed, done) == Excess(done) + (IF owed THEN 1 ELSE 0)

Budget ==
  Due(WillPayAgain, Rounds) + Due(WillOpenAgain(1), Opened(1))
    + Due(WillOpenAgain(2), Opened(2)) + Due(WillOpenAgain(3), Opened(3)) <= faults

PaidInOrder ==
  SelfFunded =>
    /\ \A n \in Nodes : sent[n] <= sent[1]
    /\ setup = "send" /\ payee # 1 => \A n \in Nodes : n >= payee => sent[n] < sent[1]

Thrift == Budget /\ PaidInOrder

LEMMA ThriftInit == Init => Thrift
  BY DEF Init, Thrift, Budget, PaidInOrder, Due, Excess, WillPayAgain, WillOpenAgain,
         Rounds, Opened, Nodes

LEMMA DueTyped ==
  ASSUME TypeOK
  PROVE  /\ Due(WillPayAgain, Rounds) \in Nat
         /\ \A n \in Nodes : Due(WillOpenAgain(n), Opened(n)) \in Nat
  BY DEF TypeOK, Due, Excess, Rounds, Opened, Nodes

LEMMA ThriftNext == TypeOK /\ TypeOK' /\ Order /\ Thrift /\ [Next]_vars => Thrift'
<1> SUFFICES ASSUME TypeOK, TypeOK', Order, Thrift, [Next]_vars PROVE Thrift'
  OBVIOUS
<1>0. /\ Due(WillPayAgain, Rounds) \in Nat /\ Due(WillPayAgain, Rounds)' \in Nat
      /\ \A n \in Nodes : /\ Due(WillOpenAgain(n), Opened(n)) \in Nat
                           /\ Due(WillOpenAgain(n), Opened(n))' \in Nat
  <2>1. /\ Due(WillPayAgain, Rounds)' \in Nat
        /\ \A n \in Nodes : Due(WillOpenAgain(n), Opened(n))' \in Nat
    BY DEF TypeOK, Due, Excess, Rounds, Opened, Nodes
  <2> QED
    BY <2>1, DueTyped
<1> USE DEF Thrift, Budget, PaidInOrder, Due, Excess, WillPayAgain, WillOpenAgain,
            Rounds, Opened, Nodes, Next3, SelfFunded, TypeOK, Order, FundedFirst,
            FundedIsPaid, Funded, setupVars, openerVars, wallets, channels
<1>1. ASSUME Mine PROVE Thrift'
  BY <1>1 DEF Mine, Confirm
<1>2. ASSUME NEW n \in Nodes, Deposit(n) PROVE Thrift'
  BY <1>2 DEF Deposit, Pay
<1>3. ASSUME NEW n \in Nodes, TopUp(n) PROVE Thrift'
  BY <1>3 DEF TopUp, Pay
<1>4. ASSUME OpenGate PROVE Thrift'
  BY <1>4 DEF OpenGate
<1>5. ASSUME Setup PROVE Thrift'
  <2>1. ASSUME SetupStart PROVE Thrift'
    BY <2>1 DEF SetupStart
  <2>2. ASSUME NEW n \in Nodes, SendTo(n) PROVE Thrift'
    <3>1. CASE n = 1
      BY <2>2, <3>1 DEF SendTo, Pay
    <3>2. CASE n # 1
      BY <2>2, <3>2 DEF SendTo, Pay
    <3> QED
      BY <3>1, <3>2
  <2>3. ASSUME ConfirmFunding PROVE Thrift'
    BY <2>3 DEF ConfirmFunding, Confirm
  <2>4. ASSUME MarkFunded PROVE Thrift'
    BY <2>4 DEF MarkFunded, Funded
  <2> QED
    BY <1>5, <2>1, <2>2, <2>3, <2>4 DEF Setup
<1>6. ASSUME Opener PROVE Thrift'
  <2>1. ASSUME AwaitFunded PROVE Thrift'
    BY <2>1 DEF AwaitFunded
  <2>2. ASSUME AwaitBalance PROVE Thrift'
    BY <2>2 DEF AwaitBalance
  <2>3. ASSUME SkipEdge PROVE Thrift'
    BY <2>3 DEF SkipEdge, NextEdge
  <2>4. ASSUME OpenChannel PROVE Thrift'
    BY <2>4 DEF OpenChannel, BroadcastChannel
  <2>5. ASSUME OpenUnfunded PROVE Thrift'
    BY <2>5 DEF OpenUnfunded
  <2>6. ASSUME TouchEdge PROVE Thrift'
    BY <2>6 DEF TouchEdge, NextEdge
  <2>7. ASSUME MarkChannels PROVE Thrift'
    BY <2>7 DEF MarkChannels, ChannelsDone
  <2>8. ASSUME AwaitActive PROVE Thrift'
    BY <2>8 DEF AwaitActive
  <2> QED
    BY <1>6, <2>1, <2>2, <2>3, <2>4, <2>5, <2>6, <2>7, <2>8 DEF Opener
<1>7. ASSUME Fault PROVE Thrift'
  <2>1. ASSUME SetupDies PROVE Thrift'
    <3>1. PaidInOrder' /\ faults' = faults + 1
      BY <2>1 DEF SetupDies
    <3>2. Due(WillPayAgain, Rounds)' <= Due(WillPayAgain, Rounds) + 1
      BY <2>1 DEF SetupDies
    <3>3. \A n \in Nodes :
             Due(WillOpenAgain(n), Opened(n))' = Due(WillOpenAgain(n), Opened(n))
      BY <2>1 DEF SetupDies
    <3> HIDE DEF Due, WillPayAgain, WillOpenAgain, Rounds, Opened
    <3> QED
      BY <1>0, <3>1, <3>2, <3>3
  <2>2. ASSUME OpenerDies PROVE Thrift'
    <3>1. CASE opener = "touch"
      BY <2>2, <3>1 DEF OpenerDies
    <3>2. CASE opener # "touch"
      BY <2>2, <3>2 DEF OpenerDies
    <3> QED
      BY <3>1, <3>2
  <2>3. ASSUME Redeploy PROVE Thrift'
    <3>1. PaidInOrder' /\ faults' = faults + 1 /\ Rounds' = Rounds
      BY <2>3 DEF Redeploy
    <3>2. CASE opener = "touch"
      <4>1. WillPayAgain' => WillPayAgain
        BY <2>3, <3>2 DEF Redeploy
      <4>2. Due(WillPayAgain, Rounds)' <= Due(WillPayAgain, Rounds)
        BY <3>1, <4>1
      <4>3. \A n \in Nodes :
               Due(WillOpenAgain(n), Opened(n))'
                 <= Due(WillOpenAgain(n), Opened(n)) + (IF n = edge THEN 1 ELSE 0)
        BY <2>3, <3>2 DEF Redeploy
      <4> HIDE DEF Due, WillPayAgain, WillOpenAgain, Rounds, Opened
      <4> QED
        BY <1>0, <3>1, <4>2, <4>3
    <3>3. CASE opener # "touch"
      <4>1. Due(WillPayAgain, Rounds)' <= Due(WillPayAgain, Rounds) + 1
        BY <2>3, <3>1
      <4>2. \A n \in Nodes :
               Due(WillOpenAgain(n), Opened(n))' = Due(WillOpenAgain(n), Opened(n))
        BY <2>3, <3>3 DEF Redeploy
      <4> HIDE DEF Due, WillPayAgain, WillOpenAgain, Rounds, Opened
      <4> QED
        BY <1>0, <3>1, <4>1, <4>2
    <3> QED
      BY <3>2, <3>3
  <2> QED
    BY <1>7, <2>1, <2>2, <2>3 DEF Fault
<1>8. CASE UNCHANGED vars
  BY <1>8 DEF vars
<1> QED
  BY <1>1, <1>2, <1>3, <1>4, <1>5, <1>6, <1>7, <1>8 DEF Next

\* However lnd-setup and lnd-channels fail, a failure costs at most one round of
\* payments or one channel more than needed.
THEOREM RepeatsBounded == Spec => []OneRepeatPerFault
<1>1. TypeOK /\ Thrift => OneRepeatPerFault
  BY DEF TypeOK, Thrift, Budget, PaidInOrder, Due, Excess, OneRepeatPerFault, Rounds,
         Opened, Nodes
<1> QED
  BY <1>1, TypeCorrect, OrderInit, OrderNext, ThriftInit, ThriftNext, PTL DEF Spec
=============================================================================
