------------------------- MODULE ProvisioningProofs -------------------------
(***************************************************************************)
(* For every number of guardians, kills and ignored errors: the sidecars   *)
(* implement AtLeastOnce, what is marked as funded is backed, and no       *)
(* payment or channel is made more often than containers are killed and    *)
(* calls fail.                                                             *)
(***************************************************************************)
EXTENDS Provisioning, TLAPS

\* Where a script stands between looking at its marker and leaving it, the marker is not
\* there yet.
Between ==
  /\ pc["fund"] \in {"send", "mark"} => Fund \notin marked
  /\ pc["electrum"] \in {"open", "mark"} => Swap \notin marked
  /\ pc["bridge"] \in {"open", "mark"} => Bridge \notin marked

\* What the gateways' script knows of the gateway it is at.
AtGateway ==
  /\ pc["gateways"] \in {"addr", "sent"} => Float(G) \notin marked
  /\ pc["gateways"] = "addr" => effects[Float(G)] > 0
  /\ pc["gateways"] = "sent" => gateway[G].addr > 0
  /\ pc["gateways"] \in {"addr", "sent", "claim"} => gateway[G].joined

\* The type invariant in three parts.
TypeOfNames ==
  /\ pc \in [Scripts -> Places]
  /\ marked \subseteq Steps
  /\ daemon \in {"off", "up", "loaded", "dead"}
  /\ coins \subseteq {"ring", "bridge", "electrum"}
  /\ guardian \in [Peers -> {"awaiting", "params", "dkg"}]
  /\ pending \in BOOLEAN
  /\ unread \subseteq Peers
TypeOfNumbers ==
  /\ at \in [{"setup", "gateways"} -> Peers]
  /\ effects \in [Steps -> Nat]
  /\ kills \in 0..MaxKills /\ errors \in 0..MaxErrors
TypeOfGateways ==
  gateway \in [Peers -> [wallet : BOOLEAN, joined : BOOLEAN, addr : Nat,
                         confirmed : Nat, ecash : BOOLEAN]]

IInv == TypeOK /\ Between /\ AtGateway /\ FundedMeansBacked

USE DEF Places

-----------------------------------------------------------------------------
(* The steps are pairwise different.                                       *)

LEMMA StepsDiffer ==
  /\ Fund # Swap /\ Fund # Bridge /\ Swap # Bridge
  /\ \A i \in Peers : Float(i) # Fund /\ Float(i) # Swap /\ Float(i) # Bridge
  /\ \A i, j \in Peers : Float(i) = Float(j) => i = j
  /\ Fund \in Steps /\ Swap \in Steps /\ Bridge \in Steps
  /\ \A i \in Peers : Float(i) \in Steps
<1>1. Fund # Swap /\ Fund # Bridge /\ Swap # Bridge
  BY DEF Fund, Swap, Bridge
<1>2. \A i \in Peers : Float(i) # Fund /\ Float(i) # Swap /\ Float(i) # Bridge
  BY DEF Fund, Swap, Bridge, Float
<1>3. \A i, j \in Peers : Float(i) = Float(j) => i = j
  BY DEF Float
<1>4. QED
  BY <1>1, <1>2, <1>3 DEF Steps

LEMMA TypeParts == TypeOK <=> TypeOfNames /\ TypeOfNumbers /\ TypeOfGateways
<1>1. TypeOK => TypeOfNames /\ TypeOfNumbers /\ TypeOfGateways
  <2>1. TypeOK => TypeOfNames
    BY Zenon DEF TypeOK, TypeOfNames
  <2>2. TypeOK => TypeOfNumbers
    BY Zenon DEF TypeOK, TypeOfNumbers
  <2>3. TypeOK => TypeOfGateways
    BY Zenon DEF TypeOK, TypeOfGateways
  <2>4. QED
    BY <2>1, <2>2, <2>3
<1>2. TypeOfNames /\ TypeOfNumbers /\ TypeOfGateways => TypeOK
  BY Zenon DEF TypeOK, TypeOfNames, TypeOfNumbers, TypeOfGateways
<1>3. QED
  BY <1>1, <1>2

\* What is said of the gateways stays true of a step that concerns none of them.
LEMMA GatewaysUntouched ==
  ASSUME IInv,
         pc'["gateways"] = pc["gateways"], at'["gateways"] = at["gateways"],
         gateway' = gateway,
         \A i \in Peers : effects'[Float(i)] = effects[Float(i)],
         \A i \in Peers : Float(i) \in marked' <=> Float(i) \in marked,
         \A i \in Peers : <<"funded", i>> \in files' => <<"funded", i>> \in files
  PROVE  AtGateway' /\ FundedMeansBacked'
<1>1. G \in Peers /\ G' = G
  BY DEF IInv, TypeOK, G
<1>2. AtGateway'
  BY <1>1 DEF IInv, AtGateway
<1>3. FundedMeansBacked'
  BY DEF IInv, FundedMeansBacked
<1>4. QED
  BY <1>2, <1>3

-----------------------------------------------------------------------------
LEMMA InitInductive == Init => IInv
<1> SUFFICES ASSUME Init PROVE IInv
  OBVIOUS
<1> USE ProvisioningAssumption
<1>1. TypeOK
  <2>1. TypeOfNames
    BY DEF Init, TypeOfNames, First
  <2>2. TypeOfNumbers
    BY DEF Init, TypeOfNumbers, Peers
  <2>3. TypeOfGateways
    BY DEF Init, TypeOfGateways
  <2>4. QED
    BY <2>1, <2>2, <2>3, TypeParts
<1>2. Between /\ AtGateway
  BY DEF Init, Between, AtGateway, First, Scripts
<1>3. FundedMeansBacked
  BY StepsDiffer DEF Init, FundedMeansBacked, Peers
<1>4. QED
  BY <1>1, <1>2, <1>3 DEF IInv

-----------------------------------------------------------------------------
(* The steps of the scripts that concern no gateway.                      *)

LEMMA ElectrumStartInductive == IInv /\ ElectrumStart => IInv'
<1> SUFFICES ASSUME IInv, ElectrumStart PROVE IInv'
  OBVIOUS
<1> USE ProvisioningAssumption, StepsDiffer
<1>0. TypeOfNames /\ TypeOfNumbers /\ TypeOfGateways
  BY TypeParts DEF IInv
<1>1. TypeOK'
  <2>1. TypeOfNames'
    BY <1>0 DEF TypeOfNames, ElectrumStart, Error, Goto, ElectrumWallet, faults, Scripts
  <2>2. TypeOfNumbers'
    BY <1>0 DEF TypeOfNumbers, ElectrumStart, Error, Goto, ElectrumWallet, faults, Peers
  <2>3. TypeOfGateways'
    BY <1>0 DEF TypeOfGateways, ElectrumStart, Error, Goto, ElectrumWallet, faults
  <2>4. QED
    BY <2>1, <2>2, <2>3, Zenon DEF TypeOK, TypeOfNames, TypeOfNumbers, TypeOfGateways
<1>2. Between'
  BY <1>0
  DEF IInv, TypeOfNames, Between, ElectrumStart, Error, Goto, ElectrumWallet, faults, Scripts
<1>3. AtGateway' /\ FundedMeansBacked'
  BY <1>0, GatewaysUntouched
  DEF IInv, TypeOfNames, TypeOfNumbers, ElectrumStart, Error, Goto, ElectrumWallet, faults,
     Scripts
<1>4. QED
  BY <1>1, <1>2, <1>3 DEF IInv

LEMMA ElectrumLoadInductive == IInv /\ ElectrumLoad => IInv'
<1> SUFFICES ASSUME IInv, ElectrumLoad PROVE IInv'
  OBVIOUS
<1> USE ProvisioningAssumption, StepsDiffer
<1>0. TypeOfNames /\ TypeOfNumbers /\ TypeOfGateways
  BY TypeParts DEF IInv
<1>1. TypeOK'
  <2>1. TypeOfNames'
    BY <1>0 DEF TypeOfNames, ElectrumLoad, Error, Goto, faults, Scripts
  <2>2. TypeOfNumbers'
    BY <1>0 DEF TypeOfNumbers, ElectrumLoad, Error, Goto, faults, Peers
  <2>3. TypeOfGateways'
    BY <1>0 DEF TypeOfGateways, ElectrumLoad, Error, Goto, faults
  <2>4. QED
    BY <2>1, <2>2, <2>3, Zenon DEF TypeOK, TypeOfNames, TypeOfNumbers, TypeOfGateways
<1>2. Between'
  BY <1>0 DEF IInv, TypeOfNames, Between, ElectrumLoad, Error, Goto, faults, Scripts
<1>3. AtGateway' /\ FundedMeansBacked'
  BY <1>0, GatewaysUntouched
  DEF IInv, TypeOfNames, TypeOfNumbers, ElectrumLoad, Error, Goto, faults, Scripts
<1>4. QED
  BY <1>1, <1>2, <1>3 DEF IInv

LEMMA ElectrumAddressInductive == IInv /\ ElectrumAddress => IInv'
<1> SUFFICES ASSUME IInv, ElectrumAddress PROVE IInv'
  OBVIOUS
<1> USE ProvisioningAssumption, StepsDiffer
<1>0. TypeOfNames /\ TypeOfNumbers /\ TypeOfGateways
  BY TypeParts DEF IInv
<1>1. TypeOK'
  <2>1. TypeOfNames'
    BY <1>0 DEF TypeOfNames, ElectrumAddress, Error, Goto, ElectrumAddr, world, faults, Scripts
  <2>2. TypeOfNumbers'
    BY <1>0 DEF TypeOfNumbers, ElectrumAddress, Error, Goto, ElectrumAddr, world, faults, Peers
  <2>3. TypeOfGateways'
    BY <1>0 DEF TypeOfGateways, ElectrumAddress, Error, Goto, ElectrumAddr, world, faults
  <2>4. QED
    BY <2>1, <2>2, <2>3, Zenon DEF TypeOK, TypeOfNames, TypeOfNumbers, TypeOfGateways
<1>2. Between'
  BY <1>0
  DEF IInv, TypeOfNames, Between, ElectrumAddress, Error, Goto, ElectrumAddr, world, faults,
     Scripts
<1>3. AtGateway' /\ FundedMeansBacked'
  BY <1>0, GatewaysUntouched
  DEF IInv, TypeOfNames, TypeOfNumbers, ElectrumAddress, Error, Goto, ElectrumAddr, world,
     faults, Scripts
<1>4. QED
  BY <1>1, <1>2, <1>3 DEF IInv

LEMMA ElectrumOpenInductive == IInv /\ ElectrumOpen => IInv'
<1> SUFFICES ASSUME IInv, ElectrumOpen PROVE IInv'
  OBVIOUS
<1> USE ProvisioningAssumption, StepsDiffer
<1>0. TypeOfNames /\ TypeOfNumbers /\ TypeOfGateways
  BY TypeParts DEF IInv
<1>1. TypeOK'
  <2>1. TypeOfNames'
    BY <1>0 DEF TypeOfNames, ElectrumOpen, CanOpenSwap, Goto, Take, world, faults, Scripts
  <2>2. TypeOfNumbers'
    BY <1>0 DEF TypeOfNumbers, ElectrumOpen, CanOpenSwap, Goto, Take, world, faults, Peers
  <2>3. TypeOfGateways'
    BY <1>0 DEF TypeOfGateways, ElectrumOpen, CanOpenSwap, Goto, Take, world, faults
  <2>4. QED
    BY <2>1, <2>2, <2>3, Zenon DEF TypeOK, TypeOfNames, TypeOfNumbers, TypeOfGateways
<1>2. Between'
  BY <1>0
  DEF IInv, TypeOfNames, Between, ElectrumOpen, CanOpenSwap, Goto, Take, world, faults, Scripts
<1>3. AtGateway' /\ FundedMeansBacked'
  BY <1>0, GatewaysUntouched
  DEF IInv, TypeOfNames, TypeOfNumbers, ElectrumOpen, CanOpenSwap, Goto, Take, world, faults,
     Scripts
<1>4. QED
  BY <1>1, <1>2, <1>3 DEF IInv

LEMMA ElectrumOpenUnheardInductive == IInv /\ ElectrumOpenUnheard => IInv'
<1> SUFFICES ASSUME IInv, ElectrumOpenUnheard PROVE IInv'
  OBVIOUS
<1> USE ProvisioningAssumption, StepsDiffer
<1>0. TypeOfNames /\ TypeOfNumbers /\ TypeOfGateways
  BY TypeParts DEF IInv
<1>1. TypeOK'
  <2>1. TypeOfNames'
    BY <1>0 DEF TypeOfNames, ElectrumOpenUnheard, CanOpenSwap, Error, Take, world, Scripts
  <2>2. TypeOfNumbers'
    BY <1>0 DEF TypeOfNumbers, ElectrumOpenUnheard, CanOpenSwap, Error, Take, world, Peers
  <2>3. TypeOfGateways'
    BY <1>0 DEF TypeOfGateways, ElectrumOpenUnheard, CanOpenSwap, Error, Take, world
  <2>4. QED
    BY <2>1, <2>2, <2>3, Zenon DEF TypeOK, TypeOfNames, TypeOfNumbers, TypeOfGateways
<1>2. Between'
  BY <1>0
  DEF IInv, TypeOfNames, Between, ElectrumOpenUnheard, CanOpenSwap, Error, Take, world, Scripts
<1>3. AtGateway' /\ FundedMeansBacked'
  BY <1>0, GatewaysUntouched
  DEF IInv, TypeOfNames, TypeOfNumbers, ElectrumOpenUnheard, CanOpenSwap, Error, Take, world,
     Scripts
<1>4. QED
  BY <1>1, <1>2, <1>3 DEF IInv

LEMMA ElectrumMarkInductive == IInv /\ ElectrumMark => IInv'
<1> SUFFICES ASSUME IInv, ElectrumMark PROVE IInv'
  OBVIOUS
<1> USE ProvisioningAssumption, StepsDiffer
<1>1. TypeOK'
  BY DEF IInv, TypeOK, ElectrumMark, Goto, MarkDone, world, faults, Peers, Scripts
<1>2. Between'
  BY DEF IInv, TypeOK, Between, ElectrumMark, Goto, MarkDone, world, faults, Scripts
<1>3. AtGateway' /\ FundedMeansBacked'
  BY GatewaysUntouched DEF IInv, TypeOK, ElectrumMark, Goto, MarkDone, world, faults, Scripts
<1>4. QED
  BY <1>1, <1>2, <1>3 DEF IInv

LEMMA ElectrumExitInductive == IInv /\ ElectrumExit => IInv'
<1> SUFFICES ASSUME IInv, ElectrumExit PROVE IInv'
  OBVIOUS
<1> USE ProvisioningAssumption, StepsDiffer
<1>1. TypeOK'
  BY DEF IInv, TypeOK, ElectrumExit, Goto, faults, Peers, Scripts
<1>2. Between'
  BY DEF IInv, TypeOK, Between, ElectrumExit, Goto, faults, Scripts
<1>3. AtGateway' /\ FundedMeansBacked'
  BY GatewaysUntouched DEF IInv, TypeOK, ElectrumExit, Goto, faults, Scripts
<1>4. QED
  BY <1>1, <1>2, <1>3 DEF IInv

LEMMA DaemonDiesInductive == IInv /\ DaemonDies => IInv'
<1> SUFFICES ASSUME IInv, DaemonDies PROVE IInv'
  OBVIOUS
<1> USE ProvisioningAssumption, StepsDiffer
<1>0. TypeOfNames /\ TypeOfNumbers /\ TypeOfGateways
  BY TypeParts DEF IInv
<1>1. TypeOK'
  <2>1. TypeOfNames'
    BY <1>0 DEF TypeOfNames, DaemonDies, Error, Scripts
  <2>2. TypeOfNumbers'
    BY <1>0 DEF TypeOfNumbers, DaemonDies, Error, Peers
  <2>3. TypeOfGateways'
    BY <1>0 DEF TypeOfGateways, DaemonDies, Error
  <2>4. QED
    BY <2>1, <2>2, <2>3, Zenon DEF TypeOK, TypeOfNames, TypeOfNumbers, TypeOfGateways
<1>2. Between'
  BY <1>0 DEF IInv, TypeOfNames, Between, DaemonDies, Error, Scripts
<1>3. AtGateway' /\ FundedMeansBacked'
  BY <1>0, GatewaysUntouched DEF IInv, TypeOfNames, TypeOfNumbers, DaemonDies, Error, Scripts
<1>4. QED
  BY <1>1, <1>2, <1>3 DEF IInv

LEMMA FundStartInductive == IInv /\ FundStart => IInv'
<1> SUFFICES ASSUME IInv, FundStart PROVE IInv'
  OBVIOUS
<1> USE ProvisioningAssumption, StepsDiffer
<1>0. TypeOfNames /\ TypeOfNumbers /\ TypeOfGateways
  BY TypeParts DEF IInv
<1>1. TypeOK'
  <2>1. TypeOfNames'
    BY <1>0 DEF TypeOfNames, FundStart, Goto, world, faults, Scripts
  <2>2. TypeOfNumbers'
    BY <1>0 DEF TypeOfNumbers, FundStart, Goto, world, faults, Peers
  <2>3. TypeOfGateways'
    BY <1>0 DEF TypeOfGateways, FundStart, Goto, world, faults
  <2>4. QED
    BY <2>1, <2>2, <2>3, Zenon DEF TypeOK, TypeOfNames, TypeOfNumbers, TypeOfGateways
<1>2. Between'
  BY DEF IInv, TypeOK, Between, FundStart, Goto, world, faults, Scripts
<1>3. AtGateway' /\ FundedMeansBacked'
  BY GatewaysUntouched DEF IInv, TypeOK, FundStart, Goto, world, faults, Scripts
<1>4. QED
  BY <1>1, <1>2, <1>3 DEF IInv

LEMMA FundSendInductive == IInv /\ FundSend => IInv'
<1> SUFFICES ASSUME IInv, FundSend PROVE IInv'
  OBVIOUS
<1> USE ProvisioningAssumption, StepsDiffer
<1>0. TypeOfNames /\ TypeOfNumbers /\ TypeOfGateways
  BY TypeParts DEF IInv
<1>1. TypeOK'
  <2>1. TypeOfNames'
    BY <1>0 DEF TypeOfNames, FundSend, Goto, Take, world, faults, Scripts
  <2>2. TypeOfNumbers'
    BY <1>0 DEF TypeOfNumbers, FundSend, Goto, Take, world, faults, Peers
  <2>3. TypeOfGateways'
    BY <1>0 DEF TypeOfGateways, FundSend, Goto, Take, world, faults
  <2>4. QED
    BY <2>1, <2>2, <2>3, Zenon DEF TypeOK, TypeOfNames, TypeOfNumbers, TypeOfGateways
<1>2. Between'
  BY DEF IInv, TypeOK, Between, FundSend, Goto, Take, world, faults, Scripts
<1>3. AtGateway' /\ FundedMeansBacked'
  BY GatewaysUntouched DEF IInv, TypeOK, FundSend, Goto, Take, world, faults, Scripts
<1>4. QED
  BY <1>1, <1>2, <1>3 DEF IInv

LEMMA FundMarkInductive == IInv /\ FundMark => IInv'
<1> SUFFICES ASSUME IInv, FundMark PROVE IInv'
  OBVIOUS
<1> USE ProvisioningAssumption, StepsDiffer
<1>1. TypeOK'
  BY DEF IInv, TypeOK, FundMark, Goto, MarkDone, world, faults, Peers, Scripts
<1>2. Between'
  BY DEF IInv, TypeOK, Between, FundMark, Goto, MarkDone, world, faults, Scripts
<1>3. AtGateway' /\ FundedMeansBacked'
  BY GatewaysUntouched DEF IInv, TypeOK, FundMark, Goto, MarkDone, world, faults, Scripts
<1>4. QED
  BY <1>1, <1>2, <1>3 DEF IInv

LEMMA BridgeAddressInductive == IInv /\ BridgeAddress => IInv'
<1> SUFFICES ASSUME IInv, BridgeAddress PROVE IInv'
  OBVIOUS
<1> USE ProvisioningAssumption, StepsDiffer
<1>0. TypeOfNames /\ TypeOfNumbers /\ TypeOfGateways
  BY TypeParts DEF IInv
<1>1. TypeOK'
  <2>1. TypeOfNames'
    BY <1>0 DEF TypeOfNames, BridgeAddress, Error, Goto, BridgeAddr, world, faults, Scripts
  <2>2. TypeOfNumbers'
    BY <1>0 DEF TypeOfNumbers, BridgeAddress, Error, Goto, BridgeAddr, world, faults, Peers
  <2>3. TypeOfGateways'
    BY <1>0 DEF TypeOfGateways, BridgeAddress, Error, Goto, BridgeAddr, world, faults
  <2>4. QED
    BY <2>1, <2>2, <2>3, Zenon DEF TypeOK, TypeOfNames, TypeOfNumbers, TypeOfGateways
<1>2. Between'
  BY <1>0
  DEF IInv, TypeOfNames, Between, BridgeAddress, Error, Goto, BridgeAddr, world, faults, Scripts
<1>3. AtGateway' /\ FundedMeansBacked'
  BY <1>0, GatewaysUntouched
  DEF IInv, TypeOfNames, TypeOfNumbers, BridgeAddress, Error, Goto, BridgeAddr, world, faults,
     Scripts
<1>4. QED
  BY <1>1, <1>2, <1>3 DEF IInv

LEMMA BridgeOpenInductive == IInv /\ BridgeOpen => IInv'
<1> SUFFICES ASSUME IInv, BridgeOpen PROVE IInv'
  OBVIOUS
<1> USE ProvisioningAssumption, StepsDiffer
<1>0. TypeOfNames /\ TypeOfNumbers /\ TypeOfGateways
  BY TypeParts DEF IInv
<1>1. TypeOK'
  <2>1. TypeOfNames'
    BY <1>0 DEF TypeOfNames, BridgeOpen, OpenBridge, Goto, Take, faults, Scripts
  <2>2. TypeOfNumbers'
    BY <1>0 DEF TypeOfNumbers, BridgeOpen, OpenBridge, Goto, Take, faults, Peers
  <2>3. TypeOfGateways'
    BY <1>0 DEF TypeOfGateways, BridgeOpen, OpenBridge, Goto, Take, faults
  <2>4. QED
    BY <2>1, <2>2, <2>3, Zenon DEF TypeOK, TypeOfNames, TypeOfNumbers, TypeOfGateways
<1>2. Between'
  BY <1>0 DEF IInv, TypeOfNames, Between, BridgeOpen, OpenBridge, Goto, Take, faults, Scripts
<1>3. AtGateway' /\ FundedMeansBacked'
  BY <1>0, GatewaysUntouched
  DEF IInv, TypeOfNames, TypeOfNumbers, BridgeOpen, OpenBridge, Goto, Take, faults, Scripts
<1>4. QED
  BY <1>1, <1>2, <1>3 DEF IInv

LEMMA BridgeOpenUnheardInductive == IInv /\ BridgeOpenUnheard => IInv'
<1> SUFFICES ASSUME IInv, BridgeOpenUnheard PROVE IInv'
  OBVIOUS
<1> USE ProvisioningAssumption, StepsDiffer
<1>0. TypeOfNames /\ TypeOfNumbers /\ TypeOfGateways
  BY TypeParts DEF IInv
<1>1. TypeOK'
  <2>1. TypeOfNames'
    BY <1>0 DEF TypeOfNames, BridgeOpenUnheard, OpenBridge, Error, Take, Scripts
  <2>2. TypeOfNumbers'
    BY <1>0 DEF TypeOfNumbers, BridgeOpenUnheard, OpenBridge, Error, Take, Peers
  <2>3. TypeOfGateways'
    BY <1>0 DEF TypeOfGateways, BridgeOpenUnheard, OpenBridge, Error, Take
  <2>4. QED
    BY <2>1, <2>2, <2>3, Zenon DEF TypeOK, TypeOfNames, TypeOfNumbers, TypeOfGateways
<1>2. Between'
  BY <1>0 DEF IInv, TypeOfNames, Between, BridgeOpenUnheard, OpenBridge, Error, Take, Scripts
<1>3. AtGateway' /\ FundedMeansBacked'
  BY <1>0, GatewaysUntouched
  DEF IInv, TypeOfNames, TypeOfNumbers, BridgeOpenUnheard, OpenBridge, Error, Take, Scripts
<1>4. QED
  BY <1>1, <1>2, <1>3 DEF IInv

LEMMA BridgeMarkInductive == IInv /\ BridgeMark => IInv'
<1> SUFFICES ASSUME IInv, BridgeMark PROVE IInv'
  OBVIOUS
<1> USE ProvisioningAssumption, StepsDiffer
<1>1. TypeOK'
  BY DEF IInv, TypeOK, BridgeMark, Goto, MarkDone, world, faults, Peers, Scripts
<1>2. Between'
  BY DEF IInv, TypeOK, Between, BridgeMark, Goto, MarkDone, world, faults, Scripts
<1>3. AtGateway' /\ FundedMeansBacked'
  BY GatewaysUntouched DEF IInv, TypeOK, BridgeMark, Goto, MarkDone, world, faults, Scripts
<1>4. QED
  BY <1>1, <1>2, <1>3 DEF IInv

LEMMA SetupStartInductive == IInv /\ SetupStart => IInv'
<1> SUFFICES ASSUME IInv, SetupStart PROVE IInv'
  OBVIOUS
<1> USE ProvisioningAssumption, StepsDiffer
<1>0. TypeOfNames /\ TypeOfNumbers /\ TypeOfGateways
  BY TypeParts DEF IInv
<1>1. TypeOK'
  <2>1. TypeOfNames'
    BY <1>0 DEF TypeOfNames, SetupStart, Goto, world, faults, Scripts
  <2>2. TypeOfNumbers'
    BY <1>0 DEF TypeOfNumbers, SetupStart, Goto, world, faults, Peers
  <2>3. TypeOfGateways'
    BY <1>0 DEF TypeOfGateways, SetupStart, Goto, world, faults
  <2>4. QED
    BY <2>1, <2>2, <2>3, Zenon DEF TypeOK, TypeOfNames, TypeOfNumbers, TypeOfGateways
<1>2. Between'
  BY DEF IInv, TypeOK, Between, SetupStart, Goto, world, faults, Scripts
<1>3. AtGateway' /\ FundedMeansBacked'
  BY GatewaysUntouched DEF IInv, TypeOK, SetupStart, Goto, world, faults, Scripts
<1>4. QED
  BY <1>1, <1>2, <1>3 DEF IInv

LEMMA SetParamsInductive == IInv /\ SetParams => IInv'
<1> SUFFICES ASSUME IInv, SetParams PROVE IInv'
  OBVIOUS
<1> USE ProvisioningAssumption, StepsDiffer
<1>0. TypeOfNames /\ TypeOfNumbers /\ TypeOfGateways
  BY TypeParts DEF IInv
<1>1. TypeOK'
  <2>1. TypeOfNames'
    BY <1>0 DEF TypeOfNames, SetParams, Tell, Goto, faults, Scripts
  <2>2. TypeOfNumbers'
    BY <1>0 DEF TypeOfNumbers, SetParams, Tell, Goto, faults, Peers
  <2>3. TypeOfGateways'
    BY <1>0 DEF TypeOfGateways, SetParams, Tell, Goto, faults
  <2>4. QED
    BY <2>1, <2>2, <2>3, Zenon DEF TypeOK, TypeOfNames, TypeOfNumbers, TypeOfGateways
<1>2. Between'
  BY DEF IInv, TypeOK, Between, SetParams, Tell, Goto, faults, Scripts
<1>3. AtGateway' /\ FundedMeansBacked'
  BY GatewaysUntouched DEF IInv, TypeOK, SetParams, Tell, Goto, faults, Scripts
<1>4. QED
  BY <1>1, <1>2, <1>3 DEF IInv

LEMMA StartDkgInductive == IInv /\ StartDkg => IInv'
<1> SUFFICES ASSUME IInv, StartDkg PROVE IInv'
  OBVIOUS
<1> USE ProvisioningAssumption, StepsDiffer
<1>0. TypeOfNames /\ TypeOfNumbers /\ TypeOfGateways
  BY TypeParts DEF IInv
<1>1. TypeOK'
  <2>1. TypeOfNames'
    BY <1>0 DEF TypeOfNames, StartDkg, Tell, Goto, faults, Scripts
  <2>2. TypeOfNumbers'
    BY <1>0 DEF TypeOfNumbers, StartDkg, Tell, Goto, faults, Peers
  <2>3. TypeOfGateways'
    BY <1>0 DEF TypeOfGateways, StartDkg, Tell, Goto, faults
  <2>4. QED
    BY <2>1, <2>2, <2>3, Zenon DEF TypeOK, TypeOfNames, TypeOfNumbers, TypeOfGateways
<1>2. Between'
  BY DEF IInv, TypeOK, Between, StartDkg, Tell, Goto, faults, Scripts
<1>3. AtGateway' /\ FundedMeansBacked'
  BY GatewaysUntouched DEF IInv, TypeOK, StartDkg, Tell, Goto, faults, Scripts
<1>4. QED
  BY <1>1, <1>2, <1>3 DEF IInv

LEMMA CopyInviteInductive == IInv /\ CopyInvite => IInv'
<1> SUFFICES ASSUME IInv, CopyInvite PROVE IInv'
  OBVIOUS
<1> USE ProvisioningAssumption, StepsDiffer
<1>1. TypeOK'
  BY DEF IInv, TypeOK, CopyInvite, Goto, world, faults, Federated, Peers, Scripts
<1>2. Between'
  BY DEF IInv, TypeOK, Between, CopyInvite, Goto, world, faults, Federated, Scripts
<1>3. AtGateway' /\ FundedMeansBacked'
  BY GatewaysUntouched DEF IInv, TypeOK, CopyInvite, Goto, world, faults, Federated, Scripts
<1>4. QED
  BY <1>1, <1>2, <1>3 DEF IInv

-----------------------------------------------------------------------------
(* The steps of the gateways' script.                                     *)

LEMMA GatewaysStartInductive == IInv /\ GatewaysStart => IInv'
<1> SUFFICES ASSUME IInv, GatewaysStart PROVE IInv'
  OBVIOUS
<1> USE ProvisioningAssumption, StepsDiffer
<1>0. TypeOfNames /\ TypeOfNumbers /\ TypeOfGateways /\ G \in Peers
  BY TypeParts DEF IInv, TypeOfNumbers, G
<1>1. TypeOK'
  <2>1. TypeOfNames'
    BY <1>0 DEF TypeOfNames, GatewaysStart, Goto, world, faults, G, Scripts
  <2>2. TypeOfNumbers'
    BY <1>0 DEF TypeOfNumbers, GatewaysStart, Goto, world, faults, G, Peers
  <2>3. TypeOfGateways'
    BY <1>0 DEF TypeOfGateways, GatewaysStart, Goto, world, faults, G
  <2>4. QED
    BY <2>1, <2>2, <2>3, Zenon DEF TypeOK, TypeOfNames, TypeOfNumbers, TypeOfGateways
<1>2. Between'
  BY <1>0 DEF IInv, TypeOfNames, Between, GatewaysStart, Goto, world, faults, G, Scripts
<1>3. AtGateway'
  BY <1>0
  DEF IInv, TypeOfNames, TypeOfNumbers, TypeOfGateways, AtGateway, FundedMeansBacked,
     GatewaysStart, Goto, world, faults, G, Scripts
<1>4. FundedMeansBacked'
  BY <1>0
  DEF IInv, TypeOfNames, TypeOfNumbers, TypeOfGateways, AtGateway, FundedMeansBacked,
     GatewaysStart, Goto, world, faults, G, Scripts
<1>5. QED
  BY <1>1, <1>2, <1>3, <1>4 DEF IInv

LEMMA GatewayWalletInductive == IInv /\ GatewayWallet => IInv'
<1> SUFFICES ASSUME IInv, GatewayWallet PROVE IInv'
  OBVIOUS
<1> USE ProvisioningAssumption, StepsDiffer
<1>0. TypeOfNames /\ TypeOfNumbers /\ TypeOfGateways /\ G \in Peers
  BY TypeParts DEF IInv, TypeOfNumbers, G
<1>1. TypeOK'
  <2>1. TypeOfNames'
    BY <1>0 DEF TypeOfNames, GatewayWallet, Try, Error, faults, GwFile, Goto, G, Scripts
  <2>2. TypeOfNumbers'
    BY <1>0 DEF TypeOfNumbers, GatewayWallet, Try, Error, faults, GwFile, Goto, G, Peers
  <2>3. TypeOfGateways'
    <3>1. gateway' = [gateway EXCEPT ![G] = [gateway[G] EXCEPT !.wallet = TRUE]] \/ gateway' = gateway
      BY <1>0 DEF TypeOfGateways, GatewayWallet, Try, Error, faults, GwFile, Goto, G
    <3>2. [gateway[G] EXCEPT !.wallet = TRUE] \in
            [wallet : BOOLEAN, joined : BOOLEAN, addr : Nat, confirmed : Nat, ecash : BOOLEAN]
      BY <1>0 DEF TypeOfGateways, TypeOfNumbers
    <3>3. QED
      BY <1>0, <3>1, <3>2 DEF TypeOfGateways
  <2>4. QED
    BY <2>1, <2>2, <2>3, Zenon DEF TypeOK, TypeOfNames, TypeOfNumbers, TypeOfGateways
<1>2. Between'
  BY <1>0
  DEF IInv, TypeOfNames, Between, GatewayWallet, Try, Error, faults, GwFile, Goto, G, Scripts
<1>3. AtGateway'
  BY <1>0
  DEF IInv, TypeOfNames, TypeOfNumbers, TypeOfGateways, AtGateway, FundedMeansBacked,
     GatewayWallet, Try, Error, faults, GwFile, Goto, G, Scripts
<1>4. FundedMeansBacked'
  <2>1. \A i \in Peers :
          /\ gateway'[i].addr = gateway[i].addr
          /\ gateway[i].ecash => gateway'[i].ecash
          /\ gateway[i].joined => gateway'[i].joined
    BY <1>0 DEF TypeOfGateways, GatewayWallet, Try, Error, faults, GwFile, Goto, G
  <2>2. \A i \in Peers : <<"funded", i>> \in files' => <<"funded", i>> \in files
    BY DEF GatewayWallet, Try, Error, faults, GwFile, Goto, G
  <2>3. UNCHANGED <<effects, marked>>
    BY DEF GatewayWallet
  <2>4. QED
    BY <2>1, <2>2, <2>3 DEF IInv, FundedMeansBacked
<1>5. QED
  BY <1>1, <1>2, <1>3, <1>4 DEF IInv

LEMMA GatewayJoinInductive == IInv /\ GatewayJoin => IInv'
<1> SUFFICES ASSUME IInv, GatewayJoin PROVE IInv'
  OBVIOUS
<1> USE ProvisioningAssumption, StepsDiffer
<1>0. TypeOfNames /\ TypeOfNumbers /\ TypeOfGateways /\ G \in Peers
  BY TypeParts DEF IInv, TypeOfNumbers, G
<1>1. TypeOK'
  <2>1. TypeOfNames'
    BY <1>0 DEF TypeOfNames, GatewayJoin, Try, Error, faults, GwFile, Goto, G, Scripts
  <2>2. TypeOfNumbers'
    BY <1>0 DEF TypeOfNumbers, GatewayJoin, Try, Error, faults, GwFile, Goto, G, Peers
  <2>3. TypeOfGateways'
    <3>1. gateway' = [gateway EXCEPT ![G] = [gateway[G] EXCEPT !.joined = TRUE]] \/ gateway' = gateway
      BY <1>0 DEF TypeOfGateways, GatewayJoin, Try, Error, faults, GwFile, Goto, G
    <3>2. [gateway[G] EXCEPT !.joined = TRUE] \in
            [wallet : BOOLEAN, joined : BOOLEAN, addr : Nat, confirmed : Nat, ecash : BOOLEAN]
      BY <1>0 DEF TypeOfGateways, TypeOfNumbers
    <3>3. QED
      BY <1>0, <3>1, <3>2 DEF TypeOfGateways
  <2>4. QED
    BY <2>1, <2>2, <2>3, Zenon DEF TypeOK, TypeOfNames, TypeOfNumbers, TypeOfGateways
<1>2. Between'
  BY <1>0
  DEF IInv, TypeOfNames, Between, GatewayJoin, Try, Error, faults, GwFile, Goto, G, Scripts
<1>3. AtGateway'
  BY <1>0
  DEF IInv, TypeOfNames, TypeOfNumbers, TypeOfGateways, AtGateway, FundedMeansBacked,
     GatewayJoin, Try, Error, faults, GwFile, Goto, G, Scripts
<1>4. FundedMeansBacked'
  <2>1. \A i \in Peers :
          /\ gateway'[i].addr = gateway[i].addr
          /\ gateway[i].ecash => gateway'[i].ecash
          /\ gateway[i].joined => gateway'[i].joined
    BY <1>0 DEF TypeOfGateways, GatewayJoin, Try, Error, faults, GwFile, Goto, G
  <2>2. \A i \in Peers : <<"funded", i>> \in files' => <<"funded", i>> \in files
    BY DEF GatewayJoin, Try, Error, faults, GwFile, Goto, G
  <2>3. UNCHANGED <<effects, marked>>
    BY DEF GatewayJoin
  <2>4. QED
    BY <2>1, <2>2, <2>3 DEF IInv, FundedMeansBacked
<1>5. QED
  BY <1>1, <1>2, <1>3, <1>4 DEF IInv

LEMMA GatewaySkipInductive == IInv /\ GatewaySkip => IInv'
<1> SUFFICES ASSUME IInv, GatewaySkip PROVE IInv'
  OBVIOUS
<1> USE ProvisioningAssumption, StepsDiffer
<1>0. TypeOfNames /\ TypeOfNumbers /\ TypeOfGateways /\ G \in Peers
  BY TypeParts DEF IInv, TypeOfNumbers, G
<1>1. TypeOK'
  <2>1. TypeOfNames'
    <3>1. pending' \in BOOLEAN
      BY <1>0, Zenon
      DEF TypeOfNames, GatewaySkip, NextGateway, GwFile, Goto, world, faults, G, Scripts
    <3>2. /\ pc' \in [Scripts -> Places]
          /\ UNCHANGED <<marked, daemon, coins, guardian, unread>>
      BY <1>0 DEF TypeOfNames, GatewaySkip, NextGateway, GwFile, Goto, world, faults, G, Scripts
    <3>3. QED
      BY <1>0, <3>1, <3>2, Zenon DEF TypeOfNames
  <2>2. TypeOfNumbers'
    BY <1>0 DEF TypeOfNumbers, GatewaySkip, NextGateway, GwFile, Goto, world, faults, G, Peers
  <2>3. TypeOfGateways'
    BY <1>0 DEF TypeOfGateways, GatewaySkip, NextGateway, GwFile, Goto, world, faults, G
  <2>4. QED
    BY <2>1, <2>2, <2>3, Zenon DEF TypeOK, TypeOfNames, TypeOfNumbers, TypeOfGateways
<1>2. Between'
  BY <1>0
  DEF IInv, TypeOfNames, Between, GatewaySkip, NextGateway, GwFile, Goto, world, faults, G,
     Scripts
<1>3. AtGateway'
  BY <1>0
  DEF IInv, TypeOfNames, TypeOfNumbers, TypeOfGateways, AtGateway, FundedMeansBacked,
     GatewaySkip, NextGateway, GwFile, Goto, world, faults, G, Scripts
<1>4. FundedMeansBacked'
  BY <1>0
  DEF IInv, TypeOfNames, TypeOfNumbers, TypeOfGateways, AtGateway, FundedMeansBacked,
     GatewaySkip, NextGateway, GwFile, Goto, world, faults, G, Scripts
<1>5. QED
  BY <1>1, <1>2, <1>3, <1>4 DEF IInv

LEMMA GatewayUnreadInductive == IInv /\ GatewayUnread => IInv'
<1> SUFFICES ASSUME IInv, GatewayUnread PROVE IInv'
  OBVIOUS
<1> USE ProvisioningAssumption, StepsDiffer
<1>0. TypeOfNames /\ TypeOfNumbers /\ TypeOfGateways /\ G \in Peers
  BY TypeParts DEF IInv, TypeOfNumbers, G
<1>1. TypeOK'
  <2>1. TypeOfNames'
    <3>1. pending' \in BOOLEAN
      BY <1>0, Zenon
      DEF TypeOfNames, GatewayUnread, NextGateway, ToBeFunded, GwFile, Goto, world, G, Scripts
    <3>2. /\ pc' \in [Scripts -> Places]
          /\ UNCHANGED <<marked, daemon, coins, guardian>>
          /\ unread' \subseteq Peers
      BY <1>0
      DEF TypeOfNames, GatewayUnread, NextGateway, ToBeFunded, GwFile, Goto, world, G, Scripts
    <3>3. QED
      BY <1>0, <3>1, <3>2, Zenon DEF TypeOfNames
  <2>2. TypeOfNumbers'
    BY <1>0
    DEF TypeOfNumbers, GatewayUnread, NextGateway, ToBeFunded, GwFile, Goto, world, G, Peers
  <2>3. TypeOfGateways'
    BY <1>0 DEF TypeOfGateways, GatewayUnread, NextGateway, ToBeFunded, GwFile, Goto, world, G
  <2>4. QED
    BY <2>1, <2>2, <2>3, Zenon DEF TypeOK, TypeOfNames, TypeOfNumbers, TypeOfGateways
<1>2. Between'
  BY <1>0
  DEF IInv, TypeOfNames, Between, GatewayUnread, NextGateway, ToBeFunded, GwFile, Goto, world, G,
     Scripts
<1>3. AtGateway'
  BY <1>0
  DEF IInv, TypeOfNames, TypeOfNumbers, TypeOfGateways, AtGateway, FundedMeansBacked,
     GatewayUnread, NextGateway, ToBeFunded, GwFile, Goto, world, G, Scripts
<1>4. FundedMeansBacked'
  BY <1>0
  DEF IInv, TypeOfNames, TypeOfNumbers, TypeOfGateways, AtGateway, FundedMeansBacked,
     GatewayUnread, NextGateway, ToBeFunded, GwFile, Goto, world, G, Scripts
<1>5. QED
  BY <1>1, <1>2, <1>3, <1>4 DEF IInv

LEMMA GatewaySendInductive == IInv /\ GatewaySend => IInv'
<1> SUFFICES ASSUME IInv, GatewaySend PROVE IInv'
  OBVIOUS
<1> USE ProvisioningAssumption, StepsDiffer
<1>0. TypeOfNames /\ TypeOfNumbers /\ TypeOfGateways /\ G \in Peers
  BY TypeParts DEF IInv, TypeOfNumbers, G
<1>1. TypeOK'
  <2>1. TypeOfNames'
    BY <1>0
    DEF TypeOfNames, GatewaySend, ToBeFunded, GwFile, Goto, Take, world, faults, G, Scripts
  <2>2. TypeOfNumbers'
    BY <1>0
    DEF TypeOfNumbers, GatewaySend, ToBeFunded, GwFile, Goto, Take, world, faults, G, Peers
  <2>3. TypeOfGateways'
    BY <1>0 DEF TypeOfGateways, GatewaySend, ToBeFunded, GwFile, Goto, Take, world, faults, G
  <2>4. QED
    BY <2>1, <2>2, <2>3, Zenon DEF TypeOK, TypeOfNames, TypeOfNumbers, TypeOfGateways
<1>2. Between'
  BY <1>0
  DEF IInv, TypeOfNames, Between, GatewaySend, ToBeFunded, GwFile, Goto, Take, world, faults,
     G, Scripts
<1>3. AtGateway'
  BY <1>0
  DEF IInv, TypeOfNames, TypeOfNumbers, TypeOfGateways, AtGateway, FundedMeansBacked,
     GatewaySend, ToBeFunded, GwFile, Goto, Take, world, faults, G, Scripts
<1>4. FundedMeansBacked'
  <2>1. \A i \in Peers : effects[Float(i)] <= effects'[Float(i)]
    BY <1>0 DEF TypeOfNumbers, GatewaySend, ToBeFunded, GwFile, Goto, Take, world, faults, G
  <2>2. \A i \in Peers : effects[Float(i)] \in Nat /\ effects'[Float(i)] \in Nat
    BY <1>0, <1>1 DEF TypeOK, TypeOfNumbers
  <2>3. UNCHANGED <<marked, gateway, files>>
    BY DEF GatewaySend, world
  <2>4. \A i \in Peers : gateway[i].addr \in Nat
    BY <1>0 DEF TypeOfGateways
  <2>5. \A i \in Peers : gateway[i].addr <= effects[Float(i)]
    BY DEF IInv, FundedMeansBacked
  <2>6. \A i \in Peers : gateway'[i].addr <= effects'[Float(i)]
    BY <2>1, <2>2, <2>3, <2>4, <2>5
  <2>7. QED
    BY <2>3, <2>6 DEF IInv, FundedMeansBacked
<1>5. QED
  BY <1>1, <1>2, <1>3, <1>4 DEF IInv

LEMMA GatewaySendUnheardInductive == IInv /\ GatewaySendUnheard => IInv'
<1> SUFFICES ASSUME IInv, GatewaySendUnheard PROVE IInv'
  OBVIOUS
<1> USE ProvisioningAssumption, StepsDiffer
<1>0. TypeOfNames /\ TypeOfNumbers /\ TypeOfGateways /\ G \in Peers
  BY TypeParts DEF IInv, TypeOfNumbers, G
<1>1. TypeOK'
  <2>1. TypeOfNames'
    BY <1>0
    DEF TypeOfNames, GatewaySendUnheard, ToBeFunded, GwFile, Goto, Take, Error, world, G, Scripts
  <2>2. TypeOfNumbers'
    BY <1>0
    DEF TypeOfNumbers, GatewaySendUnheard, ToBeFunded, GwFile, Goto, Take, Error, world, G, Peers
  <2>3. TypeOfGateways'
    BY <1>0
    DEF TypeOfGateways, GatewaySendUnheard, ToBeFunded, GwFile, Goto, Take, Error, world, G
  <2>4. QED
    BY <2>1, <2>2, <2>3, Zenon DEF TypeOK, TypeOfNames, TypeOfNumbers, TypeOfGateways
<1>2. Between'
  BY <1>0
  DEF IInv, TypeOfNames, Between, GatewaySendUnheard, ToBeFunded, GwFile, Goto, Take, Error, world,
     G, Scripts
<1>3. AtGateway'
  BY <1>0
  DEF IInv, TypeOfNames, TypeOfNumbers, TypeOfGateways, AtGateway, FundedMeansBacked,
     GatewaySendUnheard, ToBeFunded, GwFile, Goto, Take, Error, world, G, Scripts
<1>4. FundedMeansBacked'
  <2>1. \A i \in Peers : effects[Float(i)] <= effects'[Float(i)]
    BY <1>0
    DEF TypeOfNumbers, GatewaySendUnheard, ToBeFunded, GwFile, Goto, Take, Error, world, G
  <2>2. \A i \in Peers : effects[Float(i)] \in Nat /\ effects'[Float(i)] \in Nat
    BY <1>0, <1>1 DEF TypeOK, TypeOfNumbers
  <2>3. UNCHANGED <<marked, gateway, files>>
    BY DEF GatewaySendUnheard, world
  <2>4. \A i \in Peers : gateway[i].addr \in Nat
    BY <1>0 DEF TypeOfGateways
  <2>5. \A i \in Peers : gateway[i].addr <= effects[Float(i)]
    BY DEF IInv, FundedMeansBacked
  <2>6. \A i \in Peers : gateway'[i].addr <= effects'[Float(i)]
    BY <2>1, <2>2, <2>3, <2>4, <2>5
  <2>7. QED
    BY <2>3, <2>6 DEF IInv, FundedMeansBacked
<1>5. QED
  BY <1>1, <1>2, <1>3, <1>4 DEF IInv

LEMMA GatewayAddrInductive == IInv /\ GatewayAddr => IInv'
<1> SUFFICES ASSUME IInv, GatewayAddr PROVE IInv'
  OBVIOUS
<1> USE ProvisioningAssumption, StepsDiffer
<1>0. TypeOfNames /\ TypeOfNumbers /\ TypeOfGateways /\ G \in Peers
  BY TypeParts DEF IInv, TypeOfNumbers, G
<1>1. TypeOK'
  <2>1. TypeOfNames'
    BY <1>0 DEF TypeOfNames, GatewayAddr, Goto, faults, G, Scripts
  <2>2. TypeOfNumbers'
    BY <1>0 DEF TypeOfNumbers, GatewayAddr, Goto, faults, G, Peers
  <2>3. TypeOfGateways'
    <3>1. gateway' = [gateway EXCEPT ![G] = [gateway[G] EXCEPT !.addr = effects[Float(G)]]]
      BY <1>0 DEF TypeOfGateways, GatewayAddr, Goto, faults, G
    <3>2. [gateway[G] EXCEPT !.addr = effects[Float(G)]] \in
            [wallet : BOOLEAN, joined : BOOLEAN, addr : Nat, confirmed : Nat, ecash : BOOLEAN]
      BY <1>0 DEF TypeOfGateways, TypeOfNumbers
    <3>3. QED
      BY <1>0, <3>1, <3>2 DEF TypeOfGateways
  <2>4. QED
    BY <2>1, <2>2, <2>3, Zenon DEF TypeOK, TypeOfNames, TypeOfNumbers, TypeOfGateways
<1>2. Between'
  BY <1>0 DEF IInv, TypeOfNames, Between, GatewayAddr, Goto, faults, G, Scripts
<1>3. AtGateway'
  BY <1>0
  DEF IInv, TypeOfNames, TypeOfNumbers, TypeOfGateways, AtGateway, FundedMeansBacked,
     GatewayAddr, Goto, faults, G, Scripts
<1>4. FundedMeansBacked'
  <2>1. /\ gateway'[G].addr = effects[Float(G)]
        /\ effects[Float(G)] > 0
    BY <1>0 DEF IInv, AtGateway, TypeOfGateways, GatewayAddr, Goto, faults, G
  <2>2. \A i \in Peers :
          /\ i # G => gateway'[i].addr = gateway[i].addr
          /\ gateway[i].ecash => gateway'[i].ecash
          /\ gateway[i].joined => gateway'[i].joined
    BY <1>0 DEF TypeOfGateways, GatewayAddr, Goto, faults, G
  <2>3. effects[Float(G)] \in Nat /\ UNCHANGED <<effects, marked, files>>
    BY <1>0 DEF TypeOfNumbers, GatewayAddr
  <2>4. \A i \in Peers : gateway'[i].addr <= effects'[Float(i)]
    <3>1. gateway'[G].addr <= effects'[Float(G)]
      BY <2>1, <2>3
    <3>2. \A i \in Peers : i # G => gateway'[i].addr <= effects'[Float(i)]
      BY <2>2, <2>3 DEF IInv, FundedMeansBacked
    <3>3. QED
      BY <3>1, <3>2
  <2>5. \A i \in Peers : Float(i) \in marked' => gateway'[i].addr > 0
    BY <2>1, <2>2, <2>3 DEF IInv, FundedMeansBacked
  <2>6. QED
    BY <2>2, <2>3, <2>4, <2>5 DEF IInv, FundedMeansBacked
<1>5. QED
  BY <1>1, <1>2, <1>3, <1>4 DEF IInv

LEMMA GatewaySentInductive == IInv /\ GatewaySent => IInv'
<1> SUFFICES ASSUME IInv, GatewaySent PROVE IInv'
  OBVIOUS
<1> USE ProvisioningAssumption, StepsDiffer
<1>0. TypeOfNames /\ TypeOfNumbers /\ TypeOfGateways /\ G \in Peers
  BY TypeParts DEF IInv, TypeOfNumbers, G
<1>1. TypeOK'
  <2>1. TypeOfNames'
    BY <1>0 DEF TypeOfNames, GatewaySent, Goto, MarkDone, world, faults, G, Scripts
  <2>2. TypeOfNumbers'
    BY <1>0 DEF TypeOfNumbers, GatewaySent, Goto, MarkDone, world, faults, G, Peers
  <2>3. TypeOfGateways'
    BY <1>0 DEF TypeOfGateways, GatewaySent, Goto, MarkDone, world, faults, G
  <2>4. QED
    BY <2>1, <2>2, <2>3, Zenon DEF TypeOK, TypeOfNames, TypeOfNumbers, TypeOfGateways
<1>2. Between'
  BY <1>0 DEF IInv, TypeOfNames, Between, GatewaySent, Goto, MarkDone, world, faults, G, Scripts
<1>3. AtGateway'
  BY <1>0
  DEF IInv, TypeOfNames, TypeOfNumbers, TypeOfGateways, AtGateway, FundedMeansBacked,
     GatewaySent, Goto, MarkDone, world, faults, G, Scripts
<1>4. FundedMeansBacked'
  BY <1>0
  DEF IInv, TypeOfNames, TypeOfNumbers, TypeOfGateways, AtGateway, FundedMeansBacked,
     GatewaySent, Goto, MarkDone, world, faults, G, Scripts
<1>5. QED
  BY <1>1, <1>2, <1>3, <1>4 DEF IInv

LEMMA GatewayNotSentInductive == IInv /\ GatewayNotSent => IInv'
<1> SUFFICES ASSUME IInv, GatewayNotSent PROVE IInv'
  OBVIOUS
<1> USE ProvisioningAssumption, StepsDiffer
<1>0. TypeOfNames /\ TypeOfNumbers /\ TypeOfGateways /\ G \in Peers
  BY TypeParts DEF IInv, TypeOfNumbers, G
<1>1. TypeOK'
  <2>1. TypeOfNames'
    BY <1>0
    DEF TypeOfNames, GatewayNotSent, ToBeFunded, GwFile, Error, Goto, world, faults, G, Scripts
  <2>2. TypeOfNumbers'
    BY <1>0
    DEF TypeOfNumbers, GatewayNotSent, ToBeFunded, GwFile, Error, Goto, world, faults, G, Peers
  <2>3. TypeOfGateways'
    BY <1>0
    DEF TypeOfGateways, GatewayNotSent, ToBeFunded, GwFile, Error, Goto, world, faults, G
  <2>4. QED
    BY <2>1, <2>2, <2>3, Zenon DEF TypeOK, TypeOfNames, TypeOfNumbers, TypeOfGateways
<1>2. Between'
  BY <1>0
  DEF IInv, TypeOfNames, Between, GatewayNotSent, ToBeFunded, GwFile, Error, Goto, world, faults, G,
     Scripts
<1>3. AtGateway'
  BY <1>0
  DEF IInv, TypeOfNames, TypeOfNumbers, TypeOfGateways, AtGateway, FundedMeansBacked,
     GatewayNotSent, ToBeFunded, GwFile, Error, Goto, world, faults, G, Scripts
<1>4. FundedMeansBacked'
  BY <1>0
  DEF IInv, TypeOfNames, TypeOfNumbers, TypeOfGateways, AtGateway, FundedMeansBacked,
     GatewayNotSent, ToBeFunded, GwFile, Error, Goto, world, faults, G, Scripts
<1>5. QED
  BY <1>1, <1>2, <1>3, <1>4 DEF IInv

LEMMA GatewayClaimInductive == IInv /\ GatewayClaim => IInv'
<1> SUFFICES ASSUME IInv, GatewayClaim PROVE IInv'
  OBVIOUS
<1> USE ProvisioningAssumption, StepsDiffer
<1>0. TypeOfNames /\ TypeOfNumbers /\ TypeOfGateways /\ G \in Peers
  BY TypeParts DEF IInv, TypeOfNumbers, G
<1>1. TypeOK'
  <2>1. TypeOfNames'
    <3>1. pending' \in BOOLEAN
      BY <1>0, Zenon
      DEF TypeOfNames, GatewayClaim, NextGateway, GwFile, Goto, faults, G, Scripts
    <3>2. /\ pc' \in [Scripts -> Places]
          /\ UNCHANGED <<marked, daemon, coins, guardian, unread>>
      BY <1>0 DEF TypeOfNames, GatewayClaim, NextGateway, GwFile, Goto, faults, G, Scripts
    <3>3. QED
      BY <1>0, <3>1, <3>2, Zenon DEF TypeOfNames
  <2>2. TypeOfNumbers'
    BY <1>0 DEF TypeOfNumbers, GatewayClaim, NextGateway, GwFile, Goto, faults, G, Peers
  <2>3. TypeOfGateways'
    BY <1>0 DEF TypeOfGateways, GatewayClaim, NextGateway, GwFile, Goto, faults, G
  <2>4. QED
    BY <2>1, <2>2, <2>3, Zenon DEF TypeOK, TypeOfNames, TypeOfNumbers, TypeOfGateways
<1>2. Between'
  BY <1>0
  DEF IInv, TypeOfNames, Between, GatewayClaim, NextGateway, GwFile, Goto, faults, G, Scripts
<1>3. AtGateway'
  BY <1>0
  DEF IInv, TypeOfNames, TypeOfNumbers, TypeOfGateways, AtGateway, FundedMeansBacked,
     GatewayClaim, NextGateway, GwFile, Goto, faults, G, Scripts
<1>4. FundedMeansBacked'
  <2>1. gateway'[G].ecash /\ gateway'[G].joined
    BY <1>0
    DEF IInv, AtGateway, TypeOfGateways, GatewayClaim, NextGateway, GwFile, Goto, faults, G
  <2>2. \A i \in Peers :
          /\ gateway'[i].addr = gateway[i].addr
          /\ gateway[i].ecash => gateway'[i].ecash
          /\ gateway[i].joined => gateway'[i].joined
    BY <1>0 DEF TypeOfGateways, GatewayClaim, NextGateway, GwFile, Goto, faults, G
  <2>3. \A i \in Peers : <<"funded", i>> \in files' => i = G \/ <<"funded", i>> \in files
    BY DEF GatewayClaim, NextGateway, GwFile, Goto, faults, G
  <2>4. UNCHANGED <<effects, marked>>
    BY DEF GatewayClaim
  <2>5. QED
    BY <2>1, <2>2, <2>3, <2>4 DEF IInv, FundedMeansBacked
<1>5. QED
  BY <1>1, <1>2, <1>3, <1>4 DEF IInv

LEMMA GatewayGivesUpInductive == IInv /\ GatewayGivesUp => IInv'
<1> SUFFICES ASSUME IInv, GatewayGivesUp PROVE IInv'
  OBVIOUS
<1> USE ProvisioningAssumption, StepsDiffer
<1>0. TypeOfNames /\ TypeOfNumbers /\ TypeOfGateways /\ G \in Peers
  BY TypeParts DEF IInv, TypeOfNumbers, G
<1>1. TypeOK'
  <2>1. TypeOfNames'
    <3>1. pending' \in BOOLEAN
      BY <1>0, Zenon
      DEF TypeOfNames, GatewayGivesUp, NextGateway, Goto, world, faults, G, Scripts
    <3>2. /\ pc' \in [Scripts -> Places]
          /\ UNCHANGED <<marked, daemon, coins, guardian, unread>>
      BY <1>0 DEF TypeOfNames, GatewayGivesUp, NextGateway, Goto, world, faults, G, Scripts
    <3>3. QED
      BY <1>0, <3>1, <3>2, Zenon DEF TypeOfNames
  <2>2. TypeOfNumbers'
    BY <1>0 DEF TypeOfNumbers, GatewayGivesUp, NextGateway, Goto, world, faults, G, Peers
  <2>3. TypeOfGateways'
    BY <1>0 DEF TypeOfGateways, GatewayGivesUp, NextGateway, Goto, world, faults, G
  <2>4. QED
    BY <2>1, <2>2, <2>3, Zenon DEF TypeOK, TypeOfNames, TypeOfNumbers, TypeOfGateways
<1>2. Between'
  BY <1>0
  DEF IInv, TypeOfNames, Between, GatewayGivesUp, NextGateway, Goto, world, faults, G, Scripts
<1>3. AtGateway'
  BY <1>0
  DEF IInv, TypeOfNames, TypeOfNumbers, TypeOfGateways, AtGateway, FundedMeansBacked,
     GatewayGivesUp, NextGateway, Goto, world, faults, G, Scripts
<1>4. FundedMeansBacked'
  BY <1>0
  DEF IInv, TypeOfNames, TypeOfNumbers, TypeOfGateways, AtGateway, FundedMeansBacked,
     GatewayGivesUp, NextGateway, Goto, world, faults, G, Scripts
<1>5. QED
  BY <1>1, <1>2, <1>3, <1>4 DEF IInv

-----------------------------------------------------------------------------
(* The steps of the world around the scripts.                              *)

LEMMA FundedInductive ==
  ASSUME IInv, NEW wallet \in {"ring", "bridge", "electrum"}, Funded(wallet)
  PROVE  IInv'
<1> USE ProvisioningAssumption, StepsDiffer
<1>1. TypeOK'
  <2>1. TypeOfNames /\ TypeOfNumbers /\ TypeOfGateways
    BY TypeParts DEF IInv
  <2>2. TypeOfNames'
    BY <2>1 DEF TypeOfNames, Funded, faults
  <2>3. TypeOfNumbers' /\ TypeOfGateways'
    BY <2>1 DEF TypeOfNumbers, TypeOfGateways, Funded, faults
  <2>4. QED
    BY <2>2, <2>3, Zenon DEF TypeOK, TypeOfNames, TypeOfNumbers, TypeOfGateways
<1>2. Between'
  BY DEF IInv, Between, Funded
<1>3. AtGateway' /\ FundedMeansBacked'
  BY GatewaysUntouched DEF Funded
<1>4. QED
  BY <1>1, <1>2, <1>3 DEF IInv

LEMMA ConfirmInductive ==
  ASSUME IInv, NEW i \in Peers, Confirm(i)
  PROVE  IInv'
<1> USE ProvisioningAssumption, StepsDiffer
<1>1. TypeOfNames /\ TypeOfNumbers /\ TypeOfGateways /\ G \in Peers
  BY TypeParts DEF IInv, TypeOfNumbers, G
<1>2. TypeOK'
  <2>1. TypeOfNames' /\ TypeOfNumbers'
    BY <1>1 DEF TypeOfNames, TypeOfNumbers, Confirm, faults
  <2>2. TypeOfGateways'
    <3>1. gateway' = [gateway EXCEPT ![i] = [gateway[i] EXCEPT !.confirmed = effects[Float(i)]]]
      BY <1>1 DEF TypeOfGateways, Confirm
    <3>2. [gateway[i] EXCEPT !.confirmed = effects[Float(i)]] \in
            [wallet : BOOLEAN, joined : BOOLEAN, addr : Nat, confirmed : Nat, ecash : BOOLEAN]
      BY <1>1 DEF TypeOfGateways, TypeOfNumbers
    <3>3. QED
      BY <1>1, <3>1, <3>2 DEF TypeOfGateways
  <2>3. QED
    BY <2>1, <2>2, Zenon DEF TypeOK, TypeOfNames, TypeOfNumbers, TypeOfGateways
<1>3. \A j \in Peers :
        /\ gateway'[j].addr = gateway[j].addr
        /\ gateway[j].ecash => gateway'[j].ecash
        /\ gateway[j].joined => gateway'[j].joined
  BY <1>1 DEF TypeOfGateways, Confirm
<1>4. UNCHANGED <<pc, at, marked, files, effects>>
  BY DEF Confirm
<1>5. Between'
  BY <1>4 DEF IInv, Between
<1>6. AtGateway'
  BY <1>1, <1>3, <1>4 DEF IInv, AtGateway, G
<1>7. FundedMeansBacked'
  BY <1>3, <1>4 DEF IInv, FundedMeansBacked
<1>8. QED
  BY <1>2, <1>5, <1>6, <1>7 DEF IInv

LEMMA KillInductive ==
  ASSUME IInv, NEW script \in Scripts, Kill(script)
  PROVE  IInv'
<1> USE ProvisioningAssumption, StepsDiffer
<1>1. TypeOfNames /\ TypeOfNumbers /\ TypeOfGateways /\ G \in Peers /\ 1 \in Peers
  BY TypeParts DEF IInv, TypeOfNumbers, G, Peers
<1>2. First[script] \in {"start", "address"} /\ pc' = [pc EXCEPT ![script] = First[script]]
  BY DEF Kill, First
<1>3. TypeOK'
  <2>1. TypeOfNames'
    <3>1. pending' \in BOOLEAN
      BY <1>1, Zenon DEF TypeOfNames, Kill
    <3>2. /\ pc' \in [Scripts -> Places]
          /\ daemon' \in {"off", "up", "loaded", "dead"}
          /\ UNCHANGED <<marked, coins, guardian, unread>>
      BY <1>1, <1>2 DEF TypeOfNames, Kill
    <3>3. QED
      BY <1>1, <3>1, <3>2, Zenon DEF TypeOfNames
  <2>2. TypeOfNumbers'
    BY <1>1 DEF TypeOfNumbers, Kill
  <2>3. TypeOfGateways'
    BY <1>1 DEF TypeOfGateways, Kill
  <2>4. QED
    BY <2>1, <2>2, <2>3, Zenon DEF TypeOK, TypeOfNames, TypeOfNumbers, TypeOfGateways
<1>4. Between'
  BY <1>1, <1>2 DEF IInv, TypeOfNames, Between, Kill, Scripts
<1>5. AtGateway' /\ FundedMeansBacked'
  <2>1. CASE script = "gateways"
    <3>1. pc'["gateways"] \in {"start", "address"}
      BY <2>1, <1>1, <1>2 DEF TypeOfNames, Scripts
    <3>2. AtGateway'
      BY <3>1 DEF AtGateway
    <3>3. FundedMeansBacked'
      BY DEF IInv, FundedMeansBacked, Kill
    <3>4. QED
      BY <3>2, <3>3
  <2>2. CASE script # "gateways"
    <3>1. pc'["gateways"] = pc["gateways"] /\ at'["gateways"] = at["gateways"]
      BY <2>2, <1>1, <1>2 DEF TypeOfNames, TypeOfNumbers, Scripts, Kill
    <3>2. QED
      BY <3>1, GatewaysUntouched DEF Kill
  <2>3. QED
    BY <2>1, <2>2
<1>6. QED
  BY <1>3, <1>4, <1>5 DEF IInv

LEMMA StutterInductive == IInv /\ UNCHANGED vars => IInv'
<1> SUFFICES ASSUME IInv, UNCHANGED vars PROVE IInv'
  OBVIOUS
<1>1. TypeOK'
  BY Zenon DEF IInv, TypeOK, vars
<1>2. Between' /\ AtGateway' /\ FundedMeansBacked'
  BY GatewaysUntouched DEF IInv, Between, vars
<1>3. QED
  BY <1>1, <1>2 DEF IInv

LEMMA NextInductive == IInv /\ [Next]_vars => IInv'
<1> SUFFICES ASSUME IInv, [Next]_vars PROVE IInv'
  OBVIOUS
<1>1. CASE Electrum
  BY <1>1, ElectrumStartInductive, ElectrumLoadInductive, ElectrumAddressInductive,
     ElectrumOpenInductive,
     ElectrumMarkInductive, ElectrumExitInductive DEF Electrum
<1>2. CASE ElectrumFund
  BY <1>2, FundStartInductive, FundSendInductive, FundMarkInductive DEF ElectrumFund
<1>3. CASE ArkBridge
  BY <1>3, BridgeAddressInductive, BridgeOpenInductive, BridgeMarkInductive DEF ArkBridge
<1>4. CASE Ceremony
  BY <1>4, SetupStartInductive, SetParamsInductive, StartDkgInductive, CopyInviteInductive
  DEF Ceremony
<1>5. CASE GatewayScript
  BY <1>5, GatewaysStartInductive, GatewayWalletInductive, GatewayJoinInductive,
     GatewaySkipInductive, GatewayUnreadInductive, GatewaySendInductive, GatewayAddrInductive, GatewaySentInductive,
     GatewayNotSentInductive, GatewayClaimInductive, GatewayGivesUpInductive
  DEF GatewayScript
<1>6. CASE Outside
  BY <1>6, FundedInductive, ConfirmInductive DEF Outside
<1>7. CASE DaemonDies
  BY <1>7, DaemonDiesInductive
<1>8. CASE \E script \in Scripts : Kill(script)
  BY <1>8, KillInductive
<1>9. CASE Unheard
  BY <1>9, ElectrumOpenUnheardInductive, BridgeOpenUnheardInductive, GatewaySendUnheardInductive
  DEF Unheard
<1>10. CASE UNCHANGED vars
  BY <1>10, StutterInductive
<1>11. QED
  BY <1>1, <1>2, <1>3, <1>4, <1>5, <1>6, <1>7, <1>8, <1>9, <1>10 DEF Next

\* The inductive invariant holds in every reachable state.
THEOREM Inductive == Spec => []IInv
<1>1. QED
  BY InitInductive, NextInductive, PTL DEF Spec

\* Every variable keeps its type, whatever is killed and whichever calls fail.
THEOREM TypeCorrect == Spec => []TypeOK
<1>1. IInv => TypeOK
  BY DEF IInv
<1>2. QED
  BY <1>1, Inductive, PTL

\* A gateway marked as funded has joined and holds ecash, and a float marked as sent has
\* its address recorded, which never runs ahead of the coins that were sent.
THEOREM FundedIsBacked == Spec => []FundedMeansBacked
<1>1. IInv => FundedMeansBacked
  BY DEF IInv
<1>2. QED
  BY <1>1, Inductive, PTL

-----------------------------------------------------------------------------
(* The refinement.                                                         *)

\* What the abstract specification sees of a step that neither takes effect nor leaves a
\* marker: nothing, or an error without consequences.
LEMMA QuietStep ==
  ASSUME IInv,
         \A x \in {"electrum", "fund", "bridge"} : pc'[x] = "mark" <=> pc[x] = "mark",
         pc'["gateways"] \in {"addr", "sent"} <=> pc["gateways"] \in {"addr", "sent"},
         pc["gateways"] \in {"addr", "sent"} => G' = G,
         UNCHANGED <<marked, effects, kills>>, errors' = errors \/ errors' = errors + 1
  PROVE  UNCHANGED Sidecars!vars \/ Sidecars!Interrupt({})
<1>1. Unmarked' = Unmarked
  BY DEF Unmarked
<1>2. kills \in Nat /\ errors \in Nat
  BY ProvisioningAssumption DEF IInv, TypeOK
<1>3. Steps \ (marked' \cup Unmarked') = Steps \ (marked \cup Unmarked)
  BY <1>1
<1>4. CASE errors' = errors
  BY <1>3, <1>4 DEF Sidecars!vars
<1>5. CASE errors' = errors + 1
  <2>1. kills' + errors' = kills + errors + 1
    BY <1>2, <1>5
  <2>2. QED
    BY <1>3, <2>1 DEF Sidecars!Interrupt
<1>6. QED
  BY <1>4, <1>5

LEMMA UnmarkedSteps == IInv => Unmarked \subseteq Steps /\ Unmarked \cap marked = {}
<1> SUFFICES ASSUME IInv PROVE Unmarked \subseteq Steps /\ Unmarked \cap marked = {}
  OBVIOUS
<1>1. G \in Peers
  BY DEF IInv, TypeOK, G
<1>2. QED
  BY <1>1, StepsDiffer DEF IInv, Between, AtGateway, Unmarked

\* The step s takes effect, and is from then on to be marked.
LEMMA EffectStep ==
  ASSUME IInv, NEW s \in Steps, s \notin marked, s \notin Unmarked,
         Unmarked' = Unmarked \cup {s},
         Take(s), UNCHANGED <<marked, kills, errors>>
  PROVE  Sidecars!Perform(s)
<1>1. Steps \ (marked' \cup Unmarked') = (Steps \ (marked \cup Unmarked)) \ {s}
  OBVIOUS
<1>2. kills' + errors' = kills + errors
  OBVIOUS
<1>3. QED
  BY <1>1, <1>2 DEF Sidecars!Perform, Take

\* The step s takes effect, and is to be taken again.
LEMMA UnheardStep ==
  ASSUME IInv, NEW s \in Steps, s \notin marked, s \notin Unmarked,
         Unmarked' = Unmarked, Take(s), Error, UNCHANGED marked
  PROVE  Sidecars!PerformUnheard(s)
<1>1. kills \in Nat /\ errors \in Nat
  BY ProvisioningAssumption DEF IInv, TypeOK
<1>2. kills' + errors' = kills + errors + 1
  BY <1>1 DEF Error
<1>3. Steps \ (marked' \cup Unmarked') = Steps \ (marked \cup Unmarked)
  OBVIOUS
<1>4. QED
  BY <1>2, <1>3 DEF Sidecars!PerformUnheard, Take

\* The marker of s is left.
LEMMA MarkStep ==
  ASSUME IInv, NEW s \in Steps, s \in Unmarked,
         Unmarked' = Unmarked \ {s},
         MarkDone(s), UNCHANGED <<effects, kills, errors>>
  PROVE  Sidecars!Mark(s)
<1>1. s \notin marked
  BY UnmarkedSteps
<1>2. Steps \ (marked' \cup Unmarked') = Steps \ (marked \cup Unmarked)
  BY DEF MarkDone
<1>3. kills' + errors' = kills + errors
  OBVIOUS
<1>4. QED
  BY <1>1, <1>2, <1>3 DEF Sidecars!Mark, MarkDone

LEMMA KillStep ==
  ASSUME IInv, NEW script \in Scripts, Kill(script)
  PROVE  Sidecars!Interrupt(Unmarked \ Unmarked')
<1>1. pc \in [Scripts -> Places]
      /\ G \in Peers
  BY DEF IInv, TypeOK, G
<1>2. \A x \in Scripts : x # script => pc'[x] = pc[x]
  BY <1>1 DEF Kill
<1>3. pc'[script] \in {"start", "address"}
  BY <1>1 DEF Kill, First
<1>4. script # "gateways" => G' = G
  BY DEF IInv, TypeOK, Kill, G
<1>5. Unmarked' \subseteq Unmarked
  BY <1>2, <1>3, <1>4 DEF Unmarked, Scripts
<1>6. UNCHANGED <<effects, marked>> /\ kills' + errors' = kills + errors + 1
  BY ProvisioningAssumption DEF IInv, TypeOK, Kill
<1>7. Steps \ (marked' \cup Unmarked')
        = (Steps \ (marked \cup Unmarked)) \cup ((Unmarked \ Unmarked') \ marked)
  BY <1>5, <1>6, UnmarkedSteps
<1>8. QED
  BY <1>6, <1>7 DEF Sidecars!Interrupt

\* The steps that neither take effect nor leave a marker.
LEMMA QuietActions ==
  ASSUME IInv,
         \/ ElectrumStart \/ ElectrumLoad \/ ElectrumAddress \/ ElectrumExit \/ DaemonDies
         \/ FundStart \/ BridgeAddress
         \/ SetupStart \/ SetParams \/ StartDkg \/ CopyInvite
         \/ GatewaysStart \/ GatewayWallet \/ GatewayJoin \/ GatewaySkip
         \/ GatewayUnread \/ GatewayAddr \/ GatewayNotSent \/ GatewayClaim \/ GatewayGivesUp
  PROVE  UNCHANGED Sidecars!vars \/ Sidecars!Interrupt({})
<1>1. /\ pc \in [Scripts -> Places]
      /\ at \in [{"setup", "gateways"} -> Peers]
  BY DEF IInv, TypeOK
<1>2. CASE ElectrumStart
  BY <1>1, <1>2, QuietStep DEF ElectrumStart, Error, ElectrumWallet, Goto, faults, G, Scripts
<1>3. CASE ElectrumLoad
  BY <1>1, <1>3, QuietStep DEF ElectrumLoad, Error, Goto, faults, G, Scripts
<1>4. CASE ElectrumAddress
  BY <1>1, <1>4, QuietStep DEF ElectrumAddress, Error, Goto, world, faults, G, Scripts
<1>5. CASE ElectrumExit
  BY <1>1, <1>5, QuietStep DEF ElectrumExit, Goto, faults, G, Scripts
<1>6. CASE DaemonDies
  BY <1>1, <1>6, QuietStep DEF DaemonDies, Error, G, Scripts
<1>7. CASE FundStart
  BY <1>1, <1>7, QuietStep DEF FundStart, Goto, world, faults, G, Scripts
<1>8. CASE BridgeAddress
  BY <1>1, <1>8, QuietStep DEF BridgeAddress, Error, Goto, world, faults, G, Scripts
<1>9. CASE SetupStart
  BY <1>1, <1>9, QuietStep DEF SetupStart, Goto, world, faults, G, Scripts
<1>10. CASE SetParams
  BY <1>1, <1>10, QuietStep DEF SetParams, Tell, Goto, faults, G, Scripts
<1>11. CASE StartDkg
  BY <1>1, <1>11, QuietStep DEF StartDkg, Tell, Goto, faults, G, Scripts
<1>12. CASE CopyInvite
  BY <1>1, <1>12, QuietStep DEF CopyInvite, Goto, world, faults, Federated, G, Scripts
<1>13. CASE GatewaysStart
  BY <1>1, <1>13, QuietStep DEF GatewaysStart, Goto, world, G, Scripts
<1>14. CASE GatewayWallet
  BY <1>1, <1>14, QuietStep DEF GatewayWallet, Try, Error, faults, GwFile, Goto, G, Scripts
<1>15. CASE GatewayJoin
  BY <1>1, <1>15, QuietStep DEF GatewayJoin, Try, Error, faults, GwFile, Goto, G, Scripts
<1>16. CASE GatewaySkip
  BY <1>1, <1>16, QuietStep
  DEF GatewaySkip, NextGateway, GwFile, Goto, world, faults, G, Scripts
<1>17. CASE GatewayUnread
  BY <1>1, <1>17, QuietStep
  DEF GatewayUnread, ToBeFunded, NextGateway, GwFile, Goto, world, G, Scripts
<1>18. CASE GatewayAddr
  BY <1>1, <1>18, QuietStep DEF GatewayAddr, Goto, faults, G, Scripts
<1>19. CASE GatewayNotSent
  BY <1>1, <1>19, QuietStep
  DEF GatewayNotSent, ToBeFunded, Error, GwFile, Goto, world, faults, G, Scripts
<1>20. CASE GatewayClaim
  BY <1>1, <1>20, QuietStep DEF GatewayClaim, NextGateway, GwFile, Goto, faults, G, Scripts
<1>21. CASE GatewayGivesUp
  BY <1>1, <1>21, QuietStep DEF GatewayGivesUp, NextGateway, Goto, world, faults, G, Scripts
<1>22. QED
  BY <1>2, <1>3, <1>4, <1>5, <1>6, <1>7, <1>8, <1>9, <1>10, <1>11, <1>12, <1>13, <1>14, <1>15,
     <1>16, <1>17, <1>18, <1>19, <1>20, <1>21

LEMMA EffectActions ==
  ASSUME IInv, ElectrumOpen \/ FundSend \/ BridgeOpen \/ GatewaySend
  PROVE  \E s \in Steps : Sidecars!Perform(s)
<1>1. /\ pc \in [Scripts -> Places]
      /\ G \in Peers
  BY DEF IInv, TypeOK, G
<1>2. CASE ElectrumOpen
  <2>1. Swap \in Steps /\ Swap \notin marked /\ Swap \notin Unmarked
    BY <1>1, <1>2, StepsDiffer
    DEF IInv, Between, Unmarked, ElectrumOpen, CanOpenSwap, Goto, world, faults
  <2>2. Unmarked' = Unmarked \cup {Swap}
    BY <1>1, <1>2 DEF Unmarked, ElectrumOpen, CanOpenSwap, Goto, world, faults, G, Scripts
  <2>3. Take(Swap) /\ UNCHANGED <<marked, kills, errors>>
    BY <1>2 DEF ElectrumOpen, faults
  <2>4. QED
    BY <2>1, <2>2, <2>3, EffectStep
<1>3. CASE FundSend
  <2>1. Fund \in Steps /\ Fund \notin marked /\ Fund \notin Unmarked
    BY <1>1, <1>3, StepsDiffer DEF IInv, Between, Unmarked, FundSend, Goto, world, faults
  <2>2. Unmarked' = Unmarked \cup {Fund}
    BY <1>1, <1>3 DEF Unmarked, FundSend, Goto, world, faults, G, Scripts
  <2>3. Take(Fund) /\ UNCHANGED <<marked, kills, errors>>
    BY <1>3 DEF FundSend, faults
  <2>4. QED
    BY <2>1, <2>2, <2>3, EffectStep
<1>4. CASE BridgeOpen
  <2>1. Bridge \in Steps /\ Bridge \notin marked /\ Bridge \notin Unmarked
    BY <1>1, <1>4, StepsDiffer
    DEF IInv, Between, Unmarked, BridgeOpen, OpenBridge, Goto, world, faults
  <2>2. Unmarked' = Unmarked \cup {Bridge}
    BY <1>1, <1>4 DEF Unmarked, BridgeOpen, OpenBridge, Goto, world, faults, G, Scripts
  <2>3. Take(Bridge) /\ UNCHANGED <<marked, kills, errors>>
    BY <1>4 DEF BridgeOpen, OpenBridge, faults
  <2>4. QED
    BY <2>1, <2>2, <2>3, EffectStep
<1>5. CASE GatewaySend
  <2>1. Float(G) \in Steps /\ Float(G) \notin marked /\ Float(G) \notin Unmarked
    BY <1>1, <1>5, StepsDiffer
    DEF IInv, Between, Unmarked, GatewaySend, ToBeFunded, GwFile, Goto, world, faults, G
  <2>2. Unmarked' = Unmarked \cup {Float(G)}
    BY <1>1, <1>5 DEF Unmarked, GatewaySend, ToBeFunded, GwFile, Goto, world, faults, G, Scripts
  <2>3. Take(Float(G)) /\ UNCHANGED <<marked, kills, errors>>
    BY <1>5 DEF GatewaySend, faults
  <2>4. QED
    BY <2>1, <2>2, <2>3, EffectStep
<1>6. QED
  BY <1>2, <1>3, <1>4, <1>5

LEMMA UnheardActions ==
  ASSUME IInv, Unheard
  PROVE  \E s \in Steps : Sidecars!PerformUnheard(s)
<1>1. pc \in [Scripts -> Places] /\ G \in Peers
  BY DEF IInv, TypeOK, G
<1>2. CASE ElectrumOpenUnheard
  <2>1. Swap \in Steps /\ Swap \notin marked /\ Swap \notin Unmarked
    BY <1>1, <1>2, StepsDiffer
    DEF IInv, Between, Unmarked, ElectrumOpenUnheard, CanOpenSwap
  <2>2. Unmarked' = Unmarked
    BY <1>2 DEF Unmarked, ElectrumOpenUnheard, G
  <2>3. Take(Swap) /\ Error /\ UNCHANGED marked
    BY <1>2 DEF ElectrumOpenUnheard
  <2>4. QED
    BY <2>1, <2>2, <2>3, UnheardStep
<1>3. CASE BridgeOpenUnheard
  <2>1. Bridge \in Steps /\ Bridge \notin marked /\ Bridge \notin Unmarked
    BY <1>1, <1>3, StepsDiffer
    DEF IInv, Between, Unmarked, BridgeOpenUnheard, OpenBridge
  <2>2. Unmarked' = Unmarked
    BY <1>3 DEF Unmarked, BridgeOpenUnheard, OpenBridge, G
  <2>3. Take(Bridge) /\ Error /\ UNCHANGED marked
    BY <1>3 DEF BridgeOpenUnheard, OpenBridge
  <2>4. QED
    BY <2>1, <2>2, <2>3, UnheardStep
<1>4. CASE GatewaySendUnheard
  <2>1. Float(G) \in Steps /\ Float(G) \notin marked /\ Float(G) \notin Unmarked
    BY <1>1, <1>4, StepsDiffer
    DEF IInv, Between, Unmarked, GatewaySendUnheard, ToBeFunded, GwFile, G
  <2>2. Unmarked' = Unmarked
    BY <1>1, <1>4 DEF Unmarked, GatewaySendUnheard, ToBeFunded, Goto, G, Scripts
  <2>3. Take(Float(G)) /\ Error /\ UNCHANGED marked
    BY <1>4 DEF GatewaySendUnheard
  <2>4. QED
    BY <2>1, <2>2, <2>3, UnheardStep
<1>5. QED
  BY <1>2, <1>3, <1>4 DEF Unheard

LEMMA MarkActions ==
  ASSUME IInv, ElectrumMark \/ FundMark \/ BridgeMark \/ GatewaySent
  PROVE  \E s \in Steps : Sidecars!Mark(s)
<1>1. /\ pc \in [Scripts -> Places]
      /\ G \in Peers
  BY DEF IInv, TypeOK, G
<1>2. CASE ElectrumMark
  <2>1. Swap \in Steps /\ Swap \in Unmarked
    BY <1>1, <1>2, StepsDiffer DEF Unmarked, ElectrumMark, Goto, world, faults
  <2>2. Unmarked' = Unmarked \ {Swap}
    BY <1>1, <1>2, StepsDiffer DEF Unmarked, ElectrumMark, Goto, world, faults, G, Scripts
  <2>3. MarkDone(Swap) /\ UNCHANGED <<effects, kills, errors>>
    BY <1>2 DEF ElectrumMark, faults
  <2>4. QED
    BY <2>1, <2>2, <2>3, MarkStep
<1>3. CASE FundMark
  <2>1. Fund \in Steps /\ Fund \in Unmarked
    BY <1>1, <1>3, StepsDiffer DEF Unmarked, FundMark, Goto, world, faults
  <2>2. Unmarked' = Unmarked \ {Fund}
    BY <1>1, <1>3, StepsDiffer DEF Unmarked, FundMark, Goto, world, faults, G, Scripts
  <2>3. MarkDone(Fund) /\ UNCHANGED <<effects, kills, errors>>
    BY <1>3 DEF FundMark, faults
  <2>4. QED
    BY <2>1, <2>2, <2>3, MarkStep
<1>4. CASE BridgeMark
  <2>1. Bridge \in Steps /\ Bridge \in Unmarked
    BY <1>1, <1>4, StepsDiffer DEF Unmarked, BridgeMark, Goto, world, faults
  <2>2. Unmarked' = Unmarked \ {Bridge}
    BY <1>1, <1>4, StepsDiffer DEF Unmarked, BridgeMark, Goto, world, faults, G, Scripts
  <2>3. MarkDone(Bridge) /\ UNCHANGED <<effects, kills, errors>>
    BY <1>4 DEF BridgeMark, faults
  <2>4. QED
    BY <2>1, <2>2, <2>3, MarkStep
<1>5. CASE GatewaySent
  <2>1. Float(G) \in Steps /\ Float(G) \in Unmarked
    BY <1>1, <1>5, StepsDiffer DEF Unmarked, GatewaySent, Goto, world, faults, G
  <2>2. Unmarked' = Unmarked \ {Float(G)}
    BY <1>1, <1>5, StepsDiffer DEF Unmarked, GatewaySent, Goto, world, faults, G, Scripts
  <2>3. MarkDone(Float(G)) /\ UNCHANGED <<effects, kills, errors>>
    BY <1>5 DEF GatewaySent, faults
  <2>4. QED
    BY <2>1, <2>2, <2>3, MarkStep
<1>6. QED
  BY <1>2, <1>3, <1>4, <1>5

LEMMA InitRefines == Init => Sidecars!Init
<1> SUFFICES ASSUME Init PROVE Sidecars!Init
  OBVIOUS
<1>1. Unmarked = {}
  BY DEF Init, First, Scripts, Unmarked
<1>2. QED
  BY <1>1 DEF Init, Sidecars!Init

LEMMA NextRefines == IInv /\ [Next]_vars => [Sidecars!Next]_Sidecars!vars
<1> SUFFICES ASSUME IInv, [Next]_vars
             PROVE  Sidecars!Next \/ UNCHANGED Sidecars!vars
  OBVIOUS
<1>1. CASE \E script \in Scripts : Kill(script)
  <2>1. PICK script \in Scripts : Kill(script)
    BY <1>1
  <2>2. Sidecars!Interrupt(Unmarked \ Unmarked')
    BY <2>1, KillStep
  <2>3. Unmarked \ Unmarked' \in SUBSET Steps
    BY UnmarkedSteps
  <2>4. QED
    BY <2>2, <2>3 DEF Sidecars!Next
<1>2. CASE ElectrumOpen \/ FundSend \/ BridgeOpen \/ GatewaySend
  BY <1>2, EffectActions DEF Sidecars!Next
<1>3. CASE ElectrumMark \/ FundMark \/ BridgeMark \/ GatewaySent
  BY <1>3, MarkActions DEF Sidecars!Next
<1>4. CASE Outside \/ UNCHANGED vars
  <2>1. UNCHANGED <<pc, at, marked, effects, kills, errors>>
    BY <1>4 DEF Outside, Funded, Confirm, faults, vars
  <2>2. UNCHANGED Unmarked
    BY <2>1 DEF Unmarked, G
  <2>3. QED
    BY <2>1, <2>2 DEF Sidecars!vars
<1>5. CASE DaemonDies \/ Electrum \/ ElectrumFund \/ ArkBridge \/ Ceremony \/ GatewayScript
  <2>1. Sidecars!Next \/ UNCHANGED Sidecars!vars \/ Sidecars!Interrupt({})
    BY <1>2, <1>3, <1>5, QuietActions
    DEF Electrum, ElectrumFund, ArkBridge, Ceremony, GatewayScript
  <2>2. {} \in SUBSET Steps
    OBVIOUS
  <2>3. QED
    BY <2>1, <2>2 DEF Sidecars!Next
<1>6. CASE Unheard
  BY <1>6, UnheardActions DEF Sidecars!Next
<1>7. QED
  BY <1>1, <1>4, <1>5, <1>6 DEF Next

\* For any number of guardians, kills and errors: the sidecars mark only what they have
\* done, do it once per attempt and never again once it is marked.
THEOREM Refinement == Spec => ImplementsAtLeastOnce
<1>1. Spec => Sidecars!Spec
  BY InitRefines, NextRefines, Inductive, PTL DEF Spec, Sidecars!Spec
<1>2. QED
  BY <1>1 DEF ImplementsAtLeastOnce

-----------------------------------------------------------------------------
(* What the abstract specification says of the payments, in numbers.       *)

Ready == Steps \ (marked \cup Unmarked)
Faults == kills + errors

Attempts == \A s \in Steps : effects[s] <= Faults + (IF s \in Ready THEN 0 ELSE 1)

OncePerAttempt == \A s \in Steps : effects[s] <= kills + errors + 1

LEMMA SumOfNumbers == \A m, n \in Nat : m + n \in Nat
OBVIOUS

LEMMA AttemptsInductive == IInv /\ IInv' /\ Attempts /\ [Next]_vars => Attempts'
<1> SUFFICES ASSUME IInv, IInv', Attempts, [Next]_vars, NEW s \in Steps
             PROVE  effects'[s] <= Faults' + (IF s \in Ready' THEN 0 ELSE 1)
  BY DEF Attempts
<1>1. /\ Faults \in Nat /\ Faults' \in Nat
      /\ effects \in [Steps -> Nat] /\ effects' \in [Steps -> Nat]
  <2>1. effects \in [Steps -> Nat] /\ effects' \in [Steps -> Nat]
    BY DEF IInv, TypeOK
  <2>2. kills \in Nat /\ errors \in Nat
    BY ProvisioningAssumption DEF IInv, TypeOK
  <2>3. kills' \in Nat /\ errors' \in Nat
    BY ProvisioningAssumption DEF IInv, TypeOK
  <2>4. Faults \in Nat
    BY <2>2 DEF Faults
  <2>5. Faults' \in Nat
    BY <2>3, SumOfNumbers, Zenon DEF Faults
  <2>6. QED
    BY <2>1, <2>4, <2>5
<1>2. effects[s] <= Faults + (IF s \in Ready THEN 0 ELSE 1)
  BY DEF Attempts
<1>3. CASE UNCHANGED Sidecars!vars
  <2>1. effects' = effects /\ Ready' = Ready /\ Faults' = Faults
    BY <1>3 DEF Sidecars!vars, Ready, Faults
  <2>2. QED
    BY <1>2, <2>1
<1>4. ASSUME NEW t \in Steps, Sidecars!Perform(t)
      PROVE  effects'[s] <= Faults' + (IF s \in Ready' THEN 0 ELSE 1)
  <2>1. /\ t \in Ready /\ Ready' = Ready \ {t}
        /\ effects' = [effects EXCEPT ![t] = @ + 1] /\ Faults' = Faults
    BY <1>4 DEF Sidecars!Perform, Ready, Faults
  <2>2. CASE s = t
    BY <1>1, <1>2, <2>1, <2>2
  <2>3. CASE s # t
    BY <1>1, <1>2, <2>1, <2>3
  <2>4. QED
    BY <2>2, <2>3
<1>5. ASSUME NEW t \in Steps, Sidecars!PerformUnheard(t)
      PROVE  effects'[s] <= Faults' + (IF s \in Ready' THEN 0 ELSE 1)
  <2>1. /\ Ready' = Ready /\ Faults' = Faults + 1
        /\ effects' = [effects EXCEPT ![t] = @ + 1]
    BY <1>5 DEF Sidecars!PerformUnheard, Ready, Faults
  <2>2. effects'[s] <= effects[s] + 1
    BY <1>1, <2>1
  <2>3. QED
    BY <1>1, <1>2, <2>1, <2>2
<1>6. ASSUME NEW t \in Steps, Sidecars!Mark(t)
      PROVE  effects'[s] <= Faults' + (IF s \in Ready' THEN 0 ELSE 1)
  <2>1. effects' = effects /\ Ready' = Ready /\ Faults' = Faults
    BY <1>6 DEF Sidecars!Mark, Ready, Faults
  <2>2. QED
    BY <1>2, <2>1
<1>7. ASSUME NEW lost \in SUBSET Steps, Sidecars!Interrupt(lost)
      PROVE  effects'[s] <= Faults' + (IF s \in Ready' THEN 0 ELSE 1)
  <2>1. Ready \subseteq Ready' /\ Faults' = Faults + 1 /\ effects' = effects
    BY <1>7 DEF Sidecars!Interrupt, Ready, Faults
  <2>2. QED
    BY <1>1, <1>2, <2>1
<1>8. QED
  BY <1>3, <1>4, <1>5, <1>6, <1>7, NextRefines DEF Sidecars!Next

\* A coin is sent or a channel opened at most once more than containers are killed and calls
\* fail, or seem to: what no run can show for more faults than its bounds.
THEOREM PaidOncePerAttempt == Spec => []OncePerAttempt
<1>1. Init => Attempts
  BY StepsDiffer DEF Init, Attempts, Faults
<1>2. IInv /\ Attempts => OncePerAttempt
  <2> SUFFICES ASSUME IInv, Attempts, NEW s \in Steps PROVE effects[s] <= kills + errors + 1
    BY DEF OncePerAttempt
  <2>1. kills \in Nat /\ errors \in Nat /\ effects[s] \in Nat
    BY ProvisioningAssumption DEF IInv, TypeOK
  <2>2. QED
    BY <2>1 DEF Attempts, Faults
<1>3. QED
  BY <1>1, <1>2, Inductive, AttemptsInductive, PTL DEF Spec

=============================================================================
