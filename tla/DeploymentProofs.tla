-------------------------- MODULE DeploymentProofs --------------------------
(***************************************************************************)
(* For every configuration, every number of resets and every number of     *)
(* faults: the types; that a reset which runs to its end has wiped all the *)
(* stores that are its own to wipe, but where the wipe itself failed; that *)
(* no service runs before the credentials it reads are there; that the     *)
(* firewall, the onion, the dashboard and the addresses handed out agree   *)
(* with what the services bind; that compose can start every service of    *)
(* every project; and that two sockets want one port of the host only by   *)
(* the operator's hand.                                                    *)
(***************************************************************************)
EXTENDS Deployment, Sums, FiniteSetTheorems, TLAPS

\* A store is empty or holds what the life at hand has put there.
Fresh(v) == data[v] \in {0, life}

\* What the volumes hold, whatever the script is at: those that no other project mounts are
\* fresh, Bitcart is from its wipe on and the faucet's history from its purge on, unless
\* that failed; and both are empty as long as there is no Bitcart and no faucet.
Wiped ==
  /\ \A v \in Volumes \ Held : Fresh(v)
  /\ script \in {"faucet", "done"} => Fresh("bitcart") \/ "bitcart" \in unwiped
  /\ script = "done" => Fresh("faucet_history") \/ "faucet_history" \in unwiped
  /\ ~FaucetRuns => data["faucet_history"] = 0
  /\ ~BitcartRuns => data["bitcart"] = 0

\* The types, in two parts.
TypeOfNames ==
  /\ phase \in {"edited", "rejected", "generated", "deployed"}
  /\ status \in [DOMAIN services -> Statuses]
  /\ up \in {"idle", "starting", "aborted"}
  /\ script \in {"idle", "down", "restart", "up", "bitcart", "faucet", "done"}
  /\ script = "up" => up = "starting"
  /\ others \in BOOLEAN /\ full \in BOOLEAN
TypeOfNumbers ==
  /\ life \in Nat \ {0}
  /\ data \in [Stores -> 0..life] /\ unwiped \subseteq Stores
  /\ faults \in 0..MaxFaults

\* Before it is deployed an installation has no services and its script rests.
NotYet == phase # "deployed" => script = "idle" /\ up = "idle" /\ ~others

IInv == TypeOfNames /\ TypeOfNumbers /\ Wiped /\ NotYet

LEMMA TypeParts == TypeOfNames /\ TypeOfNumbers => TypeOK
<1> SUFFICES ASSUME TypeOfNames, TypeOfNumbers PROVE TypeOK
  OBVIOUS
<1>1. QED
  BY Zenon DEF TypeOfNames, TypeOfNumbers, TypeOK

LEMMA StoreNames ==
  /\ Volumes \subseteq Stores
  /\ "bitcart" \in Stores \ Volumes /\ "faucet_history" \in Stores \ Volumes
  /\ "bitcoind_data" \in Volumes /\ "lnd_data" \in Volumes
<1>1. Volumes = {"bitcoind_data", "lnd_data", "lnd2_data", "lnd3_data", "lnd_setup_state",
                 "ark_cln_data", "cashupayserver_data", "cashupayserver_pairing"}
  BY DEF Volumes, Owner
<1>2. QED
  BY <1>1 DEF Stores

LEMMA FaucetSame ==
  ASSUME UNCHANGED <<others, cfg>>
  PROVE  /\ FaucetRuns' <=> FaucetRuns
         /\ BitcartRuns' <=> BitcartRuns
         /\ Held' = Held
<1>1. Key' = Key
  BY DEF Key
<1>2. FaucetRuns' <=> FaucetRuns
  BY <1>1 DEF FaucetRuns, Net
<1>3. BitcartRuns' <=> BitcartRuns
  BY <1>1 DEF BitcartRuns, Net
<1>4. QED
  BY <1>2, <1>3 DEF Held, OnlyIf

\* A step that leaves the stores, the life and the faucet as they are keeps them wiped,
\* unless the script moves into one of its last two states.
LEMMA StoresUntouched ==
  ASSUME Wiped, UNCHANGED <<data, unwiped, life, others, cfg>>,
         script' \in {"faucet", "done"} => script' = script
  PROVE  Wiped'
<1>1. \A v : Fresh(v)' <=> Fresh(v)
  BY DEF Fresh
<1>2. QED
  BY <1>1, FaucetSame DEF Wiped

\* A step that fills empty stores with what belongs to the life at hand keeps them wiped.
LEMMA StoresFilled ==
  ASSUME Wiped, UNCHANGED <<unwiped, life, others, cfg, script>>,
         \A v \in Stores : data'[v] = data[v] \/ data'[v] \in {0, life},
         FaucetRuns \/ data'["faucet_history"] = data["faucet_history"],
         BitcartRuns \/ data'["bitcart"] = data["bitcart"]
  PROVE  Wiped'
<1>1. \A v \in Stores : Fresh(v) => Fresh(v)'
  BY DEF Fresh
<1>2. QED
  BY <1>1, FaucetSame, StoreNames DEF Wiped

LEMMA InitInductive == Init => IInv
<1> SUFFICES ASSUME Init PROVE IInv
  OBVIOUS
<1> USE DeploymentAssumption
<1>1. TypeOfNames
  <2>1. status \in [DOMAIN services -> Statuses]
    BY DEF Init
  <2>2. others \in BOOLEAN /\ full \in BOOLEAN
    BY DEF Init
  <2>3. QED
    BY <2>1, <2>2 DEF Init, TypeOfNames
<1>2. TypeOfNumbers
  BY DEF Init, TypeOfNumbers
<1>3. Wiped
  BY StoreNames DEF Init, Wiped, Fresh, Held
<1>4. NotYet
  BY DEF Init, NotYet
<1>5. QED
  BY <1>1, <1>2, <1>3, <1>4 DEF IInv

LEMMA StartInductive ==
  ASSUME IInv, phase = "deployed", UNCHANGED fixed, NEW s \in DOMAIN services, Start(s)
  PROVE  IInv'
<1> USE DeploymentAssumption
<1>1. TypeOfNames'
  <2>1. status' \in [DOMAIN services' -> Statuses]
    BY DEF IInv, TypeOfNames, Statuses, Start, fixed
  <2>2. others' \in BOOLEAN /\ full' \in BOOLEAN
    BY Zenon DEF IInv, TypeOfNames, Start
  <2>3. QED
    BY <2>1, <2>2 DEF IInv, TypeOfNames, Start, fixed
<1>2. TypeOfNumbers'
  BY StoreNames DEF IInv, TypeOfNumbers, Start
<1>3. Wiped'
  BY StoresUntouched DEF IInv, Start, fixed
<1>4. NotYet'
  BY DEF NotYet, fixed
<1>5. QED
  BY <1>1, <1>2, <1>3, <1>4 DEF IInv

LEMMA BecomeHealthyInductive ==
  ASSUME IInv, phase = "deployed", UNCHANGED fixed, NEW s \in DOMAIN services, BecomeHealthy(s)
  PROVE  IInv'
<1> USE DeploymentAssumption
<1>1. TypeOfNames'
  <2>1. status' \in [DOMAIN services' -> Statuses]
    BY DEF IInv, TypeOfNames, Statuses, BecomeHealthy, Fill, fixed
  <2>2. others' \in BOOLEAN /\ full' \in BOOLEAN
    BY Zenon DEF IInv, TypeOfNames, BecomeHealthy, Fill
  <2>3. QED
    BY <2>1, <2>2 DEF IInv, TypeOfNames, BecomeHealthy, Fill, fixed
<1>2. TypeOfNumbers'
  BY StoreNames DEF IInv, TypeOfNumbers, BecomeHealthy, Fill
<1>3. Wiped'
  <2>1. \A v \in Stores : data'[v] = data[v] \/ data'[v] \in {0, life}
    BY StoreNames, FaucetSame
    DEF IInv, Wiped, Fresh, Held, OnlyIf, TypeOfNumbers, Chain, BecomeHealthy, Fill, fixed
  <2>2. /\ FaucetRuns \/ data'["faucet_history"] = data["faucet_history"]
        /\ BitcartRuns \/ data'["bitcart"] = data["bitcart"]
    BY StoreNames DEF TypeOfNumbers, IInv, BecomeHealthy, Fill
  <2>3. UNCHANGED <<unwiped, life, others, cfg, script>>
    BY DEF BecomeHealthy, Fill, fixed
  <2>4. QED
    BY <2>1, <2>2, <2>3, StoresFilled DEF IInv
<1>4. NotYet'
  BY DEF NotYet, fixed
<1>5. QED
  BY <1>1, <1>2, <1>3, <1>4 DEF IInv

LEMMA FinishInductive ==
  ASSUME IInv, phase = "deployed", UNCHANGED fixed, NEW s \in DOMAIN services, Finish(s)
  PROVE  IInv'
<1> USE DeploymentAssumption
<1>1. TypeOfNames'
  <2>1. status' \in [DOMAIN services' -> Statuses]
    BY DEF IInv, TypeOfNames, Statuses, Finish, Fill, fixed
  <2>2. others' \in BOOLEAN /\ full' \in BOOLEAN
    BY Zenon DEF IInv, TypeOfNames, Finish, Fill
  <2>3. QED
    BY <2>1, <2>2 DEF IInv, TypeOfNames, Finish, Fill, fixed
<1>2. TypeOfNumbers'
  BY StoreNames DEF IInv, TypeOfNumbers, Finish, Fill
<1>3. Wiped'
  <2>1. \A v \in Stores : data'[v] = data[v] \/ data'[v] \in {0, life}
    BY StoreNames, FaucetSame
    DEF IInv, Wiped, Fresh, Held, OnlyIf, TypeOfNumbers, Chain, Finish, Fill, fixed
  <2>2. /\ FaucetRuns \/ data'["faucet_history"] = data["faucet_history"]
        /\ BitcartRuns \/ data'["bitcart"] = data["bitcart"]
    BY StoreNames DEF TypeOfNumbers, IInv, Finish, Fill
  <2>3. UNCHANGED <<unwiped, life, others, cfg, script>>
    BY DEF Finish, Fill, fixed
  <2>4. QED
    BY <2>1, <2>2, <2>3, StoresFilled DEF IInv
<1>4. NotYet'
  BY DEF NotYet, fixed
<1>5. QED
  BY <1>1, <1>2, <1>3, <1>4 DEF IInv

LEMMA FailInductive ==
  ASSUME IInv, phase = "deployed", UNCHANGED fixed, NEW s \in DOMAIN services, Fail(s)
  PROVE  IInv'
<1> USE DeploymentAssumption
<1>1. TypeOfNames'
  <2>1. status' \in [DOMAIN services' -> Statuses]
    BY DEF IInv, TypeOfNames, Statuses, Fail, fixed
  <2>2. others' \in BOOLEAN /\ full' \in BOOLEAN
    BY Zenon DEF IInv, TypeOfNames, Fail
  <2>3. QED
    BY <2>1, <2>2 DEF IInv, TypeOfNames, Fail, fixed
<1>2. TypeOfNumbers'
  BY StoreNames DEF IInv, TypeOfNumbers, Fail
<1>3. Wiped'
  BY StoresUntouched DEF IInv, Fail, fixed
<1>4. NotYet'
  BY DEF NotYet, fixed
<1>5. QED
  BY <1>1, <1>2, <1>3, <1>4 DEF IInv

LEMMA CrashInductive ==
  ASSUME IInv, phase = "deployed", UNCHANGED fixed, NEW s \in DOMAIN services, Crash(s)
  PROVE  IInv'
<1> USE DeploymentAssumption
<1>1. TypeOfNames'
  <2>1. status' \in [DOMAIN services' -> Statuses]
    BY DEF IInv, TypeOfNames, Statuses, Crash, fixed
  <2>2. others' \in BOOLEAN /\ full' \in BOOLEAN
    BY Zenon DEF IInv, TypeOfNames, Crash
  <2>3. QED
    BY <2>1, <2>2 DEF IInv, TypeOfNames, Crash, fixed
<1>2. TypeOfNumbers'
  BY StoreNames DEF IInv, TypeOfNumbers, Crash
<1>3. Wiped'
  BY StoresUntouched DEF IInv, Crash, fixed
<1>4. NotYet'
  BY DEF NotYet, fixed
<1>5. QED
  BY <1>1, <1>2, <1>3, <1>4 DEF IInv

LEMMA AbortUpInductive ==
  ASSUME IInv, phase = "deployed", UNCHANGED fixed, AbortUp
  PROVE  IInv'
<1> USE DeploymentAssumption
<1>1. TypeOfNames'
  <2>1. status' \in [DOMAIN services' -> Statuses]
    BY DEF IInv, TypeOfNames, Statuses, AbortUp, fixed
  <2>2. others' \in BOOLEAN /\ full' \in BOOLEAN
    BY Zenon DEF IInv, TypeOfNames, AbortUp
  <2>3. QED
    BY <2>1, <2>2 DEF IInv, TypeOfNames, AbortUp, fixed
<1>2. TypeOfNumbers'
  BY StoreNames DEF IInv, TypeOfNumbers, AbortUp
<1>3. Wiped'
  BY StoresUntouched DEF IInv, AbortUp, fixed
<1>4. NotYet'
  BY DEF NotYet, fixed
<1>5. QED
  BY <1>1, <1>2, <1>3, <1>4 DEF IInv

LEMMA UpReturnsInductive ==
  ASSUME IInv, phase = "deployed", UNCHANGED fixed, UpReturns
  PROVE  IInv'
<1> USE DeploymentAssumption
<1>1. TypeOfNames'
  <2>1. status' \in [DOMAIN services' -> Statuses]
    BY DEF IInv, TypeOfNames, Statuses, UpReturns, fixed
  <2>2. others' \in BOOLEAN /\ full' \in BOOLEAN
    BY Zenon DEF IInv, TypeOfNames, UpReturns
  <2>3. QED
    BY <2>1, <2>2 DEF IInv, TypeOfNames, UpReturns, fixed
<1>2. TypeOfNumbers'
  BY StoreNames DEF IInv, TypeOfNumbers, UpReturns
<1>3. Wiped'
  BY StoresUntouched DEF IInv, UpReturns, fixed
<1>4. NotYet'
  BY DEF NotYet, fixed
<1>5. QED
  BY <1>1, <1>2, <1>3, <1>4 DEF IInv

LEMMA OperatorUpInductive ==
  ASSUME IInv, phase = "deployed", UNCHANGED fixed, OperatorUp
  PROVE  IInv'
<1> USE DeploymentAssumption
<1>1. TypeOfNames'
  <2>1. status' \in [DOMAIN services' -> Statuses]
    BY DEF IInv, TypeOfNames, Statuses, OperatorUp, fixed
  <2>2. others' \in BOOLEAN /\ full' \in BOOLEAN
    BY Zenon DEF IInv, TypeOfNames, OperatorUp
  <2>3. QED
    BY <2>1, <2>2 DEF IInv, TypeOfNames, OperatorUp, fixed
<1>2. TypeOfNumbers'
  BY StoreNames DEF IInv, TypeOfNumbers, OperatorUp
<1>3. Wiped'
  BY StoresUntouched DEF IInv, OperatorUp, fixed
<1>4. NotYet'
  BY DEF NotYet, fixed
<1>5. QED
  BY <1>1, <1>2, <1>3, <1>4 DEF IInv

LEMMA RebootInductive ==
  ASSUME IInv, phase = "deployed", UNCHANGED fixed, Reboot
  PROVE  IInv'
<1> USE DeploymentAssumption
<1>1. TypeOfNames'
  <2>1. status' \in [DOMAIN services' -> Statuses]
    BY DEF IInv, TypeOfNames, Statuses, Reboot, fixed
  <2>2. others' \in BOOLEAN /\ full' \in BOOLEAN
    BY Zenon DEF IInv, TypeOfNames, Reboot
  <2>3. QED
    BY <2>1, <2>2 DEF IInv, TypeOfNames, Reboot, fixed
<1>2. TypeOfNumbers'
  BY StoreNames DEF IInv, TypeOfNumbers, Reboot
<1>3. Wiped'
  BY StoresUntouched DEF IInv, Reboot, fixed
<1>4. NotYet'
  BY DEF NotYet, fixed
<1>5. QED
  BY <1>1, <1>2, <1>3, <1>4 DEF IInv

LEMMA DeployOthersInductive ==
  ASSUME IInv, phase = "deployed", UNCHANGED fixed, DeployOthers
  PROVE  IInv'
<1> USE DeploymentAssumption
<1>1. TypeOfNames'
  <2>1. status' \in [DOMAIN services' -> Statuses]
    BY DEF IInv, TypeOfNames, Statuses, DeployOthers, fixed
  <2>2. others' \in BOOLEAN /\ full' \in BOOLEAN
    BY Zenon DEF IInv, TypeOfNames, DeployOthers
  <2>3. QED
    BY <2>1, <2>2 DEF IInv, TypeOfNames, DeployOthers, fixed
<1>2. TypeOfNumbers'
  BY StoreNames DEF IInv, TypeOfNumbers, DeployOthers
<1>3. Wiped'
  <2>1. Held \subseteq Held' /\ Held = {} /\ ~FaucetRuns /\ ~BitcartRuns
    BY <1>1 DEF DeployOthers, Held, FaucetRuns, BitcartRuns, OnlyIf, TypeOfNames
  <2>2. \A v : Fresh(v)' <=> Fresh(v)
    BY DEF Fresh, DeployOthers
  <2>3. script = "idle" /\ script' = "idle" /\ data' = data
    BY DEF DeployOthers
  <2>4. QED
    BY <2>1, <2>2, <2>3 DEF IInv, Wiped
<1>4. NotYet'
  BY DEF NotYet, fixed
<1>5. QED
  BY <1>1, <1>2, <1>3, <1>4 DEF IInv

LEMMA FaucetPaysInductive ==
  ASSUME IInv, phase = "deployed", UNCHANGED fixed, FaucetPays
  PROVE  IInv'
<1> USE DeploymentAssumption
<1>1. TypeOfNames'
  <2>1. status' \in [DOMAIN services' -> Statuses]
    BY DEF IInv, TypeOfNames, Statuses, FaucetPays, Records, fixed
  <2>2. others' \in BOOLEAN /\ full' \in BOOLEAN
    BY Zenon DEF IInv, TypeOfNames, FaucetPays, Records
  <2>3. QED
    BY <2>1, <2>2 DEF IInv, TypeOfNames, FaucetPays, Records, fixed
<1>2. TypeOfNumbers'
  <2>1. data' = [data EXCEPT !["faucet_history"] = data["bitcoind_data"]]
    BY DEF FaucetPays, Records, Chain
  <2>2. life' = life /\ faults' = faults /\ unwiped' = unwiped
    BY DEF FaucetPays, Records
  <2>3. data' \in [Stores -> 0..life]
    BY <2>1, StoreNames DEF IInv, TypeOfNumbers
  <2>4. QED
    BY <2>2, <2>3 DEF IInv, TypeOfNumbers
<1>3. Wiped'
  <2>1. \A v \in Stores : data'[v] = data[v] \/ data'[v] \in {0, life}
    BY StoreNames, FaucetSame
    DEF IInv, Wiped, Fresh, Held, OnlyIf, TypeOfNumbers, Chain, FaucetPays, Records, fixed
  <2>2. /\ FaucetRuns \/ data'["faucet_history"] = data["faucet_history"]
        /\ BitcartRuns \/ data'["bitcart"] = data["bitcart"]
    BY StoreNames DEF TypeOfNumbers, IInv, FaucetPays, Records
  <2>3. UNCHANGED <<unwiped, life, others, cfg, script>>
    BY DEF FaucetPays, Records, fixed
  <2>4. QED
    BY <2>1, <2>2, <2>3, StoresFilled DEF IInv
<1>4. NotYet'
  BY DEF NotYet, fixed
<1>5. QED
  BY <1>1, <1>2, <1>3, <1>4 DEF IInv

LEMMA BitcartSyncsInductive ==
  ASSUME IInv, phase = "deployed", UNCHANGED fixed, BitcartSyncs
  PROVE  IInv'
<1> USE DeploymentAssumption
<1>1. TypeOfNames'
  <2>1. status' \in [DOMAIN services' -> Statuses]
    BY DEF IInv, TypeOfNames, Statuses, BitcartSyncs, Records, fixed
  <2>2. others' \in BOOLEAN /\ full' \in BOOLEAN
    BY Zenon DEF IInv, TypeOfNames, BitcartSyncs, Records
  <2>3. QED
    BY <2>1, <2>2 DEF IInv, TypeOfNames, BitcartSyncs, Records, fixed
<1>2. TypeOfNumbers'
  <2>1. data' = [data EXCEPT !["bitcart"] = data["bitcoind_data"]]
    BY DEF BitcartSyncs, Records, Chain
  <2>2. life' = life /\ faults' = faults /\ unwiped' = unwiped
    BY DEF BitcartSyncs, Records
  <2>3. data' \in [Stores -> 0..life]
    BY <2>1, StoreNames DEF IInv, TypeOfNumbers
  <2>4. QED
    BY <2>2, <2>3 DEF IInv, TypeOfNumbers
<1>3. Wiped'
  <2>1. \A v \in Stores : data'[v] = data[v] \/ data'[v] \in {0, life}
    BY StoreNames, FaucetSame
    DEF IInv, Wiped, Fresh, Held, OnlyIf, TypeOfNumbers, Chain, BitcartSyncs, Records, fixed
  <2>2. /\ FaucetRuns \/ data'["faucet_history"] = data["faucet_history"]
        /\ BitcartRuns \/ data'["bitcart"] = data["bitcart"]
    BY StoreNames DEF TypeOfNumbers, IInv, BitcartSyncs, Records
  <2>3. UNCHANGED <<unwiped, life, others, cfg, script>>
    BY DEF BitcartSyncs, Records, fixed
  <2>4. QED
    BY <2>1, <2>2, <2>3, StoresFilled DEF IInv
<1>4. NotYet'
  BY DEF NotYet, fixed
<1>5. QED
  BY <1>1, <1>2, <1>3, <1>4 DEF IInv

LEMMA GrowInductive ==
  ASSUME IInv, phase = "deployed", UNCHANGED fixed, Grow
  PROVE  IInv'
<1> USE DeploymentAssumption
<1>1. TypeOfNames'
  <2>1. status' \in [DOMAIN services' -> Statuses]
    BY DEF IInv, TypeOfNames, Statuses, Grow, fixed
  <2>2. others' \in BOOLEAN /\ full' \in BOOLEAN
    BY Zenon DEF IInv, TypeOfNames, Grow
  <2>3. QED
    BY <2>1, <2>2 DEF IInv, TypeOfNames, Grow, fixed
<1>2. TypeOfNumbers'
  BY StoreNames DEF IInv, TypeOfNumbers, Grow
<1>3. Wiped'
  BY StoresUntouched DEF IInv, Grow, fixed
<1>4. NotYet'
  BY DEF NotYet, fixed
<1>5. QED
  BY <1>1, <1>2, <1>3, <1>4 DEF IInv

LEMMA PollInductive ==
  ASSUME IInv, phase = "deployed", UNCHANGED fixed, Poll
  PROVE  IInv'
<1> USE DeploymentAssumption
<1>1. TypeOfNames'
  <2>1. status' \in [DOMAIN services' -> Statuses]
    BY DEF IInv, TypeOfNames, Statuses, Poll, fixed
  <2>2. others' \in BOOLEAN /\ full' \in BOOLEAN
    BY Zenon DEF IInv, TypeOfNames, Poll
  <2>3. QED
    BY <2>1, <2>2 DEF IInv, TypeOfNames, Poll, fixed
<1>2. TypeOfNumbers'
  BY StoreNames DEF IInv, TypeOfNumbers, Poll
<1>3. Wiped'
  BY StoresUntouched DEF IInv, Poll, fixed
<1>4. NotYet'
  BY DEF NotYet, fixed
<1>5. QED
  BY <1>1, <1>2, <1>3, <1>4 DEF IInv

LEMMA DownInductive ==
  ASSUME IInv, phase = "deployed", UNCHANGED fixed, Down
  PROVE  IInv'
<1> USE DeploymentAssumption
<1>1. TypeOfNames'
  <2>1. status' \in [DOMAIN services' -> Statuses]
    BY DEF IInv, TypeOfNames, Statuses, Down, fixed
  <2>2. others' \in BOOLEAN /\ full' \in BOOLEAN
    BY Zenon DEF IInv, TypeOfNames, Down
  <2>3. QED
    BY <2>1, <2>2 DEF IInv, TypeOfNames, Down, fixed
<1>2. TypeOfNumbers'
  BY StoreNames DEF IInv, TypeOfNumbers, Down
<1>3. Wiped'
  <2>1. Held' = Held /\ (FaucetRuns' <=> FaucetRuns) /\ (BitcartRuns' <=> BitcartRuns)
    BY FaucetSame DEF Down, fixed
  <2>2. \A v \in Volumes \ Held : data'[v] = 0
    BY StoreNames DEF Down
  <2>3. /\ data'["faucet_history"] = data["faucet_history"] /\ data'["bitcart"] = data["bitcart"]
        /\ script' = "restart"
    BY StoreNames DEF Down
  <2>4. QED
    BY <2>1, <2>2, <2>3 DEF IInv, Wiped, Fresh
<1>4. NotYet'
  BY DEF NotYet, fixed
<1>5. QED
  BY <1>1, <1>2, <1>3, <1>4 DEF IInv

LEMMA ScriptUpInductive ==
  ASSUME IInv, phase = "deployed", UNCHANGED fixed, ScriptUp
  PROVE  IInv'
<1> USE DeploymentAssumption
<1>1. TypeOfNames'
  <2>1. status' \in [DOMAIN services' -> Statuses]
    BY DEF IInv, TypeOfNames, Statuses, ScriptUp, fixed
  <2>2. others' \in BOOLEAN /\ full' \in BOOLEAN
    BY Zenon DEF IInv, TypeOfNames, ScriptUp
  <2>3. QED
    BY <2>1, <2>2 DEF IInv, TypeOfNames, ScriptUp, fixed
<1>2. TypeOfNumbers'
  BY StoreNames DEF IInv, TypeOfNumbers, ScriptUp
<1>3. Wiped'
  BY StoresUntouched DEF IInv, ScriptUp, fixed
<1>4. NotYet'
  BY DEF NotYet, fixed
<1>5. QED
  BY <1>1, <1>2, <1>3, <1>4 DEF IInv

LEMMA WipeBitcartInductive ==
  ASSUME IInv, phase = "deployed", UNCHANGED fixed, WipeBitcart
  PROVE  IInv'
<1> USE DeploymentAssumption
<1>1. TypeOfNames'
  <2>1. status' \in [DOMAIN services' -> Statuses]
    BY DEF IInv, TypeOfNames, Statuses, WipeBitcart, fixed
  <2>2. others' \in BOOLEAN /\ full' \in BOOLEAN
    BY Zenon DEF IInv, TypeOfNames, WipeBitcart
  <2>3. QED
    BY <2>1, <2>2 DEF IInv, TypeOfNames, WipeBitcart, fixed
<1>2. TypeOfNumbers'
  BY StoreNames DEF IInv, TypeOfNumbers, WipeBitcart, Wipes, WipeFails
<1>3. Wiped'
  <2>1. Held' = Held
    BY FaucetSame DEF WipeBitcart, fixed
  <2>2. (FaucetRuns' <=> FaucetRuns) /\ (BitcartRuns' <=> BitcartRuns)
    BY FaucetSame DEF WipeBitcart, fixed
  <2>3. data'["bitcart"] = 0 \/ ("bitcart" \in unwiped' /\ BitcartRuns)
    BY StoreNames DEF IInv, TypeOfNumbers, Wiped, WipeBitcart, Wipes, WipeFails
  <2>4. \A v \in Stores \ {"bitcart"} : data'[v] = data[v]
    BY StoreNames DEF IInv, TypeOfNumbers, WipeBitcart, Wipes, WipeFails
  <2>5. life' = life /\ script' = "faucet" /\ script = "bitcart"
    BY DEF WipeBitcart
  <2>6. \A v \in Volumes \ Held' : Fresh(v)'
    BY <2>1, <2>4, <2>5, StoreNames DEF IInv, Wiped, Fresh
  <2>7. Fresh("bitcart")' \/ "bitcart" \in unwiped'
    BY <2>3 DEF Fresh
  <2>8. data'["faucet_history"] = data["faucet_history"]
    BY <2>4, StoreNames
  <2>9. ~FaucetRuns' => data'["faucet_history"] = 0
    BY <2>2, <2>8, Zenon DEF IInv, Wiped
  <2>10. ~BitcartRuns' => data'["bitcart"] = 0
    BY <2>2, <2>3, Zenon
  <2>11. QED
    BY <2>5, <2>6, <2>7, <2>9, <2>10 DEF Wiped
<1>4. NotYet'
  BY DEF NotYet, fixed
<1>5. QED
  BY <1>1, <1>2, <1>3, <1>4 DEF IInv

LEMMA PurgeFaucetInductive ==
  ASSUME IInv, phase = "deployed", UNCHANGED fixed, PurgeFaucet
  PROVE  IInv'
<1> USE DeploymentAssumption
<1>1. TypeOfNames'
  <2>1. status' \in [DOMAIN services' -> Statuses]
    BY DEF IInv, TypeOfNames, Statuses, PurgeFaucet, fixed
  <2>2. others' \in BOOLEAN /\ full' \in BOOLEAN
    BY Zenon DEF IInv, TypeOfNames, PurgeFaucet
  <2>3. QED
    BY <2>1, <2>2 DEF IInv, TypeOfNames, PurgeFaucet, fixed
<1>2. TypeOfNumbers'
  BY StoreNames DEF IInv, TypeOfNumbers, PurgeFaucet, Wipes, WipeFails
<1>3. Wiped'
  <2>1. Held' = Held
    BY FaucetSame DEF PurgeFaucet, fixed
  <2>2. (FaucetRuns' <=> FaucetRuns) /\ (BitcartRuns' <=> BitcartRuns)
    BY FaucetSame DEF PurgeFaucet, fixed
  <2>3. data'["faucet_history"] = 0 \/ ("faucet_history" \in unwiped' /\ FaucetRuns)
    BY StoreNames DEF IInv, TypeOfNumbers, Wiped, PurgeFaucet, Wipes, WipeFails
  <2>4. \A v \in Stores \ {"faucet_history"} : data'[v] = data[v]
    BY StoreNames DEF IInv, TypeOfNumbers, PurgeFaucet, Wipes, WipeFails
  <2>5. life' = life /\ script' = "done" /\ script = "faucet"
    BY DEF PurgeFaucet
  <2>6. \A v \in Volumes \ Held' : Fresh(v)'
    BY <2>1, <2>4, <2>5, StoreNames DEF IInv, Wiped, Fresh
  <2>7. Fresh("faucet_history")' \/ "faucet_history" \in unwiped'
    BY <2>3 DEF Fresh
  <2>8. data'["bitcart"] = data["bitcart"]
    BY <2>4, StoreNames
  <2>9. Fresh("bitcart")' \/ "bitcart" \in unwiped'
    <3>1. "bitcart" \in unwiped => "bitcart" \in unwiped'
      BY DEF PurgeFaucet, Wipes, WipeFails
    <3>2. Fresh("bitcart") \/ "bitcart" \in unwiped
      BY <2>5 DEF IInv, Wiped
    <3>3. QED
      BY <2>5, <2>8, <3>1, <3>2 DEF Fresh
  <2>10. ~FaucetRuns' => data'["faucet_history"] = 0
    BY <2>2, <2>3, Zenon
  <2>11. ~BitcartRuns' => data'["bitcart"] = 0
    BY <2>2, <2>8, Zenon DEF IInv, Wiped
  <2>12. QED
    BY <2>5, <2>6, <2>7, <2>9, <2>10, <2>11 DEF Wiped
<1>4. NotYet'
  BY DEF NotYet, fixed
<1>5. QED
  BY <1>1, <1>2, <1>3, <1>4 DEF IInv

LEMMA SleepInductive ==
  ASSUME IInv, phase = "deployed", UNCHANGED fixed, Sleep
  PROVE  IInv'
<1> USE DeploymentAssumption
<1>1. TypeOfNames'
  <2>1. status' \in [DOMAIN services' -> Statuses]
    BY DEF IInv, TypeOfNames, Statuses, Sleep, fixed
  <2>2. others' \in BOOLEAN /\ full' \in BOOLEAN
    BY Zenon DEF IInv, TypeOfNames, Sleep
  <2>3. QED
    BY <2>1, <2>2 DEF IInv, TypeOfNames, Sleep, fixed
<1>2. TypeOfNumbers'
  BY StoreNames DEF IInv, TypeOfNumbers, Sleep
<1>3. Wiped'
  BY StoresUntouched DEF IInv, Sleep, fixed
<1>4. NotYet'
  BY DEF NotYet, fixed
<1>5. QED
  BY <1>1, <1>2, <1>3, <1>4 DEF IInv

\* An installation has no services until it is deployed, so that nothing else moves.
LEMMA GenerateInductive ==
  ASSUME IInv, Generate
  PROVE  IInv'
<1> USE DeploymentAssumption
<1>1. TypeOfNames'
  <2>1. status' \in [DOMAIN services' -> Statuses]
    BY DEF IInv, TypeOfNames, Generate
  <2>2. others' \in BOOLEAN /\ full' \in BOOLEAN
    BY Zenon DEF IInv, TypeOfNames, Generate
  <2>3. phase' \in {"generated", "rejected"}
    BY Zenon DEF Generate
  <2>4. QED
    BY <2>1, <2>2, <2>3 DEF IInv, TypeOfNames, Generate
<1>2. TypeOfNumbers'
  BY DEF IInv, TypeOfNumbers, Generate
<1>3. Wiped'
  <2>1. UNCHANGED <<data, unwiped, life, others, cfg, script>>
    BY DEF Generate
  <2>2. QED
    BY <2>1, StoresUntouched DEF IInv
<1>4. NotYet'
  BY DEF IInv, NotYet, Generate
<1>5. QED
  BY <1>1, <1>2, <1>3, <1>4 DEF IInv

LEMMA DeployInductive ==
  ASSUME IInv, Deploy
  PROVE  IInv'
<1> USE DeploymentAssumption
<1>1. TypeOfNames'
  <2>1. status' \in [DOMAIN services' -> Statuses]
    BY DEF Deploy, Statuses
  <2>2. others' \in BOOLEAN /\ full' \in BOOLEAN
    BY Zenon DEF IInv, TypeOfNames, Deploy
  <2>3. QED
    BY <2>1, <2>2 DEF IInv, TypeOfNames, Deploy
<1>2. TypeOfNumbers'
  BY DEF IInv, TypeOfNumbers, Deploy
<1>3. Wiped'
  <2>1. UNCHANGED <<data, unwiped, life, others, cfg, script>>
    BY DEF Deploy
  <2>2. QED
    BY <2>1, StoresUntouched DEF IInv
<1>4. NotYet'
  BY DEF NotYet, Deploy
<1>5. QED
  BY <1>1, <1>2, <1>3, <1>4 DEF IInv

LEMMA RunningInductive ==
  ASSUME IInv, Running
  PROVE  IInv'
<1>1. phase = "deployed" /\ UNCHANGED fixed
  BY DEF Running
<1>2. CASE Compose
  <2>1. CASE \E s \in DOMAIN services : Start(s) \/ BecomeHealthy(s) \/ Finish(s)
    BY <1>1, <2>1, StartInductive, BecomeHealthyInductive, FinishInductive
  <2>2. QED
    BY <1>1, <1>2, <2>1, AbortUpInductive, UpReturnsInductive DEF Compose
<1>3. CASE Faults
  <2>1. CASE \E s \in DOMAIN services : Fail(s) \/ Crash(s)
    BY <1>1, <2>1, FailInductive, CrashInductive
  <2>2. QED
    BY <1>1, <1>3, <2>1, RebootInductive DEF Faults
<1>4. CASE Reset
  BY <1>1, <1>4, PollInductive, DownInductive, ScriptUpInductive, WipeBitcartInductive,
     PurgeFaucetInductive, SleepInductive DEF Reset
<1>5. CASE OperatorUp \/ DeployOthers \/ FaucetPays \/ BitcartSyncs \/ Grow
  BY <1>1, <1>5, OperatorUpInductive, DeployOthersInductive, FaucetPaysInductive,
     BitcartSyncsInductive, GrowInductive
<1>6. QED
  BY <1>2, <1>3, <1>4, <1>5 DEF Running

LEMMA StutterInductive ==
  ASSUME IInv, UNCHANGED vars
  PROVE  IInv'
<1>1. UNCHANGED <<cfg, phase, services, status, up, script, others, data, unwiped, life, full, faults>>
  BY DEF vars
<1>2. TypeOfNames'
  BY <1>1, Zenon DEF IInv, TypeOfNames, Statuses
<1>3. TypeOfNumbers'
  BY <1>1 DEF IInv, TypeOfNumbers
<1>4. Wiped'
  BY <1>1, StoresUntouched DEF IInv
<1>5. NotYet'
  BY <1>1 DEF IInv, NotYet
<1>6. QED
  BY <1>2, <1>3, <1>4, <1>5 DEF IInv

LEMMA NextInductive ==
  ASSUME IInv, [Next]_vars
  PROVE  IInv'
<1>1. CASE Generate
  BY <1>1, GenerateInductive
<1>2. CASE Deploy
  BY <1>2, DeployInductive
<1>3. CASE Running
  BY <1>3, RunningInductive
<1>4. CASE UNCHANGED vars
  BY <1>4, StutterInductive
<1>5. QED
  BY <1>1, <1>2, <1>3, <1>4 DEF Next

\* The invariant of builders, compose and reset.sh together: types, and how far the wipe
\* has come at each line of the script.
THEOREM Inductive == Spec => []IInv
<1>1. Init => IInv
  BY InitInductive
<1>2. IInv /\ [Next]_vars => IInv'
  BY NextInductive
<1>3. QED
  BY <1>1, <1>2, PTL DEF Spec

\* The types of an installation: of its phase, its containers, its script and its stores.
THEOREM TypeCorrect == Spec => []TypeOK
<1>1. IInv => TypeOK
  BY TypeParts DEF IInv
<1>2. QED
  BY <1>1, Inductive, PTL

\* ResetWipesItsOwn: whatever crashes, aborts or reboots around it and whatever the resets
\* before it left, a reset.sh that reaches its last line leaves nothing of an older chain
\* in any volume that no other project mounts; and in Bitcart or the faucet's history only
\* if its own wipe of that store failed, which the script passes over.
THEOREM ResetIsClean == Spec => []ResetWipesItsOwn
<1>1. IInv => ResetWipesItsOwn
  <2> SUFFICES ASSUME IInv, script = "done", NEW v \in Stores \ (Held \cup unwiped)
               PROVE  data[v] \in {0, life}
    BY DEF ResetWipesItsOwn
  <2>1. CASE v \in Volumes
    BY <2>1 DEF IInv, Wiped, Fresh
  <2>2. CASE v \in {"bitcart", "faucet_history"}
    BY <2>2 DEF IInv, Wiped, Fresh
  <2>3. QED
    BY <2>1, <2>2 DEF Stores
<1>2. QED
  BY <1>1, Inductive, PTL

-----------------------------------------------------------------------------
(* Who waits for whom.                                                     *)

\* Whoever mounts the credentials of another service waits until that one is healthy, or
\* has completed.
AsksFirst(project) ==
  \A s \in DOMAIN project : \A v \in project[s].volumes \cap Credentials :
    \/ Owner[v] = s
    \/ /\ Owner[v] \in DOMAIN project
       /\ {Healthy(Owner[v]), Completed(Owner[v])} \cap project[s].depends_on # {}


-----------------------------------------------------------------------------
(* What the builders emit.                                                 *)

\* Every service some included builder emits, with its name.
Emitted(g, k, n) == UNION {Registry(g, k, n)[i].services : i \in 1..14}

LEMMA RegistryOf ==
  ASSUME NEW g, NEW k, NEW n
  PROVE  /\ DOMAIN Registry(g, k, n) = 1..14
         /\ Registry(g, k, n)[1] = Bitcoind(g, k, n)
         /\ Registry(g, k, n)[2] = Lnd(g, k, n)
         /\ Registry(g, k, n)[3] = If(EnabledIndexers(n) # << >>, Fulcrum(n))
         /\ Registry(g, k, n)[4] = If(n.cashu.enabled, Cashu)
         /\ Registry(g, k, n)[5] = If(n.cashu.enabled /\ n.cashu.wallet, CashuWallet)
         /\ Registry(g, k, n)[6] = If(FedimintEnabled(k, n), Fedimint(k, n))
         /\ Registry(g, k, n)[7] = If(ArkEnabled(k, n), Ark(n))
         /\ Registry(g, k, n)[8] = If(n.electrum.enabled, Electrum(k, n))
         /\ Registry(g, k, n)[9] = If(n.cashupayserver.enabled, CashuPayServer)
         /\ Registry(g, k, n)[10] = If(n.woocommerce.enabled, WooCommerce)
         /\ Registry(g, k, n)[11] = If(MempoolEnabled(k, n), Mempool(n))
         /\ Registry(g, k, n)[12] = If(Mines(k, n), Miner)
         /\ Registry(g, k, n)[13] = If(k \in CLAIM_NETWORKS /\ n.claimer.enabled, Claimer(n))
         /\ Registry(g, k, n)[14] = Donations
  BY DEF Registry

\* Which of them there are.
LEMMA EmittedBy ==
  ASSUME NEW g, NEW k, NEW n, NEW x
  PROVE  x \in Emitted(g, k, n) <=>
           \/ x \in Bitcoind(g, k, n).services
           \/ x \in Lnd(g, k, n).services
           \/ EnabledIndexers(n) # << >> /\ x \in Fulcrum(n).services
           \/ n.cashu.enabled /\ x \in Cashu.services
           \/ n.cashu.enabled /\ n.cashu.wallet /\ x \in CashuWallet.services
           \/ FedimintEnabled(k, n) /\ x \in Fedimint(k, n).services
           \/ ArkEnabled(k, n) /\ x \in Ark(n).services
           \/ n.electrum.enabled /\ x \in Electrum(k, n).services
           \/ n.cashupayserver.enabled /\ x \in CashuPayServer.services
           \/ n.woocommerce.enabled /\ x \in WooCommerce.services
           \/ MempoolEnabled(k, n) /\ x \in Mempool(n).services
           \/ Mines(k, n) /\ x \in Miner.services
           \/ k \in CLAIM_NETWORKS /\ n.claimer.enabled /\ x \in Claimer(n).services
           \/ x \in Donations.services
<1> DEFINE In(i) == x \in Registry(g, k, n)[i].services
<1>1. x \in Emitted(g, k, n) <=> \E i \in 1..14 : In(i)
  BY DEF Emitted
<1> HIDE DEF In
<1>2. (\E i \in 1..14 : In(i)) <=>
        \/ In(1) \/ In(2) \/ In(3) \/ In(4) \/ In(5) \/ In(6) \/ In(7)
        \/ In(8) \/ In(9) \/ In(10) \/ In(11) \/ In(12) \/ In(13) \/ In(14)
  <2>1. \A i \in 1..14 : \/ i = 1 \/ i = 2 \/ i = 3 \/ i = 4 \/ i = 5 \/ i = 6 \/ i = 7 \/ i = 8
                         \/ i = 9 \/ i = 10 \/ i = 11 \/ i = 12 \/ i = 13 \/ i = 14
    OBVIOUS
  <2>2. QED
    BY <2>1
<1>4. /\ In(1) <=> x \in Bitcoind(g, k, n).services
      /\ In(2) <=> x \in Lnd(g, k, n).services
      /\ In(3) <=> EnabledIndexers(n) # << >> /\ x \in Fulcrum(n).services
      /\ In(4) <=> n.cashu.enabled /\ x \in Cashu.services
      /\ In(5) <=> n.cashu.enabled /\ n.cashu.wallet /\ x \in CashuWallet.services
      /\ In(6) <=> FedimintEnabled(k, n) /\ x \in Fedimint(k, n).services
      /\ In(7) <=> ArkEnabled(k, n) /\ x \in Ark(n).services
      /\ In(8) <=> n.electrum.enabled /\ x \in Electrum(k, n).services
      /\ In(9) <=> n.cashupayserver.enabled /\ x \in CashuPayServer.services
      /\ In(10) <=> n.woocommerce.enabled /\ x \in WooCommerce.services
      /\ In(11) <=> MempoolEnabled(k, n) /\ x \in Mempool(n).services
      /\ In(12) <=> Mines(k, n) /\ x \in Miner.services
      /\ In(13) <=> k \in CLAIM_NETWORKS /\ n.claimer.enabled /\ x \in Claimer(n).services
      /\ In(14) <=> x \in Donations.services
  <2>1. In(1) <=> x \in Bitcoind(g, k, n).services
    BY RegistryOf DEF In
  <2>2. In(2) <=> x \in Lnd(g, k, n).services
    BY RegistryOf DEF In
  <2>3. In(3) <=> EnabledIndexers(n) # << >> /\ x \in Fulcrum(n).services
    BY RegistryOf DEF In, If, Nothing, Fragment
  <2>4. In(4) <=> n.cashu.enabled /\ x \in Cashu.services
    BY RegistryOf DEF In, If, Nothing, Fragment
  <2>5. In(5) <=> n.cashu.enabled /\ n.cashu.wallet /\ x \in CashuWallet.services
    BY RegistryOf DEF In, If, Nothing, Fragment
  <2>6. In(6) <=> FedimintEnabled(k, n) /\ x \in Fedimint(k, n).services
    BY RegistryOf DEF In, If, Nothing, Fragment
  <2>7. In(7) <=> ArkEnabled(k, n) /\ x \in Ark(n).services
    BY RegistryOf DEF In, If, Nothing, Fragment
  <2>8. In(8) <=> n.electrum.enabled /\ x \in Electrum(k, n).services
    BY RegistryOf DEF In, If, Nothing, Fragment
  <2>9. In(9) <=> n.cashupayserver.enabled /\ x \in CashuPayServer.services
    BY RegistryOf DEF In, If, Nothing, Fragment
  <2>10. In(10) <=> n.woocommerce.enabled /\ x \in WooCommerce.services
    BY RegistryOf DEF In, If, Nothing, Fragment
  <2>11. In(11) <=> MempoolEnabled(k, n) /\ x \in Mempool(n).services
    BY RegistryOf DEF In, If, Nothing, Fragment
  <2>12. In(12) <=> Mines(k, n) /\ x \in Miner.services
    BY RegistryOf DEF In, If, Nothing, Fragment
  <2>13. In(13) <=> k \in CLAIM_NETWORKS /\ n.claimer.enabled /\ x \in Claimer(n).services
    BY RegistryOf DEF In, If, Nothing, Fragment
  <2>14. In(14) <=> x \in Donations.services
    BY RegistryOf DEF In
  <2>15. QED
    BY <2>1, <2>2, <2>3, <2>4, <2>5, <2>6, <2>7, <2>8, <2>9, <2>10, <2>11, <2>12, <2>13, <2>14
<1>5. QED
  BY <1>1, <1>2, <1>4, Zenon

LEMMA LastIndex ==
  ASSUME NEW T \in SUBSET (1..14), T # {}
  PROVE  \E i \in T : \A j \in T : j <= i
<1>1. PICK i \in T : TRUE
  OBVIOUS
<1>2. ASSUME NEW b \in 1..14, \A j \in T : j <= b, b \notin T
      PROVE  \A j \in T : j <= b - 1
  BY <1>2
<1>3. SUFFICES ASSUME \A m \in T : \E j \in T : j > m
               PROVE  FALSE
  OBVIOUS
<1>4. \A b \in 1..14 : (\A j \in T : j <= b) => \A j \in T : j <= b - 1
  BY <1>2, <1>3
<1>5. \A j \in T : j <= 14
  OBVIOUS
<1>6. /\ \A j \in T : j <= 13
      /\ \A j \in T : j <= 12
      /\ \A j \in T : j <= 11
      /\ \A j \in T : j <= 10
      /\ \A j \in T : j <= 9
      /\ \A j \in T : j <= 8
      /\ \A j \in T : j <= 7
      /\ \A j \in T : j <= 6
      /\ \A j \in T : j <= 5
      /\ \A j \in T : j <= 4
      /\ \A j \in T : j <= 3
      /\ \A j \in T : j <= 2
      /\ \A j \in T : j <= 1
      /\ \A j \in T : j <= 0
  BY <1>4, <1>5
<1>7. QED
  BY <1>1, <1>6

\* A project holds, under every name that is emitted, a service emitted under it.
LEMMA ProjectServices ==
  ASSUME NEW g, NEW k, NEW n
  PROVE  /\ DOMAIN Project(g, k, n).services = {x[1] : x \in Emitted(g, k, n)}
         /\ \A s \in DOMAIN Project(g, k, n).services :
              \E x \in Emitted(g, k, n) : x[1] = s /\ Project(g, k, n).services[s] = x[2]
<1> DEFINE R == Registry(g, k, n)
           Said(s) == {i \in DOMAIN R : s \in Names(R[i])}
           Last(s) == CHOOSE i \in DOMAIN R :
                        /\ s \in Names(R[i])
                        /\ \A j \in DOMAIN R : s \in Names(R[j]) => j <= i
           Given(s) == CHOOSE x \in R[Last(s)].services : x[1] = s
<1>1. DOMAIN R = 1..14
  BY RegistryOf
<1>2. DOMAIN Project(g, k, n).services = UNION {Names(R[i]) : i \in DOMAIN R}
  BY DEF Project
<1>3. DOMAIN Project(g, k, n).services = {x[1] : x \in Emitted(g, k, n)}
  <2>1. Emitted(g, k, n) = UNION {R[i].services : i \in 1..14}
    BY DEF Emitted
  <2> HIDE DEF R
  <2>2. QED
    BY <1>1, <1>2, <2>1 DEF Names
<1>4. ASSUME NEW s \in DOMAIN Project(g, k, n).services
      PROVE  \E x \in Emitted(g, k, n) : x[1] = s /\ Project(g, k, n).services[s] = x[2]
  <2>1. Project(g, k, n).services[s] = Merged(R, s)
    BY <1>4 DEF Project
  <2>2. Merged(R, s) = Given(s)[2]
    BY DEF Merged
  <2>3. Emitted(g, k, n) = UNION {R[i].services : i \in 1..14}
    BY DEF Emitted
  <2> HIDE DEF R
  <2>4. Said(s) \in SUBSET (1..14) /\ Said(s) # {}
    BY <1>1, <1>2
  <2>5. PICK l \in Said(s) : \A j \in Said(s) : j <= l
    BY <2>4, LastIndex
  <2>6. Last(s) \in DOMAIN R /\ s \in Names(R[Last(s)])
    BY <2>5
  <2>7. \E x \in R[Last(s)].services : x[1] = s
    BY <2>6 DEF Names
  <2>8. Given(s) \in R[Last(s)].services /\ Given(s)[1] = s
    BY <2>7
  <2>9. QED
    BY <1>1, <2>1, <2>2, <2>3, <2>6, <2>8
<1>5. QED
  BY <1>3, <1>4

-----------------------------------------------------------------------------
(* Who reads whose credentials.                                            *)

\* The claimer that forwards to the faucet reads the wallet of lnd and waits for bitcoind
\* only: it looks for the credentials again on every round.
ReadsLater(k, n) == k \in CLAIM_NETWORKS /\ n.claimer.enabled /\ ClaimerForwards(n)

\* An accepted network whose gateways have their ring nodes, without such a claimer, and
\* with no indexer whose name makes its volume one of those of credentials.
WaitsForAll(g, k, n) ==
  /\ IsNetworkCfg(n)
  /\ ValidRing(k, n) /\ ValidShops(n) /\ ValidArk(g, k, n) /\ ValidElectrum(k, n)
  /\ ~GatewayWithoutNode(k, n)
  /\ ~ReadsLater(k, n)
  /\ \A name \in IndexerNames(n) : IndexerVolume(name) \notin Credentials

\* x, a service with its name, asks first in a project of those names.
Asks(x, names) ==
  \A v \in x[2].volumes \cap Credentials :
    \/ Owner[v] = x[1]
    \/ /\ Owner[v] \in names
       /\ {Healthy(Owner[v]), Completed(Owner[v])} \cap x[2].depends_on # {}

LEMMA CredentialOwners ==
  /\ Credentials = {"lnd_data", "lnd2_data", "lnd3_data", "ark_cln_data",
                    "cashupayserver_data", "cashupayserver_pairing"}
  /\ Owner["lnd_data"] = "lnd" /\ Owner["lnd2_data"] = "lnd2" /\ Owner["lnd3_data"] = "lnd3"
  /\ Owner["ark_cln_data"] = "cln"
  /\ Owner["cashupayserver_data"] = "cashupayserver-init"
  /\ Owner["cashupayserver_pairing"] = "cashupayserver-init"
  BY DEF Credentials, Owner

LEMMA RingNames ==
  ASSUME NEW n
  PROVE  /\ DeployedRing(n) \subseteq {"lnd", "lnd2", "lnd3"}
         /\ "lnd" \in DeployedRing(n)
         /\ SecondaryEnabled(n) => "lnd2" \in DeployedRing(n)
         /\ TertiaryEnabled(n) => "lnd3" \in DeployedRing(n)
         /\ \A s \in {"lnd", "lnd2", "lnd3"} : Owner[LndVolume[s]] = s
  BY DEF DeployedRing, Owner, LndVolume

LEMMA LndAsks ==
  ASSUME NEW g, NEW k, NEW n, WaitsForAll(g, k, n), NEW names,
         DeployedRing(n) \subseteq names, NEW x \in Lnd(g, k, n).services
  PROVE  Asks(x, names)
<1>1. x \in LndNodes(g, n) \/ (ChannelsEnabled(n) /\ x \in RingSidecars(k, n))
  BY DEF Lnd, Fragment, OnlyIf
<1>2. CASE x \in LndNodes(g, n)
  <2>1. PICK s \in DeployedRing(n) :
          \/ x = <<s, LndNode(g, s)>>
          \/ x = <<NodeInfo[s], Daemon(FALSE, {Healthy(s)}, {}, {LndVolume[s]})>>
          \/ x = <<TorWait[s], Job("no", {}, {})>>
    BY <1>2 DEF LndNodes
  <2>2. Owner[LndVolume[s]] = s /\ s \in names
    BY RingNames
  <2>3. CASE x = <<s, LndNode(g, s)>>
    BY <2>2, <2>3 DEF Asks, LndNode, Daemon
  <2>4. CASE x = <<NodeInfo[s], Daemon(FALSE, {Healthy(s)}, {}, {LndVolume[s]})>>
    BY <2>2, <2>4 DEF Asks, Daemon
  <2>5. CASE x = <<TorWait[s], Job("no", {}, {})>>
    BY <2>5 DEF Asks, Job
  <2>6. QED
    BY <2>1, <2>3, <2>4, <2>5
<1>3. CASE ChannelsEnabled(n) /\ x \in RingSidecars(k, n)
  <2>1. {"lnd", "lnd2", "lnd3"} \subseteq names
    BY <1>3, RingNames DEF WaitsForAll, ValidRing
  <2>2. x[2].volumes = RingVolumes /\ RingHealthy \subseteq x[2].depends_on
    BY <1>3 DEF RingSidecars, Job, Daemon, OnlyIf
  <2>3. QED
    BY <2>1, <2>2, CredentialOwners DEF Asks, RingVolumes, RingHealthy
<1>4. QED
  BY <1>1, <1>2, <1>3

LEMMA GuardianBound ==
  ASSUME NEW k, NEW n, IsNetworkCfg(n)
  PROVE  /\ GuardianCount(k, n) \in 0..3
         /\ \A i \in 1..GuardianCount(k, n) : i \in 1..3
<1>1. n.fedimint \in FedimintCfg
  BY DEF IsNetworkCfg
<1>2. n.fedimint.guardians \in 1..3
  BY <1>1 DEF FedimintCfg, FEDIMINT_MAX_GUARDIANS
<1>3. GuardianCount(k, n) = n.fedimint.guardians \/ GuardianCount(k, n) = 0
  BY DEF GuardianCount
<1>4. QED
  BY <1>2, <1>3

\* The shops ask for the service that pairs them.
LEMMA ShopsAsk ==
  ASSUME NEW names, "cashupayserver-init" \in names,
         NEW x \in CashuPayServer.services \cup WooCommerce.services
  PROVE  Asks(x, names)
<1>1. CASE x \in CashuPayServer.services
  BY <1>1, CredentialOwners DEF CashuPayServer, Fragment, Job, Daemon, Asks
<1>2. CASE x \in WooCommerce.services
  BY <1>2, CredentialOwners DEF WooCommerce, Fragment, Job, Daemon, Asks
<1>3. QED
  BY <1>1, <1>2

\* The mint, the explorer, the swap provider and the gateways ask for their ring node.
LEMMA ToolsAsk ==
  ASSUME NEW g, NEW k, NEW n, WaitsForAll(g, k, n), NEW names, DeployedRing(n) \subseteq names,
         NEW x,
         \/ x \in Cashu.services
         \/ x \in Mempool(n).services
         \/ n.electrum.enabled /\ x \in Electrum(k, n).services
         \/ FedimintEnabled(k, n) /\ x \in Fedimint(k, n).services
  PROVE  Asks(x, names)
<1>1. CASE x \in Cashu.services
  BY <1>1, CredentialOwners, RingNames DEF Cashu, Fragment, Daemon, Asks
<1>2. CASE x \in Mempool(n).services
  BY <1>2, CredentialOwners, RingNames DEF Mempool, Fragment, Daemon, Asks, OnlyIf
<1>3. CASE n.electrum.enabled /\ x \in Electrum(k, n).services
  <2> DEFINE target == ARK_RING_NODES[n.electrum.target_node]
  <2>1. target \in DeployedRing(n) /\ Owner[LndVolume[target]] = target
    BY <1>3, RingNames DEF WaitsForAll, ValidElectrum, TargetEnabled
  <2>2. \/ x[2].volumes \subseteq {"electrum_state", "nostr_relay_data"}
        \/ /\ x[2].volumes = {"electrum_data", "electrum_state", LndVolume[target]}
           /\ Healthy(target) \in x[2].depends_on
    BY <1>3 DEF Electrum, Fragment, Daemon, Job, OnlyIf
  <2> HIDE DEF target
  <2>3. QED
    BY <2>1, <2>2, CredentialOwners DEF Asks
<1>4. CASE FedimintEnabled(k, n) /\ x \in Fedimint(k, n).services
  <2>1. \/ \E i \in 1..GuardianCount(k, n) : x = <<Guardians[i], Guardian(i)>>
        \/ \E i \in 1..GuardianCount(k, n) : x = <<Gateways[i], Gateway(i)>>
        \/ x[2].volumes \subseteq {DataOf["fedimintd"], "fedimint_state"}
    BY <1>4 DEF Fedimint, Fragment, Job
  <2>2. \A i \in 1..GuardianCount(k, n) : i \in 1..3
    BY GuardianBound DEF WaitsForAll
  <2>3. \A i \in 1..3 : {DataOf[Guardians[i]], DataOf[Gateways[i]]} \cap Credentials = {}
    BY CredentialOwners DEF DataOf, Guardians, Gateways
  <2>4. CASE \E i \in 1..GuardianCount(k, n) : x = <<Guardians[i], Guardian(i)>>
    BY <2>2, <2>3, <2>4 DEF Guardian, Daemon, Asks
  <2>5. CASE \E i \in 1..GuardianCount(k, n) : x = <<Gateways[i], Gateway(i)>>
    <3>1. PICK i \in 1..GuardianCount(k, n) : x = <<Gateways[i], Gateway(i)>>
      BY <2>5
    <3>2. RingNodes[i] \in DeployedRing(n) /\ Owner[LndVolume[RingNodes[i]]] = RingNodes[i]
      BY RingNames DEF WaitsForAll, GatewayWithoutNode
    <3>3. /\ x[2].volumes = {DataOf[Gateways[i]], LndVolume[RingNodes[i]]}
          /\ Healthy(RingNodes[i]) \in x[2].depends_on
      BY <3>1 DEF Gateway, Daemon
    <3>4. QED
      BY <2>2, <2>3, <3>2, <3>3 DEF Asks
  <2>6. CASE x[2].volumes \subseteq {DataOf["fedimintd"], "fedimint_state"}
    BY <2>6, CredentialOwners DEF Asks, DataOf
  <2>7. QED
    BY <2>1, <2>4, <2>5, <2>6
<1>5. QED
  BY <1>1, <1>2, <1>3, <1>4

\* The Ark server and its bridge ask for cln, and the bridge for its ring node.
LEMMA ArkAsks ==
  ASSUME NEW g, NEW k, NEW n, WaitsForAll(g, k, n), ArkEnabled(k, n), NEW names,
         DeployedRing(n) \cup {"cln"} \subseteq names, NEW x \in Ark(n).services
  PROVE  Asks(x, names)
<1> DEFINE target == ARK_RING_NODES[n.ark.target_node]
<1>1. target \in DeployedRing(n) /\ Owner[LndVolume[target]] = target
  BY RingNames DEF WaitsForAll, ValidArk, TargetEnabled
<1>2. \/ x[1] = "cln" /\ x[2].volumes = {"ark_cln_data"}
      \/ /\ x[2].volumes = {"ark_captaind_data", "ark_captaind_pg", "ark_cln_data"}
         /\ Healthy("cln") \in x[2].depends_on
      \/ x[2].volumes = {"ark_state"}
      \/ /\ x[2].volumes = {"ark_cln_data", LndVolume[target], "ark_state"}
         /\ {Healthy("cln"), Healthy(target)} \subseteq x[2].depends_on
  BY DEF Ark, Fragment, Daemon, Job
<1> HIDE DEF target
<1>3. QED
  BY <1>1, <1>2, CredentialOwners DEF Asks

\* The others read nobody's.
LEMMA OthersAsk ==
  ASSUME NEW g, NEW k, NEW n, WaitsForAll(g, k, n), NEW names, NEW x,
         \/ x \in Bitcoind(g, k, n).services
         \/ x \in Fulcrum(n).services
         \/ x \in CashuWallet.services
         \/ x \in Miner.services
         \/ k \in CLAIM_NETWORKS /\ n.claimer.enabled /\ x \in Claimer(n).services
         \/ x \in Donations.services
  PROVE  Asks(x, names)
<1>1. x[2].volumes \cap Credentials = {}
  <2>1. CASE x \in Bitcoind(g, k, n).services
    BY <2>1, CredentialOwners DEF Bitcoind, Fragment, Daemon, OnlyIf
  <2>2. CASE x \in Fulcrum(n).services
    <3>1. PICK i \in DOMAIN EnabledIndexers(n) : x = <<EnabledIndexers(n)[i].name, Indexer(n, i)>>
      BY <2>2 DEF Fulcrum, Fragment
    <3>2. x[2].volumes = {IndexerVolume(EnabledIndexers(n)[i].name)}
      BY <3>1 DEF Indexer, Daemon
    <3>3. QED
      BY <3>2 DEF WaitsForAll, IndexerNames
  <2>3. CASE x \in CashuWallet.services
    BY <2>3 DEF CashuWallet, Fragment, Daemon
  <2>4. CASE x \in Miner.services
    BY <2>4 DEF Miner, Fragment, Daemon
  <2>5. CASE k \in CLAIM_NETWORKS /\ n.claimer.enabled /\ x \in Claimer(n).services
    BY <2>5, CredentialOwners DEF Claimer, Fragment, Daemon, OnlyIf, WaitsForAll, ReadsLater
  <2>6. CASE x \in Donations.services
    BY <2>6, CredentialOwners DEF Donations, Fragment, Daemon
  <2>7. QED
    BY <2>1, <2>2, <2>3, <2>4, <2>5, <2>6
<1>2. QED
  BY <1>1 DEF Asks

\* The builders' dependencies, whatever the configuration.
LEMMA BuildersAskFirst ==
  ASSUME NEW g, NEW k, NEW n, WaitsForAll(g, k, n)
  PROVE  AsksFirst(Project(g, k, n).services)
<1> DEFINE names == {x[1] : x \in Emitted(g, k, n)}
<1>1. DeployedRing(n) \subseteq names
  <2> SUFFICES ASSUME NEW s \in DeployedRing(n) PROVE s \in names
    OBVIOUS
  <2>1. <<s, LndNode(g, s)>> \in Lnd(g, k, n).services
    BY DEF Lnd, LndNodes, Fragment
  <2>2. <<s, LndNode(g, s)>> \in Emitted(g, k, n)
    BY <2>1, EmittedBy
  <2>3. QED
    BY <2>2
<1>2. ArkEnabled(k, n) => "cln" \in names
  <2> SUFFICES ASSUME ArkEnabled(k, n) PROVE "cln" \in names
    OBVIOUS
  <2>1. \E x \in Ark(n).services : x[1] = "cln"
    BY DEF Ark, Fragment
  <2>2. QED
    BY <2>1, EmittedBy
<1>3. n.cashupayserver.enabled => "cashupayserver-init" \in names
  <2> SUFFICES ASSUME n.cashupayserver.enabled PROVE "cashupayserver-init" \in names
    OBVIOUS
  <2>1. \E x \in CashuPayServer.services : x[1] = "cashupayserver-init"
    BY DEF CashuPayServer, Fragment
  <2>2. QED
    BY <2>1, EmittedBy
<1>4. n.woocommerce.enabled => n.cashupayserver.enabled
  BY DEF WaitsForAll, ValidShops
<1>5. ASSUME NEW x \in Emitted(g, k, n)
      PROVE  Asks(x, names)
  <2> HIDE DEF names
  <2>1. CASE x \in Lnd(g, k, n).services
    BY <1>1, <2>1, LndAsks
  <2>2. CASE ArkEnabled(k, n) /\ x \in Ark(n).services
    BY <1>1, <1>2, <2>2, ArkAsks
  <2>3. CASE \/ n.cashupayserver.enabled /\ x \in CashuPayServer.services
             \/ n.woocommerce.enabled /\ x \in WooCommerce.services
    BY <1>3, <1>4, <2>3, ShopsAsk
  <2>4. CASE \/ x \in Cashu.services
             \/ x \in Mempool(n).services
             \/ n.electrum.enabled /\ x \in Electrum(k, n).services
             \/ FedimintEnabled(k, n) /\ x \in Fedimint(k, n).services
    BY <1>1, <2>4, ToolsAsk
  <2>5. CASE \/ x \in Bitcoind(g, k, n).services
             \/ x \in Fulcrum(n).services
             \/ x \in CashuWallet.services
             \/ x \in Miner.services
             \/ k \in CLAIM_NETWORKS /\ n.claimer.enabled /\ x \in Claimer(n).services
             \/ x \in Donations.services
    BY <2>5, OthersAsk
  <2>6. QED
    BY <2>1, <2>2, <2>3, <2>4, <2>5, EmittedBy, Zenon
<1>6. ASSUME NEW s \in DOMAIN Project(g, k, n).services,
             NEW v \in Project(g, k, n).services[s].volumes \cap Credentials
      PROVE  \/ Owner[v] = s
             \/ /\ Owner[v] \in DOMAIN Project(g, k, n).services
                /\ {Healthy(Owner[v]), Completed(Owner[v])}
                     \cap Project(g, k, n).services[s].depends_on # {}
  <2>1. DOMAIN Project(g, k, n).services = names
    BY ProjectServices
  <2>2. PICK x \in Emitted(g, k, n) : x[1] = s /\ Project(g, k, n).services[s] = x[2]
    BY ProjectServices
  <2> HIDE DEF names
  <2>3. Asks(x, names)
    BY <1>5
  <2>4. QED
    BY <2>1, <2>2, <2>3 DEF Asks
<1>7. QED
  BY <1>6, Zenon DEF AsksFirst


-----------------------------------------------------------------------------
(* No two services of one name.                                            *)

\* The builder a name is the name of a service of, by its place in the registry: any other
\* name is an indexer's.
HomeOf(s) ==
  IF s \in {"bitcoind"} THEN 1
  ELSE IF s \in {"lnd", "lnd2", "lnd3", "lnd-nodeinfo", "lnd2-nodeinfo", "lnd3-nodeinfo",
                 "lnd-tor-wait", "lnd2-tor-wait", "lnd3-tor-wait", "lnd-channels",
                 "lnd-setup", "lnd-rebalancer"} THEN 2
  ELSE IF s \in {"cashu"} THEN 4
  ELSE IF s \in {"cashu-wallet"} THEN 5
  ELSE IF s \in {"fedimintd", "fedimintd2", "fedimintd3", "gatewayd", "gatewayd2",
                 "gatewayd3", "fedimint-setup", "fedimint-gateways"} THEN 6
  ELSE IF s \in {"cln", "captaind", "ark-setup", "ark-channel"} THEN 7
  ELSE IF s \in {"electrum", "electrum-fund", "nostr-relay", "nostr-relay-sweeper"} THEN 8
  ELSE IF s \in {"cashupayserver-init", "cashupayserver"} THEN 9
  ELSE IF s \in {"woocommerce-db", "woocommerce", "woocommerce-init"} THEN 10
  ELSE IF s \in {"mempool-db", "mempool-api", "mempool-web"} THEN 11
  ELSE IF s \in {"miner"} THEN 12
  ELSE IF s \in {"claimer"} THEN 13
  ELSE IF s \in {"donations"} THEN 14
  ELSE 3

LEMMA Homes ==
  /\ HomeOf("bitcoind") = 1
  /\ \A s \in {"lnd", "lnd2", "lnd3", "lnd-nodeinfo", "lnd2-nodeinfo", "lnd3-nodeinfo",
             "lnd-tor-wait", "lnd2-tor-wait", "lnd3-tor-wait", "lnd-channels", "lnd-setup",
             "lnd-rebalancer"} :
       HomeOf(s) = 2
  /\ HomeOf("cashu") = 4
  /\ HomeOf("cashu-wallet") = 5
  /\ \A s \in {"fedimintd", "fedimintd2", "fedimintd3", "gatewayd", "gatewayd2", "gatewayd3",
             "fedimint-setup", "fedimint-gateways"} :
       HomeOf(s) = 6
  /\ \A s \in {"cln", "captaind", "ark-setup", "ark-channel"} :
       HomeOf(s) = 7
  /\ \A s \in {"electrum", "electrum-fund", "nostr-relay", "nostr-relay-sweeper"} :
       HomeOf(s) = 8
  /\ \A s \in {"cashupayserver-init", "cashupayserver"} :
       HomeOf(s) = 9
  /\ \A s \in {"woocommerce-db", "woocommerce", "woocommerce-init"} :
       HomeOf(s) = 10
  /\ \A s \in {"mempool-db", "mempool-api", "mempool-web"} :
       HomeOf(s) = 11
  /\ HomeOf("miner") = 12
  /\ HomeOf("claimer") = 13
  /\ HomeOf("donations") = 14
  BY DEF HomeOf

\* The indexers of a network have names of their own: one each, and no builder's.
OwnNames(n) ==
  /\ \A name \in IndexerNames(n) : HomeOf(name) = 3
  /\ \A i, j \in DOMAIN EnabledIndexers(n) :
       EnabledIndexers(n)[i].name = EnabledIndexers(n)[j].name => i = j

\* The services of a set all have one home, and a name each.
HouseOf(emitted, i) ==
  /\ \A x \in emitted : HomeOf(x[1]) = i
  /\ \A x \in emitted, y \in emitted : x[1] = y[1] => x = y

LEMMA BitcoindHouse ==
  ASSUME NEW g, NEW k, NEW n
  PROVE  HouseOf(Bitcoind(g, k, n).services, 1)
<1>1. \A x \in Bitcoind(g, k, n).services : HomeOf(x[1]) = 1
  BY Homes DEF Bitcoind, Fragment, Job, Daemon
<1>2. \A x \in Bitcoind(g, k, n).services, y \in Bitcoind(g, k, n).services :
         x[1] = y[1] => x = y
  BY Homes DEF Bitcoind, Fragment, Job, Daemon
<1>3. QED
  BY <1>1, <1>2 DEF HouseOf

LEMMA CashuHouse ==
  HouseOf(Cashu.services, 4)
<1>1. \A x \in Cashu.services : HomeOf(x[1]) = 4
  BY Homes DEF Cashu, Fragment, Job, Daemon
<1>2. \A x \in Cashu.services, y \in Cashu.services : x[1] = y[1] => x = y
  BY Homes DEF Cashu, Fragment, Job, Daemon
<1>3. QED
  BY <1>1, <1>2 DEF HouseOf

LEMMA CashuWalletHouse ==
  HouseOf(CashuWallet.services, 5)
<1>1. \A x \in CashuWallet.services : HomeOf(x[1]) = 5
  BY Homes DEF CashuWallet, Fragment, Job, Daemon
<1>2. \A x \in CashuWallet.services, y \in CashuWallet.services :
         x[1] = y[1] => x = y
  BY Homes DEF CashuWallet, Fragment, Job, Daemon
<1>3. QED
  BY <1>1, <1>2 DEF HouseOf

LEMMA ArkHouse ==
  ASSUME NEW n
  PROVE  HouseOf(Ark(n).services, 7)
<1>1. \A x \in Ark(n).services : HomeOf(x[1]) = 7
  BY Homes DEF Ark, Fragment, Job, Daemon
<1>2. \A x \in Ark(n).services, y \in Ark(n).services : x[1] = y[1] => x = y
  <2>1. PICK cln, captaind, setup, channel :
          Ark(n).services = {<<"cln", cln>>, <<"captaind", captaind>>,
                             <<"ark-setup", setup>>, <<"ark-channel", channel>>}
    BY DEF Ark, Fragment
  <2>2. QED
    BY <2>1
<1>3. QED
  BY <1>1, <1>2 DEF HouseOf

LEMMA CashuPayServerHouse ==
  HouseOf(CashuPayServer.services, 9)
<1>1. \A x \in CashuPayServer.services : HomeOf(x[1]) = 9
  BY Homes DEF CashuPayServer, Fragment, Job, Daemon
<1>2. \A x \in CashuPayServer.services, y \in CashuPayServer.services : x[1] = y[1] => x = y
  <2>1. PICK init, server :
          CashuPayServer.services = {<<"cashupayserver-init", init>>,
                                     <<"cashupayserver", server>>}
    BY DEF CashuPayServer, Fragment
  <2>2. QED
    BY <2>1
<1>3. QED
  BY <1>1, <1>2 DEF HouseOf

LEMMA WooCommerceHouse ==
  HouseOf(WooCommerce.services, 10)
<1>1. \A x \in WooCommerce.services : HomeOf(x[1]) = 10
  BY Homes DEF WooCommerce, Fragment, Job, Daemon
<1>2. \A x \in WooCommerce.services, y \in WooCommerce.services : x[1] = y[1] => x = y
  <2>1. PICK db, shop, init :
          WooCommerce.services = {<<"woocommerce-db", db>>, <<"woocommerce", shop>>,
                                  <<"woocommerce-init", init>>}
    BY DEF WooCommerce, Fragment
  <2>2. QED
    BY <2>1
<1>3. QED
  BY <1>1, <1>2 DEF HouseOf

LEMMA MinerHouse ==
  HouseOf(Miner.services, 12)
<1>1. \A x \in Miner.services : HomeOf(x[1]) = 12
  BY Homes DEF Miner, Fragment, Job, Daemon
<1>2. \A x \in Miner.services, y \in Miner.services : x[1] = y[1] => x = y
  BY Homes DEF Miner, Fragment, Job, Daemon
<1>3. QED
  BY <1>1, <1>2 DEF HouseOf

LEMMA ClaimerHouse ==
  ASSUME NEW n
  PROVE  HouseOf(Claimer(n).services, 13)
<1>1. \A x \in Claimer(n).services : HomeOf(x[1]) = 13
  BY Homes DEF Claimer, Fragment, Job, Daemon
<1>2. \A x \in Claimer(n).services, y \in Claimer(n).services :
         x[1] = y[1] => x = y
  BY Homes DEF Claimer, Fragment, Job, Daemon
<1>3. QED
  BY <1>1, <1>2 DEF HouseOf

LEMMA DonationsHouse ==
  HouseOf(Donations.services, 14)
<1>1. \A x \in Donations.services : HomeOf(x[1]) = 14
  BY Homes DEF Donations, Fragment, Job, Daemon
<1>2. \A x \in Donations.services, y \in Donations.services :
         x[1] = y[1] => x = y
  BY Homes DEF Donations, Fragment, Job, Daemon
<1>3. QED
  BY <1>1, <1>2 DEF HouseOf

LEMMA LndHouse ==
  ASSUME NEW g, NEW k, NEW n
  PROVE  HouseOf(Lnd(g, k, n).services, 2)
<1> DEFINE Node(s) == <<s, LndNode(g, s)>>
           Info(s) == <<NodeInfo[s], Daemon(FALSE, {Healthy(s)}, {}, {LndVolume[s]})>>
           Wait(s) == <<TorWait[s], Job("no", {}, {})>>
           Ring == {"lnd", "lnd2", "lnd3"}
<1>1. ASSUME NEW x \in Lnd(g, k, n).services
      PROVE  (\E s \in Ring : x \in {Node(s), Info(s), Wait(s)}) \/ x \in RingSidecars(k, n)
  BY RingNames DEF Lnd, LndNodes, Fragment, OnlyIf
<1>2. ASSUME NEW s \in Ring
      PROVE  /\ Node(s)[1] = s /\ Info(s)[1] = NodeInfo[s] /\ Wait(s)[1] = TorWait[s]
             /\ HomeOf(Node(s)[1]) = 2 /\ HomeOf(Info(s)[1]) = 2 /\ HomeOf(Wait(s)[1]) = 2
  BY Homes DEF NodeInfo, TorWait
<1>3. ASSUME NEW x \in RingSidecars(k, n)
      PROVE  x[1] \in {"lnd-channels", "lnd-setup", "lnd-rebalancer"}
  BY Homes DEF RingSidecars, OnlyIf, Job, Daemon
<1>4. \A x \in RingSidecars(k, n), y \in RingSidecars(k, n) : x[1] = y[1] => x = y
  <2>1. PICK channels, setup, rebalancer :
          RingSidecars(k, n) =
            {<<"lnd-channels", channels>>}
            \cup OnlyIf(LndFundingMode(k, n) = "auto", {<<"lnd-setup", setup>>})
            \cup OnlyIf(RebalancerEnabled(n), {<<"lnd-rebalancer", rebalancer>>})
    BY DEF RingSidecars
  <2>2. \A x \in RingSidecars(k, n) :
          x \in {<<"lnd-channels", channels>>, <<"lnd-setup", setup>>,
                <<"lnd-rebalancer", rebalancer>>}
    BY <2>1 DEF OnlyIf
  <2>3. QED
    BY <2>2
<1>5. \A s \in Ring, r \in Ring :
        /\ s # NodeInfo[r] /\ s # TorWait[r] /\ NodeInfo[s] # TorWait[r]
        /\ NodeInfo[s] = NodeInfo[r] => s = r
        /\ TorWait[s] = TorWait[r] => s = r
  BY DEF NodeInfo, TorWait
<1>6. \A s \in Ring, job \in {"lnd-channels", "lnd-setup", "lnd-rebalancer"} :
        s # job /\ NodeInfo[s] # job /\ TorWait[s] # job
  BY DEF NodeInfo, TorWait
<1> HIDE DEF Node, Info, Wait, Ring
<1>7. \A x \in Lnd(g, k, n).services : HomeOf(x[1]) = 2
  BY <1>1, <1>2, <1>3, Homes
<1>8. ASSUME NEW x \in Lnd(g, k, n).services, NEW y \in Lnd(g, k, n).services, x[1] = y[1]
      PROVE  x = y
  <2>0. ASSUME NEW a \in RingSidecars(k, n), NEW s \in Ring,
               NEW b \in {Node(s), Info(s), Wait(s)}
        PROVE  a[1] # b[1]
    <3>1. b[1] \in {s, NodeInfo[s], TorWait[s]}
      BY <1>2, Zenon
    <3>2. QED
      BY <1>3, <1>6, <3>1
  <2>1. CASE x \in RingSidecars(k, n) \/ y \in RingSidecars(k, n)
    <3>1. x \in RingSidecars(k, n) /\ y \in RingSidecars(k, n)
      BY <1>1, <1>8, <2>0, <2>1
    <3>2. QED
      BY <1>4, <1>8, <3>1
  <2>2. CASE ~(x \in RingSidecars(k, n) \/ y \in RingSidecars(k, n))
    <3>1. PICK s \in Ring : x \in {Node(s), Info(s), Wait(s)}
      BY <1>1, <2>2
    <3>2. PICK r \in Ring : y \in {Node(r), Info(r), Wait(r)}
      BY <1>1, <2>2
    <3>3. s = r /\ x = y
      BY <1>2, <1>5, <1>8, <3>1, <3>2
    <3>4. QED
      BY <3>3
  <2>3. QED
    BY <2>1, <2>2
<1>9. QED
  BY <1>7, <1>8 DEF HouseOf

LEMMA FulcrumHouse ==
  ASSUME NEW n, OwnNames(n)
  PROVE  HouseOf(Fulcrum(n).services, 3)
<1>1. \A x \in Fulcrum(n).services : \E i \in DOMAIN EnabledIndexers(n) :
        x = <<EnabledIndexers(n)[i].name, Indexer(n, i)>>
  BY DEF Fulcrum, Fragment
<1>2. \A x \in Fulcrum(n).services : HomeOf(x[1]) = 3
  BY <1>1 DEF OwnNames, IndexerNames
<1>3. \A x \in Fulcrum(n).services, y \in Fulcrum(n).services :
         x[1] = y[1] => x = y
  BY <1>1 DEF OwnNames
<1>4. QED
  BY <1>2, <1>3 DEF HouseOf

LEMMA FedimintHouse ==
  ASSUME NEW k, NEW n, IsNetworkCfg(n)
  PROVE  HouseOf(Fedimint(k, n).services, 6)
<1> DEFINE Jobs == {"fedimint-setup", "fedimint-gateways"}
<1>1. PICK setup, gateways :
        \A x \in Fedimint(k, n).services :
           \/ \E i \in 1..3 : x = <<Guardians[i], Guardian(i)>>
           \/ \E i \in 1..3 : x = <<Gateways[i], Gateway(i)>>
           \/ x = <<"fedimint-setup", setup>>
           \/ x = <<"fedimint-gateways", gateways>>
  <2> DEFINE count == 1..GuardianCount(k, n)
             setup == Job("on-failure", {Started(s) : s \in {Guardians[i] : i \in count}},
                          {DataOf["fedimintd"], "fedimint_state"})
             gateways == Job("on-failure",
                             {Started(s) : s \in {Gateways[i] : i \in count}}
                               \cup {Started("fedimint-setup")},
                             {"fedimint_state"})
  <2>1. Fedimint(k, n).services =
          {<<Guardians[i], Guardian(i)>> : i \in count}
          \cup {<<Gateways[i], Gateway(i)>> : i \in count}
          \cup {<<"fedimint-setup", setup>>, <<"fedimint-gateways", gateways>>}
    BY DEF Fedimint, Fragment
  <2>2. \A i \in count : i \in 1..3
    BY GuardianBound
  <2> HIDE DEF count, setup, gateways
  <2>3. QED
    BY <2>1, <2>2
<1>2. \A i \in 1..3 : HomeOf(Guardians[i]) = 6 /\ HomeOf(Gateways[i]) = 6
  BY Homes DEF Guardians, Gateways
<1>3. \A s \in Jobs : HomeOf(s) = 6
  BY Homes
<1>4. \A i \in 1..3, j \in 1..3 :
        /\ Guardians[i] # Gateways[j]
        /\ Guardians[i] = Guardians[j] => i = j
        /\ Gateways[i] = Gateways[j] => i = j
        /\ Guardians[i] \notin Jobs /\ Gateways[i] \notin Jobs
  BY DEF Guardians, Gateways
<1>5. \A x \in Fedimint(k, n).services : HomeOf(x[1]) = 6
  BY <1>1, <1>2, <1>3
<1>6. ASSUME NEW x \in Fedimint(k, n).services, NEW y \in Fedimint(k, n).services, x[1] = y[1]
      PROVE  x = y
  <2>1. CASE \E i \in 1..3 : x = <<Guardians[i], Guardian(i)>>
    BY <1>1, <1>4, <1>6, <2>1
  <2>2. CASE \E i \in 1..3 : x = <<Gateways[i], Gateway(i)>>
    BY <1>1, <1>4, <1>6, <2>2
  <2>3. CASE x = <<"fedimint-setup", setup>>
    BY <1>1, <1>4, <1>6, <2>3
  <2>4. CASE x = <<"fedimint-gateways", gateways>>
    BY <1>1, <1>4, <1>6, <2>4
  <2>5. QED
    BY <1>1, <2>1, <2>2, <2>3, <2>4
<1>7. QED
  BY <1>5, <1>6 DEF HouseOf

LEMMA ElectrumHouse ==
  ASSUME NEW k, NEW n
  PROVE  HouseOf(Electrum(k, n).services, 8)
<1>1. PICK swaps, fund, relay, sweeper :
        Electrum(k, n).services =
          {<<"electrum", swaps>>}
          \cup OnlyIf(ElectrumFundingMode(k, n) = "auto", {<<"electrum-fund", fund>>})
          \cup OnlyIf(RelayEnabled(n),
                      {<<"nostr-relay", relay>>, <<"nostr-relay-sweeper", sweeper>>})
  BY DEF Electrum, Fragment
<1>2. \A x \in Electrum(k, n).services :
        x \in {<<"electrum", swaps>>, <<"electrum-fund", fund>>, <<"nostr-relay", relay>>,
              <<"nostr-relay-sweeper", sweeper>>}
  BY <1>1 DEF OnlyIf
<1>3. \A x \in Electrum(k, n).services :
        x[1] \in {"electrum", "electrum-fund", "nostr-relay", "nostr-relay-sweeper"}
  BY <1>2
<1>4. \A x \in Electrum(k, n).services, y \in Electrum(k, n).services : x[1] = y[1] => x = y
  BY <1>2
<1>5. QED
  BY <1>3, <1>4, Homes DEF HouseOf

LEMMA MempoolHouse ==
  ASSUME NEW n
  PROVE  HouseOf(Mempool(n).services, 11)
<1>1. PICK db, api, web :
        Mempool(n).services = {<<"mempool-db", db>>, <<"mempool-api", api>>,
                               <<"mempool-web", web>>}
  BY DEF Mempool, Fragment
<1>2. \A x \in Mempool(n).services : x[1] \in {"mempool-db", "mempool-api", "mempool-web"}
  BY <1>1
<1>3. \A x \in Mempool(n).services, y \in Mempool(n).services : x[1] = y[1] => x = y
  BY <1>1
<1>4. QED
  BY <1>2, <1>3, Homes DEF HouseOf

LEMMA EmptyHouse ==
  ASSUME NEW cond, NEW f, NEW i, HouseOf(f.services, i)
  PROVE  HouseOf(If(cond, f).services, i)
<1>1. If(cond, f).services = f.services \/ If(cond, f).services = {}
  BY DEF If, Nothing, Fragment
<1>2. HouseOf({}, i)
  BY DEF HouseOf
<1>3. QED
  BY <1>1, <1>2

LEMMA RegistryHouses ==
  ASSUME NEW g, NEW k, NEW n, IsNetworkCfg(n), OwnNames(n)
  PROVE  \A i \in 1..14 : HouseOf(Registry(g, k, n)[i].services, i)
<1> DEFINE In(i) == HouseOf(Registry(g, k, n)[i].services, i)
<1>1. In(1)
  BY RegistryOf, BitcoindHouse
<1>2. In(2)
  BY RegistryOf, LndHouse
<1>3. In(3)
  <2>1. HouseOf(Fulcrum(n).services, 3)
    BY FulcrumHouse
  <2>2. HouseOf(If(EnabledIndexers(n) # << >>, Fulcrum(n)).services, 3)
    BY <2>1, EmptyHouse
  <2>3. QED
    BY <2>2, RegistryOf
<1>4. In(4)
  <2>1. HouseOf(Cashu.services, 4)
    BY CashuHouse
  <2>2. HouseOf(If(n.cashu.enabled, Cashu).services, 4)
    BY <2>1, EmptyHouse
  <2>3. QED
    BY <2>2, RegistryOf
<1>5. In(5)
  <2>1. HouseOf(CashuWallet.services, 5)
    BY CashuWalletHouse
  <2>2. HouseOf(If(n.cashu.enabled /\ n.cashu.wallet, CashuWallet).services, 5)
    BY <2>1, EmptyHouse
  <2>3. QED
    BY <2>2, RegistryOf
<1>6. In(6)
  <2>1. HouseOf(Fedimint(k, n).services, 6)
    BY FedimintHouse
  <2>2. HouseOf(If(FedimintEnabled(k, n), Fedimint(k, n)).services, 6)
    BY <2>1, EmptyHouse
  <2>3. QED
    BY <2>2, RegistryOf
<1>7. In(7)
  <2>1. HouseOf(Ark(n).services, 7)
    BY ArkHouse
  <2>2. HouseOf(If(ArkEnabled(k, n), Ark(n)).services, 7)
    BY <2>1, EmptyHouse
  <2>3. QED
    BY <2>2, RegistryOf
<1>8. In(8)
  <2>1. HouseOf(Electrum(k, n).services, 8)
    BY ElectrumHouse
  <2>2. HouseOf(If(n.electrum.enabled, Electrum(k, n)).services, 8)
    BY <2>1, EmptyHouse
  <2>3. QED
    BY <2>2, RegistryOf
<1>9. In(9)
  <2>1. HouseOf(CashuPayServer.services, 9)
    BY CashuPayServerHouse
  <2>2. HouseOf(If(n.cashupayserver.enabled, CashuPayServer).services, 9)
    BY <2>1, EmptyHouse
  <2>3. QED
    BY <2>2, RegistryOf
<1>10. In(10)
  <2>1. HouseOf(WooCommerce.services, 10)
    BY WooCommerceHouse
  <2>2. HouseOf(If(n.woocommerce.enabled, WooCommerce).services, 10)
    BY <2>1, EmptyHouse
  <2>3. QED
    BY <2>2, RegistryOf
<1>11. In(11)
  <2>1. HouseOf(Mempool(n).services, 11)
    BY MempoolHouse
  <2>2. HouseOf(If(MempoolEnabled(k, n), Mempool(n)).services, 11)
    BY <2>1, EmptyHouse
  <2>3. QED
    BY <2>2, RegistryOf
<1>12. In(12)
  <2>1. HouseOf(Miner.services, 12)
    BY MinerHouse
  <2>2. HouseOf(If(Mines(k, n), Miner).services, 12)
    BY <2>1, EmptyHouse
  <2>3. QED
    BY <2>2, RegistryOf
<1>13. In(13)
  <2>1. HouseOf(Claimer(n).services, 13)
    BY ClaimerHouse
  <2>2. HouseOf(If(k \in CLAIM_NETWORKS /\ n.claimer.enabled, Claimer(n)).services, 13)
    BY <2>1, EmptyHouse
  <2>3. QED
    BY <2>2, RegistryOf
<1>14. In(14)
  BY RegistryOf, DonationsHouse
<1> HIDE DEF In
<1>15. \A i \in 1..14 : \/ i = 1 \/ i = 2 \/ i = 3 \/ i = 4 \/ i = 5 \/ i = 6 \/ i = 7 \/ i = 8
                        \/ i = 9 \/ i = 10 \/ i = 11 \/ i = 12 \/ i = 13 \/ i = 14
  OBVIOUS
<1>16. \A i \in 1..14 : In(i)
  BY <1>1, <1>2, <1>3, <1>4, <1>5, <1>6, <1>7, <1>8, <1>9, <1>10, <1>11, <1>12, <1>13, <1>14,
     <1>15
<1>17. QED
  BY <1>16 DEF In

\* What any builder emits is there, as it was emitted.
LEMMA EmittedIsThere ==
  ASSUME NEW g, NEW k, NEW n, IsNetworkCfg(n), OwnNames(n), NEW x \in Emitted(g, k, n)
  PROVE  /\ x[1] \in DOMAIN Project(g, k, n).services
         /\ Project(g, k, n).services[x[1]] = x[2]
<1> DEFINE In(i) == Registry(g, k, n)[i].services
<1>1. Emitted(g, k, n) = UNION {In(i) : i \in 1..14}
  BY DEF Emitted
<1>2. \A i \in 1..14 : HouseOf(In(i), i)
  BY RegistryHouses
<1> HIDE DEF In
<1>3. x[1] \in DOMAIN Project(g, k, n).services
  BY ProjectServices
<1>4. PICK y \in Emitted(g, k, n) : y[1] = x[1] /\ Project(g, k, n).services[x[1]] = y[2]
  BY <1>3, ProjectServices
<1>5. PICK i \in 1..14 : x \in In(i)
  BY <1>1
<1>6. PICK j \in 1..14 : y \in In(j)
  BY <1>1
<1>7. HomeOf(x[1]) = i /\ HomeOf(y[1]) = j
  BY <1>2, <1>5, <1>6 DEF HouseOf
<1>8. x = y
  BY <1>2, <1>4, <1>5, <1>6, <1>7 DEF HouseOf
<1>9. QED
  BY <1>3, <1>4, <1>8

-----------------------------------------------------------------------------
(* The ports the services publish.                                         *)

\* Some service publishes the port p names, to the world or to the loopback only.
Publishes(g, k, n, p, pub) ==
  \E x \in Emitted(g, k, n) : \E q \in x[2].ports : q[1] = p /\ q[2] = pub

\* The ports services publish to the world.
PublicNames(k, n) ==
  OnlyIf(n.bitcoind.p2p_public, {P("bitcoind_p2p")})
  \cup {LndPort(s, "p2p") : s \in DeployedRing(n)}
  \cup {<<"fulcrum_electrum_tcp", i - 1>> : i \in DOMAIN EnabledIndexers(n)}
  \cup OnlyIf(ArkEnabled(k, n), {P("ark_cln_p2p")})

LEMMA Sides ==
  ASSUME NEW name
  PROVE  /\ Loopback(name)[1] = name /\ Loopback(name)[2] = FALSE
         /\ Public(name)[1] = name /\ Public(name)[2] = TRUE
  BY DEF Loopback, Public

LEMMA OnlyThesePublic ==
  ASSUME NEW g, NEW k, NEW n, NEW p, Publishes(g, k, n, p, TRUE)
  PROVE  p \in PublicNames(k, n)
<1>1. PICK x \in Emitted(g, k, n) : \E q \in x[2].ports : q[1] = p /\ q[2] = TRUE
  BY DEF Publishes
<1>2. CASE x \in Bitcoind(g, k, n).services
  <2>1. x[2].ports = {Loopback(P("bitcoind_rpc")), <<P("bitcoind_p2p"), n.bitcoind.p2p_public>>}
    BY <1>2 DEF Bitcoind, Fragment, Daemon
  <2>2. PICK q \in x[2].ports : q[1] = p /\ q[2] = TRUE
    BY <1>1
  <2>3. q # Loopback(P("bitcoind_rpc"))
    BY <2>2, Sides
  <2>4. p = P("bitcoind_p2p") /\ n.bitcoind.p2p_public
    BY <2>1, <2>2, <2>3
  <2>5. QED
    BY <2>4 DEF PublicNames, OnlyIf
<1>3. CASE x \in Lnd(g, k, n).services
  <2>1. \/ \E s \in DeployedRing(n) : x = <<s, LndNode(g, s)>>
        \/ x[2].ports = {}
    BY <1>3 DEF Lnd, LndNodes, RingSidecars, Fragment, OnlyIf, Job, Daemon
  <2>2. PICK s \in DeployedRing(n) : x = <<s, LndNode(g, s)>>
    BY <1>1, <2>1
  <2>3. x[2].ports = {Public(LndPort(s, "p2p")), Loopback(LndPort(s, "grpc")),
                      Loopback(LndPort(s, "rest"))}
    BY <2>2 DEF LndNode, Daemon
  <2>4. p = LndPort(s, "p2p")
    BY <1>1, <2>3, Sides
  <2>5. QED
    BY <2>4 DEF PublicNames
<1>4. CASE x \in Fulcrum(n).services
  <2>1. PICK i \in DOMAIN EnabledIndexers(n) : x = <<EnabledIndexers(n)[i].name, Indexer(n, i)>>
    BY <1>4 DEF Fulcrum, Fragment
  <2>2. p = <<"fulcrum_electrum_tcp", i - 1>>
    BY <1>1, <2>1, Sides DEF Indexer, Daemon
  <2>3. QED
    BY <2>2 DEF PublicNames
<1>5. CASE x \in Cashu.services
  <2>1. x[2].ports \subseteq {Loopback(P("cashu_backend"))}
    BY <1>5 DEF Cashu, Fragment, Daemon, Job
  <2>2. QED
    BY <1>1, <2>1, Sides
<1>6. CASE x \in CashuWallet.services
  <2>1. x[2].ports \subseteq {Loopback(P("cashu_wallet_backend"))}
    BY <1>6 DEF CashuWallet, Fragment, Daemon, Job
  <2>2. QED
    BY <1>1, <2>1, Sides
<1>7. CASE x \in Fedimint(k, n).services
  <2>1. \/ \E i \in 1..GuardianCount(k, n) : x[2] = Guardian(i)
        \/ \E i \in 1..GuardianCount(k, n) : x[2] = Gateway(i)
        \/ x[2].ports = {}
    BY <1>7 DEF Fedimint, Fragment, Job
  <2>2. ASSUME NEW i \in 1..GuardianCount(k, n), NEW q \in Guardian(i).ports \cup Gateway(i).ports
        PROVE  q[2] = FALSE
    <3>1. /\ Guardian(i).ports = {Loopback(<<"fedimintd_api", i - 1>>),
                                 Loopback(<<"fedimintd_ui", i - 1>>)}
          /\ Gateway(i).ports = {Loopback(<<"gatewayd_api", i - 1>>)}
      BY DEF Guardian, Gateway, Daemon
    <3>2. \A name : Loopback(name)[2] = FALSE
      BY DEF Loopback
    <3>3. QED
      BY <3>1, <3>2
  <2>3. \E q \in x[2].ports : q[2] = TRUE
    BY <1>1
  <2>4. QED
    BY <2>1, <2>2, <2>3
<1>8. CASE ArkEnabled(k, n) /\ x \in Ark(n).services
  <2>1. x[2].ports \subseteq {Public(P("ark_cln_p2p")), Loopback(P("ark_cln_grpc")),
                              Loopback(P("ark_cln_hold")), Loopback(P("ark_captaind")),
                              Loopback(P("ark_captaind_admin"))}
    BY <1>8 DEF Ark, Fragment, Daemon, Job
  <2>2. p = P("ark_cln_p2p")
    BY <1>1, <2>1, Sides
  <2>3. QED
    BY <1>8, <2>2 DEF PublicNames, OnlyIf
<1>9. CASE x \in Electrum(k, n).services
  <2>1. x[2].ports \subseteq {Loopback(P("electrum_rpc")), Loopback(P("nostr_relay_backend"))}
    BY <1>9 DEF Electrum, Fragment, Daemon, Job, OnlyIf
  <2>2. QED
    BY <1>1, <2>1, Sides
<1>10. CASE x \in CashuPayServer.services
  <2>1. x[2].ports \subseteq {Loopback(P("cashupayserver_backend"))}
    BY <1>10 DEF CashuPayServer, Fragment, Daemon, Job
  <2>2. QED
    BY <1>1, <2>1, Sides
<1>11. CASE x \in WooCommerce.services
  <2>1. x[2].ports \subseteq {Loopback(P("woocommerce_backend"))}
    BY <1>11 DEF WooCommerce, Fragment, Daemon, Job
  <2>2. QED
    BY <1>1, <2>1, Sides
<1>12. CASE x \in Mempool(n).services
  <2>1. x[2].ports \subseteq {Loopback(P("mempool_api")), Loopback(P("mempool_web"))}
    BY <1>12 DEF Mempool, Fragment, Daemon, Job, OnlyIf
  <2>2. QED
    BY <1>1, <2>1, Sides
<1>13. CASE x \in Miner.services
  <2>1. x[2].ports \subseteq {}
    BY <1>13 DEF Miner, Fragment, Daemon, Job
  <2>2. QED
    BY <1>1, <2>1, Sides
<1>14. CASE x \in Claimer(n).services
  <2>1. x[2].ports \subseteq {}
    BY <1>14 DEF Claimer, Fragment, Daemon, Job, OnlyIf
  <2>2. QED
    BY <1>1, <2>1, Sides
<1>15. CASE x \in Donations.services
  <2>1. x[2].ports \subseteq {}
    BY <1>15 DEF Donations, Fragment, Daemon, Job
  <2>2. QED
    BY <1>1, <2>1, Sides
<1>16. QED
  BY <1>1, <1>2, <1>3, <1>4, <1>5, <1>6, <1>7, <1>8, <1>9, <1>10, <1>11, <1>12, <1>13, <1>14,
     <1>15, EmittedBy, Zenon

LEMMA FirstIndexer ==
  ASSUME NEW n, OwnNames(n), NEW i \in DOMAIN EnabledIndexers(n)
  PROVE  <<EnabledIndexers(n)[i].name, Indexer(n, i)>> \in Fulcrum(n).services
<1>1. LastOfItsName(n, i)
  BY Zenon DEF LastOfItsName, OwnNames
<1>2. QED
  BY <1>1 DEF Fulcrum, Fragment

\* x is there, and its port with it.
LEMMA PortOfEmitted ==
  ASSUME NEW g, NEW k, NEW n, NEW x \in Emitted(g, k, n), NEW p, NEW pub,
         <<p, pub>> \in x[2].ports
  PROVE  Publishes(g, k, n, p, pub)
  BY DEF Publishes

LEMMA LoopbackOfEmitted ==
  ASSUME NEW g, NEW k, NEW n, NEW p, \E x \in Emitted(g, k, n) : Loopback(p) \in x[2].ports
  PROVE  Publishes(g, k, n, p, FALSE)
<1>1. Loopback(p) = <<p, FALSE>>
  BY DEF Loopback
<1>2. QED
  BY <1>1, PortOfEmitted

LEMMA AllThesePublic ==
  ASSUME NEW g, NEW k, NEW n, OwnNames(n), NEW p \in PublicNames(k, n)
  PROVE  Publishes(g, k, n, p, TRUE)
<1>1. CASE n.bitcoind.p2p_public /\ p = P("bitcoind_p2p")
  <2>1. \E x \in Bitcoind(g, k, n).services :
          \E q \in x[2].ports : q[1] = p /\ q[2] = n.bitcoind.p2p_public
    BY <1>1 DEF Bitcoind, Fragment, Daemon
  <2>2. QED
    BY <1>1, <2>1, EmittedBy DEF Publishes
<1>2. CASE \E s \in DeployedRing(n) : p = LndPort(s, "p2p")
  <2>1. PICK s \in DeployedRing(n) : p = LndPort(s, "p2p")
    BY <1>2
  <2>2. <<s, LndNode(g, s)>> \in Lnd(g, k, n).services
    BY DEF Lnd, LndNodes, Fragment
  <2>3. <<p, TRUE>> \in LndNode(g, s).ports
    BY <2>1 DEF LndNode, Daemon, Public
  <2>4. <<s, LndNode(g, s)>> \in Emitted(g, k, n)
    BY <2>2, EmittedBy
  <2>5. QED
    BY <2>3, <2>4, PortOfEmitted
<1>3. CASE \E i \in DOMAIN EnabledIndexers(n) : p = <<"fulcrum_electrum_tcp", i - 1>>
  <2>1. PICK i \in DOMAIN EnabledIndexers(n) : p = <<"fulcrum_electrum_tcp", i - 1>>
    BY <1>3
  <2>2. <<EnabledIndexers(n)[i].name, Indexer(n, i)>> \in Emitted(g, k, n)
    BY FirstIndexer, EmittedBy
  <2>3. <<p, TRUE>> \in Indexer(n, i).ports
    BY <2>1 DEF Indexer, Daemon, Public
  <2>4. QED
    BY <2>2, <2>3, PortOfEmitted
<1>4. CASE ArkEnabled(k, n) /\ p = P("ark_cln_p2p")
  <2>1. \E x \in Ark(n).services : Public(p) \in x[2].ports
    BY <1>4 DEF Ark, Fragment, Daemon
  <2>2. \E x \in Emitted(g, k, n) : Public(p) \in x[2].ports
    BY <1>4, <2>1, EmittedBy
  <2>3. QED
    BY <2>2, Sides DEF Publishes
<1>5. QED
  BY <1>1, <1>2, <1>3, <1>4 DEF PublicNames, OnlyIf

\* The ports services publish to the loopback, as far as rows, links and routes name them.
LoopbackNames(k, n) ==
  {P("bitcoind_rpc")} \cup OnlyIf(~n.bitcoind.p2p_public, {P("bitcoind_p2p")})
  \cup {LndPort(s, "rest") : s \in DeployedRing(n)}
  \cup {LndPort(s, "grpc") : s \in DeployedRing(n)}
  \cup {<<"fulcrum_admin", i - 1>> : i \in DOMAIN EnabledIndexers(n)}
  \cup OnlyIf(n.cashu.enabled, {P("cashu_backend")})
  \cup OnlyIf(n.cashu.enabled /\ n.cashu.wallet, {P("cashu_wallet_backend")})
  \cup {<<"fedimintd_ui", i - 1>> : i \in 1..GuardianCount(k, n)}
  \cup OnlyIf(ArkEnabled(k, n), {P("ark_captaind_admin"), P("ark_cln_grpc")})
  \cup OnlyIf(MempoolEnabled(k, n), {P("mempool_web")})
  \cup OnlyIf(n.cashupayserver.enabled, {P("cashupayserver_backend")})
  \cup OnlyIf(n.woocommerce.enabled, {P("woocommerce_backend")})

LEMMA AllTheseLoopback ==
  ASSUME NEW g, NEW k, NEW n, IsNetworkCfg(n), OwnNames(n), NEW p \in LoopbackNames(k, n)
  PROVE  Publishes(g, k, n, p, FALSE)
<1>1. CASE p = P("bitcoind_rpc")
  <2>1. \E x \in Bitcoind(g, k, n).services : Loopback(p) \in x[2].ports
    BY <1>1 DEF Bitcoind, Fragment, Daemon
  <2>2. \E x \in Emitted(g, k, n) : Loopback(p) \in x[2].ports
    BY <2>1, EmittedBy
  <2>3. QED
    BY <2>2, LoopbackOfEmitted
<1>2. CASE ~n.bitcoind.p2p_public /\ p = P("bitcoind_p2p")
  <2>1. \E x \in Bitcoind(g, k, n).services :
          \E q \in x[2].ports : q[1] = p /\ q[2] = n.bitcoind.p2p_public
    BY <1>2 DEF Bitcoind, Fragment, Daemon
  <2>2. n.bitcoind.p2p_public = FALSE
    BY <1>2 DEF IsNetworkCfg, BitcoindCfg
  <2>3. QED
    BY <2>1, <2>2, EmittedBy DEF Publishes
<1>3. CASE \E s \in DeployedRing(n) : p \in {LndPort(s, "rest"), LndPort(s, "grpc")}
  <2>1. PICK s \in DeployedRing(n) : p \in {LndPort(s, "rest"), LndPort(s, "grpc")}
    BY <1>3
  <2>2. <<s, LndNode(g, s)>> \in Lnd(g, k, n).services
    BY DEF Lnd, LndNodes, Fragment
  <2>3. <<p, FALSE>> \in LndNode(g, s).ports
    BY <2>1 DEF LndNode, Daemon, Loopback
  <2>4. <<s, LndNode(g, s)>> \in Emitted(g, k, n)
    BY <2>2, EmittedBy
  <2>5. QED
    BY <2>3, <2>4, PortOfEmitted
<1>4. CASE \E i \in DOMAIN EnabledIndexers(n) : p = <<"fulcrum_admin", i - 1>>
  <2>1. PICK i \in DOMAIN EnabledIndexers(n) : p = <<"fulcrum_admin", i - 1>>
    BY <1>4
  <2>2. <<EnabledIndexers(n)[i].name, Indexer(n, i)>> \in Emitted(g, k, n)
    BY FirstIndexer, EmittedBy
  <2>3. <<p, FALSE>> \in Indexer(n, i).ports
    BY <2>1 DEF Indexer, Daemon, Loopback
  <2>4. QED
    BY <2>2, <2>3, PortOfEmitted
<1>5. CASE n.cashu.enabled /\ p = P("cashu_backend")
  <2>1. \E x \in Cashu.services : Loopback(p) \in x[2].ports
    BY <1>5 DEF Cashu, Fragment, Daemon
  <2>2. \E x \in Emitted(g, k, n) : Loopback(p) \in x[2].ports
    BY <1>5, <2>1, EmittedBy
  <2>3. QED
    BY <2>2, LoopbackOfEmitted
<1>6. CASE n.cashu.enabled /\ n.cashu.wallet /\ p = P("cashu_wallet_backend")
  <2>1. \E x \in CashuWallet.services : Loopback(p) \in x[2].ports
    BY <1>6 DEF CashuWallet, Fragment, Daemon
  <2>2. \E x \in Emitted(g, k, n) : Loopback(p) \in x[2].ports
    BY <1>6, <2>1, EmittedBy
  <2>3. QED
    BY <2>2, LoopbackOfEmitted
<1>7. CASE \E i \in 1..GuardianCount(k, n) : p = <<"fedimintd_ui", i - 1>>
  <2>1. PICK i \in 1..GuardianCount(k, n) : p = <<"fedimintd_ui", i - 1>>
    BY <1>7
  <2>2. FedimintEnabled(k, n)
    BY <2>1 DEF GuardianCount
  <2>3. <<Guardians[i], Guardian(i)>> \in Fedimint(k, n).services
    BY DEF Fedimint, Fragment
  <2>4. <<p, FALSE>> \in Guardian(i).ports
    BY <2>1 DEF Guardian, Daemon, Loopback
  <2>5. <<Guardians[i], Guardian(i)>> \in Emitted(g, k, n)
    BY <2>2, <2>3, EmittedBy
  <2>6. QED
    BY <2>4, <2>5, PortOfEmitted
<1>8. CASE ArkEnabled(k, n) /\ p \in {P("ark_captaind_admin"), P("ark_cln_grpc")}
  <2>1. \E x \in Ark(n).services : Loopback(p) \in x[2].ports
    BY <1>8 DEF Ark, Fragment, Daemon
  <2>2. \E x \in Emitted(g, k, n) : Loopback(p) \in x[2].ports
    BY <1>8, <2>1, EmittedBy
  <2>3. QED
    BY <2>2, LoopbackOfEmitted
<1>9. CASE MempoolEnabled(k, n) /\ p = P("mempool_web")
  <2>1. \E x \in Mempool(n).services : Loopback(p) \in x[2].ports
    BY <1>9 DEF Mempool, Fragment, Daemon
  <2>2. \E x \in Emitted(g, k, n) : Loopback(p) \in x[2].ports
    BY <1>9, <2>1, EmittedBy
  <2>3. QED
    BY <2>2, LoopbackOfEmitted
<1>10. CASE n.cashupayserver.enabled /\ p = P("cashupayserver_backend")
  <2>1. \E x \in CashuPayServer.services : Loopback(p) \in x[2].ports
    BY <1>10 DEF CashuPayServer, Fragment, Daemon
  <2>2. \E x \in Emitted(g, k, n) : Loopback(p) \in x[2].ports
    BY <1>10, <2>1, EmittedBy
  <2>3. QED
    BY <2>2, LoopbackOfEmitted
<1>11. CASE n.woocommerce.enabled /\ p = P("woocommerce_backend")
  <2>1. \E x \in WooCommerce.services : Loopback(p) \in x[2].ports
    BY <1>11 DEF WooCommerce, Fragment, Daemon
  <2>2. \E x \in Emitted(g, k, n) : Loopback(p) \in x[2].ports
    BY <1>11, <2>1, EmittedBy
  <2>3. QED
    BY <2>2, LoopbackOfEmitted
<1>12. QED
  BY <1>1, <1>2, <1>3, <1>4, <1>5, <1>6, <1>7, <1>8, <1>9, <1>10, <1>11
  DEF LoopbackNames, OnlyIf

LEMMA SitesAre ==
  ASSUME NEW k, NEW n, NEW site
  PROVE  site \in NetworkSites(k, n) <=>
           \/ n.cashu.enabled /\ site = Site(P("cashu_public"), P("cashu_backend"), n.cashu.ssl)
           \/ /\ n.cashu.enabled /\ n.cashu.wallet
              /\ site = Site(P("cashu_wallet_public"), P("cashu_wallet_backend"), n.cashu.ssl)
           \/ \E i \in 0..(GuardianCount(k, n) - 1) :
                site \in {Site(<<"fedimintd_api_public", i>>, <<"fedimintd_api", i>>, TRUE),
                          Site(<<"gatewayd_api_public", i>>, <<"gatewayd_api", i>>, TRUE)}
           \/ /\ ArkEnabled(k, n)
              /\ site = Site(P("ark_captaind_public"), P("ark_captaind"), TRUE)
           \/ /\ RelayEnabled(n) /\ n.electrum.relay.public
              /\ site = Site(P("nostr_relay_public"), P("nostr_relay_backend"),
                             n.electrum.relay.ssl)
           \/ /\ MempoolEnabled(k, n)
              /\ site = Site(P("mempool_public"), P("mempool_web"), n.mempool.ssl)
           \/ /\ n.bitcart.enabled
              /\ \E f \in BitcartFronts : site = Site(P(FrontPort[f]), P(f), n.bitcart.ssl)
           \/ /\ n.cashupayserver.enabled
              /\ site = Site(P("cashupayserver_public"), P("cashupayserver_backend"),
                             n.cashupayserver.ssl)
           \/ /\ n.woocommerce.enabled
              /\ site = Site(P("woocommerce_public"), P("woocommerce_backend"),
                             n.woocommerce.ssl)
  BY Zenon DEF NetworkSites, OnlyIf

\* A site of the network: its public port, the port behind it and its setting.
Serves(k, n, pub, back, ssl) ==
  \/ /\ n.cashu.enabled
     /\ pub = P("cashu_public") /\ back = P("cashu_backend") /\ ssl = n.cashu.ssl
  \/ /\ n.cashu.enabled /\ n.cashu.wallet
     /\ pub = P("cashu_wallet_public") /\ back = P("cashu_wallet_backend") /\ ssl = n.cashu.ssl
  \/ \E i \in 0..(GuardianCount(k, n) - 1) :
          pub = <<"fedimintd_api_public", i>> /\ back = <<"fedimintd_api", i>> /\ ssl = TRUE
  \/ \E i \in 0..(GuardianCount(k, n) - 1) :
          pub = <<"gatewayd_api_public", i>> /\ back = <<"gatewayd_api", i>> /\ ssl = TRUE
  \/ /\ ArkEnabled(k, n)
     /\ pub = P("ark_captaind_public") /\ back = P("ark_captaind") /\ ssl = TRUE
  \/ /\ RelayEnabled(n) /\ n.electrum.relay.public
     /\ pub = P("nostr_relay_public") /\ back = P("nostr_relay_backend")
     /\ ssl = n.electrum.relay.ssl
  \/ /\ MempoolEnabled(k, n)
     /\ pub = P("mempool_public") /\ back = P("mempool_web") /\ ssl = n.mempool.ssl
  \/ /\ n.bitcart.enabled
     /\ \E f \in BitcartFronts :
          pub = P(FrontPort[f]) /\ back = P(f) /\ ssl = n.bitcart.ssl
  \/ /\ n.cashupayserver.enabled
     /\ pub = P("cashupayserver_public") /\ back = P("cashupayserver_backend")
     /\ ssl = n.cashupayserver.ssl
  \/ /\ n.woocommerce.enabled
     /\ pub = P("woocommerce_public") /\ back = P("woocommerce_backend")
     /\ ssl = n.woocommerce.ssl

LEMMA SitesServe ==
  ASSUME NEW k, NEW n, NEW site \in NetworkSites(k, n)
  PROVE  Serves(k, n, site.public, site.backend, site.ssl)
<1>2. CASE n.cashu.enabled /\ site = Site(P("cashu_public"), P("cashu_backend"), n.cashu.ssl)
  <2>1. site.public = P("cashu_public") /\ site.backend = P("cashu_backend")
        /\ site.ssl = n.cashu.ssl
    BY <1>2 DEF Site
  <2>2. QED
    BY <1>2, <2>1, Zenon DEF Serves
<1>3. CASE n.cashu.enabled /\ n.cashu.wallet
           /\ site = Site(P("cashu_wallet_public"), P("cashu_wallet_backend"), n.cashu.ssl)
  <2>1. site.public = P("cashu_wallet_public") /\ site.backend = P("cashu_wallet_backend")
        /\ site.ssl = n.cashu.ssl
    BY <1>3 DEF Site
  <2>2. QED
    BY <1>3, <2>1, Zenon DEF Serves
<1>4. CASE \E i \in 0..(GuardianCount(k, n) - 1) :
             site \in {Site(<<"fedimintd_api_public", i>>, <<"fedimintd_api", i>>, TRUE),
                       Site(<<"gatewayd_api_public", i>>, <<"gatewayd_api", i>>, TRUE)}
  <2>1. PICK i \in 0..(GuardianCount(k, n) - 1) :
             site \in {Site(<<"fedimintd_api_public", i>>, <<"fedimintd_api", i>>, TRUE),
                       Site(<<"gatewayd_api_public", i>>, <<"gatewayd_api", i>>, TRUE)}
    BY <1>4
  <2>2. \/ /\ site.public = <<"fedimintd_api_public", i>> /\ site.backend = <<"fedimintd_api", i>>
           /\ site.ssl = TRUE
        \/ /\ site.public = <<"gatewayd_api_public", i>> /\ site.backend = <<"gatewayd_api", i>>
           /\ site.ssl = TRUE
    BY <2>1 DEF Site
  <2>3. QED
    BY <2>2, Zenon DEF Serves
<1>6. CASE ArkEnabled(k, n) /\ site = Site(P("ark_captaind_public"), P("ark_captaind"), TRUE)
  <2>1. site.public = P("ark_captaind_public") /\ site.backend = P("ark_captaind")
        /\ site.ssl = TRUE
    BY <1>6 DEF Site
  <2>2. QED
    BY <1>6, <2>1, Zenon DEF Serves
<1>7. CASE RelayEnabled(n) /\ n.electrum.relay.public
           /\ site = Site(P("nostr_relay_public"), P("nostr_relay_backend"), n.electrum.relay.ssl)
  <2>1. site.public = P("nostr_relay_public") /\ site.backend = P("nostr_relay_backend")
        /\ site.ssl = n.electrum.relay.ssl
    BY <1>7 DEF Site
  <2>2. QED
    BY <1>7, <2>1, Zenon DEF Serves
<1>8. CASE MempoolEnabled(k, n)
           /\ site = Site(P("mempool_public"), P("mempool_web"), n.mempool.ssl)
  <2>1. site.public = P("mempool_public") /\ site.backend = P("mempool_web")
        /\ site.ssl = n.mempool.ssl
    BY <1>8 DEF Site
  <2>2. QED
    BY <1>8, <2>1, Zenon DEF Serves
<1>9. CASE n.bitcart.enabled
           /\ \E f \in BitcartFronts : site = Site(P(FrontPort[f]), P(f), n.bitcart.ssl)
  <2>1. PICK f \in BitcartFronts : site = Site(P(FrontPort[f]), P(f), n.bitcart.ssl)
    BY <1>9
  <2>2. site.public = P(FrontPort[f]) /\ site.backend = P(f) /\ site.ssl = n.bitcart.ssl
    BY <2>1 DEF Site
  <2>3. QED
    BY <1>9, <2>2, Zenon DEF Serves
<1>10. CASE n.cashupayserver.enabled
            /\ site = Site(P("cashupayserver_public"), P("cashupayserver_backend"),
                           n.cashupayserver.ssl)
  <2>1. site.public = P("cashupayserver_public")
        /\ site.backend = P("cashupayserver_backend") /\ site.ssl = n.cashupayserver.ssl
    BY <1>10 DEF Site
  <2>2. QED
    BY <1>10, <2>1, Zenon DEF Serves
<1>11. CASE n.woocommerce.enabled
            /\ site = Site(P("woocommerce_public"), P("woocommerce_backend"), n.woocommerce.ssl)
  <2>1. site.public = P("woocommerce_public") /\ site.backend = P("woocommerce_backend")
        /\ site.ssl = n.woocommerce.ssl
    BY <1>11 DEF Site
  <2>2. QED
    BY <1>11, <2>1, Zenon DEF Serves
<1>12.
      \/ n.cashu.enabled /\ site = Site(P("cashu_public"), P("cashu_backend"), n.cashu.ssl)
      \/ /\ n.cashu.enabled /\ n.cashu.wallet
         /\ site = Site(P("cashu_wallet_public"), P("cashu_wallet_backend"), n.cashu.ssl)
      \/ \E i \in 0..(GuardianCount(k, n) - 1) :
              site \in {Site(<<"fedimintd_api_public", i>>, <<"fedimintd_api", i>>, TRUE),
              Site(<<"gatewayd_api_public", i>>, <<"gatewayd_api", i>>, TRUE)}
      \/ /\ ArkEnabled(k, n)
         /\ site = Site(P("ark_captaind_public"), P("ark_captaind"), TRUE)
      \/ /\ RelayEnabled(n) /\ n.electrum.relay.public
         /\ site = Site(P("nostr_relay_public"), P("nostr_relay_backend"),
              n.electrum.relay.ssl)
      \/ /\ MempoolEnabled(k, n)
         /\ site = Site(P("mempool_public"), P("mempool_web"), n.mempool.ssl)
      \/ /\ n.bitcart.enabled
         /\ \E f \in BitcartFronts : site = Site(P(FrontPort[f]), P(f), n.bitcart.ssl)
      \/ /\ n.cashupayserver.enabled
         /\ site = Site(P("cashupayserver_public"), P("cashupayserver_backend"),
              n.cashupayserver.ssl)
      \/ /\ n.woocommerce.enabled
         /\ site = Site(P("woocommerce_public"), P("woocommerce_backend"),
              n.woocommerce.ssl)
  BY SitesAre, Zenon
<1>13. QED
  BY <1>2, <1>3, <1>4, <1>6, <1>7, <1>8, <1>9, <1>10, <1>11, <1>12, Zenon

LEMMA ServedSites ==
  ASSUME NEW k, NEW n, NEW pub, NEW back, NEW ssl, Serves(k, n, pub, back, ssl)
  PROVE  \E site \in NetworkSites(k, n) :
            site.public = pub /\ site.backend = back /\ site.ssl = ssl
<1>1. \A a, b, c : Site(a, b, c).public = a /\ Site(a, b, c).backend = b /\ Site(a, b, c).ssl = c
  BY DEF Site
<1>2. Site(pub, back, ssl) \in NetworkSites(k, n)
  BY SitesAre, ZenonT(60) DEF Serves
<1>3. QED
  BY <1>1, <1>2

LEMMA OpenAre ==
  ASSUME NEW k, NEW n, NEW p
  PROVE  p \in OpenNames(k, n) <=>
           \/ n.bitcoind.p2p_public /\ p = P("bitcoind_p2p")
           \/ p = P("lnd_p2p")
           \/ SecondaryEnabled(n) /\ p = P("lnd2_p2p")
           \/ TertiaryEnabled(n) /\ p = P("lnd3_p2p")
           \/ \E i \in DOMAIN EnabledIndexers(n) : p = <<"fulcrum_electrum_tcp", i - 1>>
           \/ n.cashu.enabled /\ p = P("cashu_public")
           \/ n.cashu.enabled /\ n.cashu.wallet /\ p = P("cashu_wallet_public")
           \/ \E i \in 0..(GuardianCount(k, n) - 1) :
                p \in {<<"fedimintd_api_public", i>>, <<"gatewayd_api_public", i>>}
           \/ ArkEnabled(k, n) /\ p \in {P("ark_captaind_public"), P("ark_cln_p2p")}
           \/ RelayEnabled(n) /\ n.electrum.relay.public /\ p = P("nostr_relay_public")
           \/ MempoolEnabled(k, n) /\ p = P("mempool_public")
           \/ n.bitcart.enabled /\ \E f \in BitcartFronts : p = P(FrontPort[f])
           \/ n.cashupayserver.enabled /\ p = P("cashupayserver_public")
           \/ n.woocommerce.enabled /\ p = P("woocommerce_public")
  BY ZenonT(60) DEF OpenNames, OnlyIf

LEMMA PublicAre ==
  ASSUME NEW k, NEW n, NEW p
  PROVE  p \in PublicNames(k, n) <=>
           \/ n.bitcoind.p2p_public /\ p = P("bitcoind_p2p")
           \/ p = P("lnd_p2p")
           \/ SecondaryEnabled(n) /\ p = P("lnd2_p2p")
           \/ TertiaryEnabled(n) /\ p = P("lnd3_p2p")
           \/ \E i \in DOMAIN EnabledIndexers(n) : p = <<"fulcrum_electrum_tcp", i - 1>>
           \/ ArkEnabled(k, n) /\ p = P("ark_cln_p2p")
<1>1. /\ LndPort("lnd", "p2p") = P("lnd_p2p")
      /\ LndPort("lnd2", "p2p") = P("lnd2_p2p")
      /\ LndPort("lnd3", "p2p") = P("lnd3_p2p")
  BY DEF LndPort, LndPortNames
<1>2. (\E s \in DeployedRing(n) : p = LndPort(s, "p2p")) <=>
        \/ p = P("lnd_p2p")
        \/ SecondaryEnabled(n) /\ p = P("lnd2_p2p")
        \/ TertiaryEnabled(n) /\ p = P("lnd3_p2p")
  BY <1>1 DEF DeployedRing
<1>3. QED
  BY <1>2, Zenon DEF PublicNames, OnlyIf

\* The names the firewall opens are the ones services publish to the world and the sites'.
LEMMA OpenExactly ==
  ASSUME NEW k, NEW n, NEW p
  PROVE  p \in OpenNames(k, n) <=>
           \/ p \in PublicNames(k, n)
           \/ \E site \in NetworkSites(k, n) : p = site.public
<1>1. \A pub, back, ssl : Site(pub, back, ssl).public = pub
  BY DEF Site
<1> DEFINE Fronted ==
             \/ n.cashu.enabled /\ p = P("cashu_public")
             \/ n.cashu.enabled /\ n.cashu.wallet /\ p = P("cashu_wallet_public")
             \/ \E i \in 0..(GuardianCount(k, n) - 1) :
                  p \in {<<"fedimintd_api_public", i>>, <<"gatewayd_api_public", i>>}
             \/ ArkEnabled(k, n) /\ p = P("ark_captaind_public")
             \/ RelayEnabled(n) /\ n.electrum.relay.public /\ p = P("nostr_relay_public")
             \/ MempoolEnabled(k, n) /\ p = P("mempool_public")
             \/ n.bitcart.enabled /\ \E f \in BitcartFronts : p = P(FrontPort[f])
             \/ n.cashupayserver.enabled /\ p = P("cashupayserver_public")
             \/ n.woocommerce.enabled /\ p = P("woocommerce_public")
<1>2. ASSUME NEW site \in NetworkSites(k, n), p = site.public
      PROVE  Fronted
  <2>1. Serves(k, n, p, site.backend, site.ssl)
    BY <1>2, SitesServe
  <2>2. QED
    BY <2>1, Zenon DEF Serves
<1>3. ASSUME Fronted
      PROVE  \E site \in NetworkSites(k, n) : p = site.public
  <2>1. \E back, ssl : Serves(k, n, p, back, ssl)
    BY <1>3, Zenon DEF Serves
  <2>2. QED
    BY <2>1, ServedSites
<1>4. p \in OpenNames(k, n) <=> p \in PublicNames(k, n) \/ Fronted
  BY OpenAre, PublicAre
<1>5. QED
  BY <1>2, <1>3, <1>4

LEMMA BlockBaseIsInt ==
  ASSUME NEW k \in Networks
  PROVE  BlockBase(k) \in Int
<1>1. DOMAIN NETWORK_ORDER = 1..7
  BY DEF NETWORK_ORDER
<1>2. \E i \in 1..7 : NETWORK_ORDER[i] = k
  BY <1>1, Zenon DEF Networks
<1> DEFINE place == CHOOSE i \in DOMAIN NETWORK_ORDER : NETWORK_ORDER[i] = k
<1>3. place \in 1..7
  BY <1>1, <1>2
<1>4. BlockBase(k) = NETWORK_BLOCK_BASE + NETWORK_BLOCK_SIZE * (place - 1)
  BY Zenon DEF BlockBase
<1> HIDE DEF place
<1>5. QED
  BY <1>3, <1>4 DEF NETWORK_BLOCK_BASE, NETWORK_BLOCK_SIZE

LEMMA OverAt ==
  ASSUME NEW f, NEW h, NEW p, p \notin DOMAIN f, p \in DOMAIN h
  PROVE  p \in DOMAIN Over(f, h) /\ Over(f, h)[p] = h[p]
  BY DEF Over

\* The base of the pool, when the operator has not moved it.
LEMMA PoolBase ==
  ASSUME NEW k \in Networks, NEW n, n.bitcart.enabled,
         P("bitcart_btclnd_p2p_base") \notin DOMAIN n.ports
  PROVE  NetworkPorts(k, n)[P("bitcart_btclnd_p2p_base")]
           = BlockBase(k) + BITCART_BTCLND_P2P_OFFSET
<1> DEFINE p == P("bitcart_btclnd_p2p_base")
           base == BlockBase(k)
           guardians == GuardianCount(k, n)
           Fixed == Strided(PORT_OFFSETS, 1, base, 0)
           Indexers == Strided([fulcrum_electrum_tcp |-> 0, fulcrum_electrum_ssl |-> 1,
                                fulcrum_admin |-> 2],
                               Len(EnabledIndexers(n)), base + FULCRUM_BASE, FULCRUM_STRIDE)
           Federation == Strided([fedimintd_api_public |-> 0, fedimintd_api |-> 1,
                                  fedimintd_ui |-> 2],
                                 guardians, base + FEDIMINT_GUARDIAN_BASE,
                                 FEDIMINT_GUARDIAN_STRIDE)
           Lnds == Strided([gatewayd_api |-> 0, gatewayd_api_public |-> 1],
                           guardians, base + FEDIMINT_GATEWAY_BASE, FEDIMINT_GATEWAY_STRIDE)
           Pools == Strided([bitcart_btclnd_p2p_base |-> BITCART_BTCLND_P2P_OFFSET,
                             bitcart_btclnd_grpc_base |-> BITCART_BTCLND_GRPC_OFFSET],
                            IF n.bitcart.enabled THEN 1 ELSE 0, base, 0)
<1>1. DefaultPorts(k, n) = Over(Fixed, Over(Indexers, Over(Federation, Over(Lnds, Pools))))
  BY Zenon DEF DefaultPorts
<1>2. p \notin DOMAIN Fixed
  BY DEF Strided, PORT_OFFSETS, P
<1>3. p \notin DOMAIN Indexers
  BY DEF Strided, P
<1>4. p \notin DOMAIN Federation
  BY DEF Strided, P
<1>5. p \notin DOMAIN Lnds
  BY DEF Strided, P
<1>6. p \in DOMAIN Pools /\ Pools[p] = base + BITCART_BTCLND_P2P_OFFSET
  <2>1. base \in Int
    BY BlockBaseIsInt
  <2> HIDE DEF base
  <2>2. p \in DOMAIN Pools /\ p[1] = "bitcart_btclnd_p2p_base" /\ p[2] = 0
    BY DEF Strided, P
  <2>3. Pools[p] = base + p[2] * 0 + BITCART_BTCLND_P2P_OFFSET
    BY <2>2 DEF Strided
  <2>4. QED
    BY <2>1, <2>2, <2>3 DEF BITCART_BTCLND_P2P_OFFSET
<1>7. p \notin DOMAIN BitcartOverrides(n)
  BY DEF BitcartOverrides, P
<1>16. p \notin DOMAIN n.ports
  OBVIOUS
<1> HIDE DEF p, Fixed, Indexers, Federation, Lnds, Pools
<1> DEFINE D1 == Over(Lnds, Pools)
           D2 == Over(Federation, D1)
           D3 == Over(Indexers, D2)
           D4 == Over(Fixed, D3)
           D5 == Over(BitcartOverrides(n), D4)
<1>8. DefaultPorts(k, n) = D4 /\ NetworkPorts(k, n) = Over(n.ports, D5)
  BY <1>1 DEF NetworkPorts
<1> HIDE DEF D4
<1>9. p \in DOMAIN D1 /\ D1[p] = Pools[p]
  BY <1>5, <1>6, OverAt
<1> HIDE DEF D1
<1>10. p \in DOMAIN D2 /\ D2[p] = Pools[p]
  BY <1>4, <1>9, OverAt
<1> HIDE DEF D2
<1>11. p \in DOMAIN D3 /\ D3[p] = Pools[p]
  BY <1>3, <1>10, OverAt
<1> HIDE DEF D3
<1>12. p \in DOMAIN D4 /\ D4[p] = Pools[p]
  BY <1>2, <1>11, OverAt DEF D4
<1>13. p \in DOMAIN D5 /\ D5[p] = Pools[p]
  BY <1>7, <1>12, OverAt
<1> HIDE DEF D5
<1>14. NetworkPorts(k, n)[p] = Pools[p]
  BY <1>8, <1>13, <1>16, OverAt
<1>15. QED
  BY <1>6, <1>14 DEF p, base

-----------------------------------------------------------------------------
(* Who listens.                                                            *)

\* What the rest asks of a configuration: no two services of one name, and a pool of
\* Bitcart's that starts where its base does.
Plain(c) ==
  /\ IsArgusConfig(c)
  /\ \A k \in EnabledNetworks(c) :
       /\ OwnNames(c.networks[k])
       /\ P("bitcart_btclnd_p2p_base") \notin DOMAIN c.networks[k].ports

\* Something listens on a port, to the world or to the loopback.
Bound(c, port, pub) == \E l \in Listeners(c) : l.port = port /\ l.public = pub

LEMMA NetworkOf ==
  ASSUME NEW c, Plain(c), NEW k \in EnabledNetworks(c)
  PROVE  /\ IsNetworkCfg(c.networks[k]) /\ OwnNames(c.networks[k])
         /\ k \in Networks
         /\ PortMap(c)[k] = NetworkPorts(k, c.networks[k])
  BY DEF Plain, IsArgusConfig, EnabledNetworks, PortMap

\* A port a service publishes.
LEMMA ServiceListens ==
  ASSUME NEW c, Plain(c), NEW k \in EnabledNetworks(c), NEW p, NEW pub,
         Publishes(c.global, k, c.networks[k], p, pub)
  PROVE  Bound(c, PortMap(c)[k][p], pub)
<1> DEFINE n == c.networks[k]
           services_ == Project(c.global, k, n).services
<1>1. PICK x \in Emitted(c.global, k, n) : \E q \in x[2].ports : q[1] = p /\ q[2] = pub
  BY DEF Publishes
<1>2. x[1] \in DOMAIN services_ /\ services_[x[1]].ports = x[2].ports
  BY NetworkOf, EmittedIsThere
<1>3. Listener(<<k, x[1]>>, PortMap(c)[k][p], pub) \in Published(c, k)
  <2> HIDE DEF services_
  <2>1. Published(c, k) =
          UNION {{Listener(<<k, s>>, PortMap(c)[k][q[1]], q[2]) : q \in services_[s].ports} :
                   s \in DOMAIN services_}
    BY DEF Published, services_
  <2>2. \E q \in services_[x[1]].ports : q[1] = p /\ q[2] = pub
    BY <1>1, <1>2
  <2>3. QED
    BY <1>2, <2>1, <2>2
<1>4. Published(c, k) \subseteq Listeners(c)
  BY DEF Listeners
<1>5. QED
  BY <1>3, <1>4 DEF Bound, Listener

\* And nothing else the services of the network publish.
LEMMA ServicesListen ==
  ASSUME NEW c, Plain(c), NEW k \in EnabledNetworks(c), NEW l \in Published(c, k)
  PROVE  \E p : /\ Publishes(c.global, k, c.networks[k], p, l.public)
                /\ l.port = PortMap(c)[k][p]
<1> DEFINE n == c.networks[k]
           services_ == Project(c.global, k, n).services
<1> HIDE DEF services_
<1>1. Published(c, k) =
        UNION {{Listener(<<k, s>>, PortMap(c)[k][q[1]], q[2]) : q \in services_[s].ports} :
                 s \in DOMAIN services_}
  BY DEF Published, services_
<1>2. PICK s \in DOMAIN services_ :
        \E q \in services_[s].ports : l = Listener(<<k, s>>, PortMap(c)[k][q[1]], q[2])
  BY <1>1
<1>7. PICK q \in services_[s].ports : l = Listener(<<k, s>>, PortMap(c)[k][q[1]], q[2])
  BY <1>2
<1>3. PICK x \in Emitted(c.global, k, n) : x[1] = s /\ services_[s] = x[2]
  BY ProjectServices DEF services_
<1>4. l.port = PortMap(c)[k][q[1]] /\ l.public = q[2]
  BY <1>7 DEF Listener
<1>5. Publishes(c.global, k, n, q[1], q[2])
  BY <1>3, <1>7 DEF Publishes
<1>6. QED
  BY <1>4, <1>5

LEMMA ListenerBinds ==
  ASSUME NEW c, NEW owner, NEW port, NEW pub, Listener(owner, port, pub) \in Listeners(c)
  PROVE  Bound(c, port, pub)
  BY DEF Bound, Listener

LEMMA ListenerIs ==
  ASSUME NEW owner, NEW port, NEW l
  PROVE  /\ l = Listener(owner, port, FALSE) => ~l.public
         /\ l = Listener(owner, port, TRUE) => l.port = port
  BY DEF Listener

LEMMA FrontListens ==
  ASSUME NEW c, NEW k \in EnabledNetworks(c), NEW site \in NetworkSites(k, c.networks[k])
  PROVE  Bound(c, PortMap(c)[k][site.public], TRUE)
<1>1. Listener(<<"caddy", site.public>>, PortMap(c)[k][site.public], TRUE) \in CaddyListeners(c)
  <2> DEFINE Of(j) == {Listener(<<"caddy", s.public>>, PortMap(c)[j][s.public], TRUE) :
                         s \in NetworkSites(j, c.networks[j])}
  <2>1. Listener(<<"caddy", site.public>>, PortMap(c)[k][site.public], TRUE) \in Of(k)
    OBVIOUS
  <2>2. UNION {Of(j) : j \in EnabledNetworks(c)} \subseteq CaddyListeners(c)
    BY Zenon DEF CaddyListeners
  <2> HIDE DEF Of
  <2>3. QED
    BY <2>1, <2>2
<1>2. QED
  BY <1>1, ListenerBinds DEF Listeners

LEMMA WebListens ==
  ASSUME NEW c
  PROVE  /\ c.web.enabled => Bound(c, WebPublicPort(c), TRUE)
         /\ c.web.enabled => Bound(c, WEB_BACKEND_PORT, FALSE)
         /\ OnionWebPathRouted(c) => Bound(c, ONION_WEB_BACKEND_PORT, FALSE)
<1>1. c.web.enabled => Listener(<<"caddy", P("dashboard")>>, WebPublicPort(c), TRUE) \in Listeners(c)
  BY Zenon DEF Listeners, CaddyListeners, FrontDoors, OnlyIf
<1>2. c.web.enabled => Listener(<<"web", "dashboard">>, WEB_BACKEND_PORT, FALSE) \in Listeners(c)
  BY Zenon DEF Listeners, WebListeners, OnlyIf
<1>3. OnionWebPathRouted(c) =>
        Listener(<<"caddy", P("onion")>>, ONION_WEB_BACKEND_PORT, FALSE) \in Listeners(c)
  BY Zenon DEF Listeners, CaddyListeners, FrontDoors, OnlyIf
<1>4. QED
  BY <1>1, <1>2, <1>3, ListenerBinds

LEMMA BitcartListens ==
  ASSUME NEW c, NEW k \in EnabledNetworks(c), c.networks[k].bitcart.enabled
  PROVE  /\ \A f \in BitcartFronts : Bound(c, PortMap(c)[k][P(f)], FALSE)
         /\ \A i \in 0..(c.networks[k].bitcart.btclnd_p2p_pool_size - 1) :
              Bound(c, BlockBase(k) + BITCART_BTCLND_P2P_OFFSET + i, TRUE)
<1>1. BitcartListeners(c, k) \subseteq Listeners(c)
  BY DEF Listeners
<1>2. \A f \in BitcartFronts :
        Listener(<<k, f>>, PortMap(c)[k][P(f)], FALSE) \in BitcartListeners(c, k)
  BY Zenon DEF BitcartListeners, PoolListeners, OnlyIf
<1>3. \A i \in 0..(c.networks[k].bitcart.btclnd_p2p_pool_size - 1) :
        Listener(<<k, "btclnd">>, BlockBase(k) + BITCART_BTCLND_P2P_OFFSET + i, TRUE)
          \in BitcartListeners(c, k)
  BY Zenon DEF BitcartListeners, PoolListeners, OnlyIf
<1>4. ASSUME NEW f \in BitcartFronts
      PROVE  Bound(c, PortMap(c)[k][P(f)], FALSE)
  BY <1>1, <1>2, ListenerBinds
<1>5. ASSUME NEW i \in 0..(c.networks[k].bitcart.btclnd_p2p_pool_size - 1)
      PROVE  Bound(c, BlockBase(k) + BITCART_BTCLND_P2P_OFFSET + i, TRUE)
  BY <1>1, <1>3, ListenerBinds
<1>6. QED
  BY <1>4, <1>5

\* The ports that are public, and whose they are.
LEMMA PublicListeners ==
  ASSUME NEW c, Plain(c), NEW l \in Listeners(c), l.public
  PROVE  \/ c.web.enabled /\ l.port = WebPublicPort(c)
         \/ \E k \in EnabledNetworks(c) : \E p \in OpenNames(k, c.networks[k]) :
              l.port = PortMap(c)[k][p]
         \/ \E k \in EnabledNetworks(c) :
              /\ c.networks[k].bitcart.enabled
              /\ \E i \in 0..(c.networks[k].bitcart.btclnd_p2p_pool_size - 1) :
                   l.port = BlockBase(k) + BITCART_BTCLND_P2P_OFFSET + i
<1>2. CASE \E k \in EnabledNetworks(c) : l \in Published(c, k)
  <2>1. PICK k \in EnabledNetworks(c) : l \in Published(c, k)
    BY <1>2
  <2>2. PICK p : /\ Publishes(c.global, k, c.networks[k], p, l.public)
                 /\ l.port = PortMap(c)[k][p]
    BY <2>1, ServicesListen
  <2>3. Publishes(c.global, k, c.networks[k], p, TRUE)
    BY <2>2 DEF Publishes
  <2>4. p \in OpenNames(k, c.networks[k])
    BY <2>3, OnlyThesePublic, OpenExactly
  <2>5. QED
    BY <2>2, <2>4
<1>3. CASE \E k \in EnabledNetworks(c) : l \in BitcartListeners(c, k)
  <2>1. PICK k \in EnabledNetworks(c) : l \in BitcartListeners(c, k)
    BY <1>3
  <2>2. /\ c.networks[k].bitcart.enabled
        /\ \/ \E f \in BitcartFronts : l = Listener(<<k, f>>, PortMap(c)[k][P(f)], FALSE)
           \/ \E i \in 0..(c.networks[k].bitcart.btclnd_p2p_pool_size - 1) :
                l = Listener(<<k, "btclnd">>, BlockBase(k) + BITCART_BTCLND_P2P_OFFSET + i, TRUE)
    BY <2>1, Zenon DEF BitcartListeners, PoolListeners, OnlyIf
  <2>3. PICK i \in 0..(c.networks[k].bitcart.btclnd_p2p_pool_size - 1) :
          l = Listener(<<k, "btclnd">>, BlockBase(k) + BITCART_BTCLND_P2P_OFFSET + i, TRUE)
    BY <2>2, ListenerIs
  <2>4. l.port = BlockBase(k) + BITCART_BTCLND_P2P_OFFSET + i
    BY <2>3, ListenerIs
  <2>5. QED
    BY <2>2, <2>4
<1>4. CASE l \in CaddyListeners(c)
  <2>1. \/ c.web.enabled /\ l = Listener(<<"caddy", P("dashboard")>>, WebPublicPort(c), TRUE)
        \/ l = Listener(<<"caddy", P("onion")>>, ONION_WEB_BACKEND_PORT, FALSE)
        \/ \E k \in EnabledNetworks(c) : \E site \in NetworkSites(k, c.networks[k]) :
             l = Listener(<<"caddy", site.public>>, PortMap(c)[k][site.public], TRUE)
    BY <1>4, Zenon DEF CaddyListeners, FrontDoors, OnlyIf
  <2>2. CASE \E k \in EnabledNetworks(c) : \E site \in NetworkSites(k, c.networks[k]) :
               l = Listener(<<"caddy", site.public>>, PortMap(c)[k][site.public], TRUE)
    <3>1. PICK k \in EnabledNetworks(c) : \E site \in NetworkSites(k, c.networks[k]) :
                 l = Listener(<<"caddy", site.public>>, PortMap(c)[k][site.public], TRUE)
      BY <2>2
    <3>2. PICK site \in NetworkSites(k, c.networks[k]) :
                 l = Listener(<<"caddy", site.public>>, PortMap(c)[k][site.public], TRUE)
      BY <3>1
    <3>3. site.public \in OpenNames(k, c.networks[k])
      BY OpenExactly
    <3>4. l.port = PortMap(c)[k][site.public]
      BY <3>2 DEF Listener
    <3>5. QED
      BY <3>3, <3>4
  <2>3. ~(l = Listener(<<"caddy", P("onion")>>, ONION_WEB_BACKEND_PORT, FALSE))
    BY ListenerIs
  <2>4. l = Listener(<<"caddy", P("dashboard")>>, WebPublicPort(c), TRUE) =>
           l.port = WebPublicPort(c)
    BY ListenerIs
  <2>5. QED
    BY <2>1, <2>2, <2>3, <2>4
<1>5. CASE l \in WebListeners(c) \cup TorListeners(c)
  <2>1. \/ l = Listener(<<"web", "dashboard">>, WEB_BACKEND_PORT, FALSE)
        \/ l = Listener(<<"web", "faucet">>, FAUCET_BACKEND_PORT, FALSE)
        \/ l = Listener(<<"tor", "socks">>, TOR_SOCKS_PORT, FALSE)
    BY <1>5, Zenon DEF WebListeners, TorListeners, OnlyIf
  <2>2. QED
    BY <2>1, ListenerIs
<1>6. QED
  BY <1>2, <1>3, <1>4, <1>5 DEF Listeners

\* A range by its offsets.
LEMMA RangeByOffset ==
  ASSUME NEW base \in Int, NEW size \in Int
  PROVE  \A port : port \in base..(base + size - 1) <=> \E i \in 0..(size - 1) : port = base + i
<1>1. ASSUME NEW port \in base..(base + size - 1)
      PROVE  \E i \in 0..(size - 1) : port = base + i
  <2>1. port - base \in 0..(size - 1) /\ port = base + (port - base)
    BY <1>1
  <2>2. QED
    BY <2>1
<1>2. QED
  BY <1>1


\* Every name the firewall opens is listened on by the world, and those of LoopbackNames
\* by the loopback.
LEMMA OpenListens ==
  ASSUME NEW c, Plain(c), NEW k \in EnabledNetworks(c), NEW p \in OpenNames(k, c.networks[k])
  PROVE  Bound(c, PortMap(c)[k][p], TRUE)
<1>1. CASE p \in PublicNames(k, c.networks[k])
  BY <1>1, NetworkOf, AllThesePublic, ServiceListens
<1>2. CASE \E site \in NetworkSites(k, c.networks[k]) : p = site.public
  BY <1>2, FrontListens
<1>3. \/ p \in PublicNames(k, c.networks[k])
      \/ \E site \in NetworkSites(k, c.networks[k]) : p = site.public
  BY OpenExactly
<1>4. QED
  BY <1>1, <1>2, <1>3

LEMMA LoopbackListens ==
  ASSUME NEW c, Plain(c), NEW k \in EnabledNetworks(c),
         NEW p \in LoopbackNames(k, c.networks[k])
  PROVE  Bound(c, PortMap(c)[k][p], FALSE)
  BY NetworkOf, AllTheseLoopback, ServiceListens

\* The firewall opens what listens to the world, and what it opens listens to the world or is
\* ssh or one of the two web ports.
LEMMA FirewallAgrees ==
  ASSUME NEW c, Plain(c)
  PROVE  /\ \A l \in Listeners(c) : l.public => l.port \in FirewallRules(c)
         /\ \A port \in FirewallRules(c) : port \in StandingRules(c) \/ Bound(c, port, TRUE)
         /\ SocksOpenToContainers(c) => SocksRule(c)
<1>1. ASSUME NEW k \in EnabledNetworks(c), c.networks[k].bitcart.enabled, NEW port
      PROVE  LET base == PortMap(c)[k][P("bitcart_btclnd_p2p_base")]
                 size == c.networks[k].bitcart.btclnd_p2p_pool_size
             IN port \in base..(base + size - 1) <=>
                  \E i \in 0..(size - 1) : port = BlockBase(k) + BITCART_BTCLND_P2P_OFFSET + i
  <2> DEFINE base == BlockBase(k) + BITCART_BTCLND_P2P_OFFSET
             size == c.networks[k].bitcart.btclnd_p2p_pool_size
  <2>1. PortMap(c)[k][P("bitcart_btclnd_p2p_base")] = base
    BY <1>1, NetworkOf, PoolBase DEF Plain
  <2>2. base \in Int
    BY NetworkOf, BlockBaseIsInt DEF BITCART_BTCLND_P2P_OFFSET
  <2>3. c.networks[k].bitcart \in BitcartCfg
    BY NetworkOf DEF IsNetworkCfg
  <2>4. size \in Int
    BY <2>3 DEF BitcartCfg
  <2> HIDE DEF base, size
  <2>5. port \in base..(base + size - 1) <=> \E i \in 0..(size - 1) : port = base + i
    BY <2>2, <2>4, RangeByOffset
  <2>6. QED
    BY <2>1, <2>5 DEF base, size
<1>2. ASSUME NEW l \in Listeners(c), l.public
      PROVE  l.port \in FirewallRules(c)
  <2>1. CASE c.web.enabled /\ l.port = WebPublicPort(c)
    BY <2>1, Zenon DEF FirewallRules, OnlyIf
  <2>2. ASSUME NEW k \in EnabledNetworks(c),
               l.port \in NetworkRules(k, c.networks[k], PortMap(c)[k])
        PROVE  l.port \in FirewallRules(c)
    BY <2>2, Zenon DEF FirewallRules
  <2>3. ASSUME NEW k \in EnabledNetworks(c), NEW p \in OpenNames(k, c.networks[k]),
               l.port = PortMap(c)[k][p]
        PROVE  l.port \in NetworkRules(k, c.networks[k], PortMap(c)[k])
    BY <2>3, Zenon DEF NetworkRules
  <2>4. ASSUME NEW k \in EnabledNetworks(c), c.networks[k].bitcart.enabled,
               NEW i \in 0..(c.networks[k].bitcart.btclnd_p2p_pool_size - 1),
               l.port = BlockBase(k) + BITCART_BTCLND_P2P_OFFSET + i
        PROVE  l.port \in NetworkRules(k, c.networks[k], PortMap(c)[k])
    BY <1>1, <2>4, Zenon DEF NetworkRules, OnlyIf
  <2>5. QED
    BY <1>2, <2>1, <2>2, <2>3, <2>4, PublicListeners
<1>3. ASSUME NEW port \in FirewallRules(c), port \notin StandingRules(c)
      PROVE  Bound(c, port, TRUE)
  <2>1. CASE c.web.enabled /\ port = WebPublicPort(c)
    BY <2>1, WebListens
  <2>2. CASE \E k \in EnabledNetworks(c) : port \in NetworkRules(k, c.networks[k], PortMap(c)[k])
    <3>1. PICK k \in EnabledNetworks(c) : port \in NetworkRules(k, c.networks[k], PortMap(c)[k])
      BY <2>2
    <3>2. CASE \E p \in OpenNames(k, c.networks[k]) : port = PortMap(c)[k][p]
      BY <3>2, OpenListens
    <3>3. CASE ~\E p \in OpenNames(k, c.networks[k]) : port = PortMap(c)[k][p]
      <4>1. /\ c.networks[k].bitcart.enabled
            /\ port \in PortMap(c)[k][P("bitcart_btclnd_p2p_base")]
                          .. (PortMap(c)[k][P("bitcart_btclnd_p2p_base")]
                                + c.networks[k].bitcart.btclnd_p2p_pool_size - 1)
        BY <3>1, <3>3, Zenon DEF NetworkRules, OnlyIf
      <4>2. PICK i \in 0..(c.networks[k].bitcart.btclnd_p2p_pool_size - 1) :
              port = BlockBase(k) + BITCART_BTCLND_P2P_OFFSET + i
        BY <1>1, <4>1, Zenon
      <4>3. Bound(c, BlockBase(k) + BITCART_BTCLND_P2P_OFFSET + i, TRUE)
        BY <4>1, BitcartListens, Zenon
      <4>4. QED
        BY <4>2, <4>3, Zenon
    <3>4. QED
      BY <3>2, <3>3
  <2>3. QED
    BY <1>3, <2>1, <2>2, Zenon DEF FirewallRules, OnlyIf
<1>4. SocksOpenToContainers(c) => SocksRule(c)
  BY DEF SocksOpenToContainers, SocksRule
<1>5. QED
  BY <1>2, <1>3, <1>4

-----------------------------------------------------------------------------
(* The onion's routes and the rows.                                        *)

LEMMA NamesOfLoopback ==
  ASSUME NEW k, NEW n
  PROVE  /\ P("bitcoind_rpc") \in LoopbackNames(k, n)
         /\ ~n.bitcoind.p2p_public => P("bitcoind_p2p") \in LoopbackNames(k, n)
         /\ \A s \in DeployedRing(n) : {LndPort(s, "rest"), LndPort(s, "grpc")}
                                         \subseteq LoopbackNames(k, n)
         /\ \A i \in DOMAIN EnabledIndexers(n) :
            <<"fulcrum_admin", i - 1>> \in LoopbackNames(k, n)
         /\ n.cashu.enabled => P("cashu_backend") \in LoopbackNames(k, n)
         /\ n.cashu.enabled /\ n.cashu.wallet => P("cashu_wallet_backend") \in LoopbackNames(k, n)
         /\ \A i \in 1..GuardianCount(k, n) : <<"fedimintd_ui", i - 1>> \in LoopbackNames(k, n)
         /\ ArkEnabled(k, n) => {P("ark_captaind_admin"), P("ark_cln_grpc")}
                                  \subseteq LoopbackNames(k, n)
         /\ MempoolEnabled(k, n) => P("mempool_web") \in LoopbackNames(k, n)
         /\ n.cashupayserver.enabled => P("cashupayserver_backend") \in LoopbackNames(k, n)
         /\ n.woocommerce.enabled => P("woocommerce_backend") \in LoopbackNames(k, n)
  BY DEF LoopbackNames, OnlyIf

LEMMA NamesOfOpen ==
  ASSUME NEW k, NEW n
  PROVE  /\ n.bitcoind.p2p_public => P("bitcoind_p2p") \in OpenNames(k, n)
         /\ \A s \in DeployedRing(n) : LndPort(s, "p2p") \in OpenNames(k, n)
         /\ \A i \in DOMAIN EnabledIndexers(n) :
              <<"fulcrum_electrum_tcp", i - 1>> \in OpenNames(k, n)
         /\ n.cashu.enabled => P("cashu_public") \in OpenNames(k, n)
         /\ n.cashu.enabled /\ n.cashu.wallet => P("cashu_wallet_public") \in OpenNames(k, n)
         /\ \A i \in 0..(GuardianCount(k, n) - 1) :
              {<<"fedimintd_api_public", i>>, <<"gatewayd_api_public", i>>}
                \subseteq OpenNames(k, n)
         /\ ArkEnabled(k, n) =>
            {P("ark_captaind_public"), P("ark_cln_p2p")} \subseteq OpenNames(k, n)
         /\ MempoolEnabled(k, n) => P("mempool_public") \in OpenNames(k, n)
         /\ n.bitcart.enabled => \A f \in BitcartFronts : P(FrontPort[f]) \in OpenNames(k, n)
         /\ n.cashupayserver.enabled => P("cashupayserver_public") \in OpenNames(k, n)
         /\ n.woocommerce.enabled => P("woocommerce_public") \in OpenNames(k, n)
<1>1. \A s \in DeployedRing(n) : LndPort(s, "p2p") \in PublicNames(k, n)
  BY DEF PublicNames
<1>2. \A s \in DeployedRing(n) : LndPort(s, "p2p") \in OpenNames(k, n)
  BY <1>1, OpenExactly
<1>3. QED
  BY <1>2, OpenAre

\* A route of a network leads from an open port to that port or to one bound on the host.
LEMMA RoutesLead ==
  ASSUME NEW g, NEW k, NEW n, NEW r \in NetworkRoutes(g, k, n)
  PROVE  /\ r.virtual \in OpenNames(k, n)
         /\ \/ r.target \in OpenNames(k, n) \cup LoopbackNames(k, n)
            \/ n.bitcart.enabled /\ \E f \in BitcartFronts : r.target = P(f)
<1>1. \/ n.cashu.enabled /\ r = Route(P("cashu_public"), P("cashu_backend"))
      \/ /\ n.cashu.enabled /\ n.cashu.wallet
         /\ r = Route(P("cashu_wallet_public"), P("cashu_wallet_backend"))
      \/ MempoolEnabled(k, n) /\ r = Route(P("mempool_public"), P("mempool_web"))
      \/ n.bitcart.enabled /\ \E f \in BitcartFronts : r = Route(P(FrontPort[f]), P(f))
      \/ /\ n.cashupayserver.enabled
         /\ r = Route(P("cashupayserver_public"), P("cashupayserver_backend"))
      \/ n.woocommerce.enabled /\ r = Route(P("woocommerce_public"), P("woocommerce_backend"))
      \/ \E i \in DOMAIN EnabledIndexers(n) : r = Straight(<<"fulcrum_electrum_tcp", i - 1>>)
      \/ r = Straight(P("lnd_p2p"))
      \/ SecondaryEnabled(n) /\ r = Straight(P("lnd2_p2p"))
      \/ TertiaryEnabled(n) /\ r = Straight(P("lnd3_p2p"))
      \/ n.bitcoind.p2p_public /\ r = Straight(P("bitcoind_p2p"))
  BY ZenonT(60) DEF NetworkRoutes, OnlyIf
<1>2. CASE \E p \in OpenNames(k, n) : r = Straight(p)
  BY <1>2 DEF Straight, Route
<1>3. CASE n.bitcart.enabled /\ \E f \in BitcartFronts : r = Route(P(FrontPort[f]), P(f))
  <2>1. PICK f \in BitcartFronts : r = Route(P(FrontPort[f]), P(f))
    BY <1>3
  <2>2. r.virtual = P(FrontPort[f]) /\ r.target = P(f)
    BY <2>1 DEF Route
  <2>3. QED
    BY <1>3, <2>2, NamesOfOpen
<1>4. CASE \E p \in OpenNames(k, n), q \in LoopbackNames(k, n) : r = Route(p, q)
  BY <1>4 DEF Route
<1>5. \/ \E p \in OpenNames(k, n) : r = Straight(p)
      \/ n.bitcart.enabled /\ \E f \in BitcartFronts : r = Route(P(FrontPort[f]), P(f))
      \/ \E p \in OpenNames(k, n), q \in LoopbackNames(k, n) : r = Route(p, q)
  BY <1>1, NamesOfOpen, NamesOfLoopback, OpenAre
<1>6. QED
  BY <1>2, <1>3, <1>4, <1>5

\* Every route of the onion leads from a public port, or the dashboard's, to a bound one.
LEMMA OnionAgrees ==
  ASSUME NEW c, Plain(c), NEW r \in OnionRoutes(c)
  PROVE  /\ \E pub : Bound(c, r.target, pub)
         /\ Bound(c, r.virtual, TRUE) \/ r.virtual = DASHBOARD_ONION_PORT
<1>1. CASE /\ c.web.enabled
           /\ r = Route(DASHBOARD_ONION_PORT, IF OnionWebPathRouted(c) THEN ONION_WEB_BACKEND_PORT
                                                                      ELSE WEB_BACKEND_PORT)
  <2>1. /\ r.virtual = DASHBOARD_ONION_PORT
        /\ OnionWebPathRouted(c) => r.target = ONION_WEB_BACKEND_PORT
        /\ ~OnionWebPathRouted(c) => r.target = WEB_BACKEND_PORT
    BY <1>1 DEF Route
  <2>2. QED
    BY <1>1, <2>1, WebListens
<1>2. ASSUME NEW k \in EnabledNetworks(c), NEW s \in NetworkRoutes(c.global, k, c.networks[k]),
             r = Route(PortMap(c)[k][s.virtual], PortMap(c)[k][s.target])
      PROVE  (\E pub : Bound(c, r.target, pub)) /\ Bound(c, r.virtual, TRUE)
  <2>1. r.virtual = PortMap(c)[k][s.virtual] /\ r.target = PortMap(c)[k][s.target]
    BY <1>2 DEF Route
  <2>2. Bound(c, r.virtual, TRUE)
    BY <2>1, RoutesLead, OpenListens
  <2>3. s.target \in OpenNames(k, c.networks[k]) => Bound(c, r.target, TRUE)
    BY <2>1, OpenListens
  <2>4. s.target \in LoopbackNames(k, c.networks[k]) => Bound(c, r.target, FALSE)
    BY <2>1, LoopbackListens
  <2>5. /\ c.networks[k].bitcart.enabled
        /\ \E f \in BitcartFronts : s.target = P(f)
        => Bound(c, r.target, FALSE)
    BY <2>1, BitcartListens
  <2>6. \E pub : Bound(c, r.target, pub)
    BY <2>3, <2>4, <2>5, RoutesLead
  <2>7. QED
    BY <2>2, <2>6
<1>3. \/ /\ c.web.enabled
         /\ r = Route(DASHBOARD_ONION_PORT, IF OnionWebPathRouted(c) THEN ONION_WEB_BACKEND_PORT
                                                                    ELSE WEB_BACKEND_PORT)
      \/ \E k \in EnabledNetworks(c) : \E s \in NetworkRoutes(c.global, k, c.networks[k]) :
           r = Route(PortMap(c)[k][s.virtual], PortMap(c)[k][s.target])
  BY Zenon DEF OnionRoutes, OnlyIf
<1>4. QED
  BY <1>1, <1>2, <1>3

\* A row's port is shown as it is bound.
Shown(k, n, p) ==
  \/ p[1] \in OpenNames(k, n) /\ p[2] = TRUE
  \/ p[1] \in LoopbackNames(k, n) /\ p[2] = FALSE

LEMMA ShownEither ==
  ASSUME NEW k, NEW n, NEW name
  PROVE  /\ name \in OpenNames(k, n) => Shown(k, n, Public(name))
         /\ name \in LoopbackNames(k, n) => Shown(k, n, Loopback(name))
  BY Sides DEF Shown

LEMMA RowHas ==
  ASSUME NEW bucket, NEW ports
  PROVE  Row(bucket, ports).ports = ports
  BY DEF Row

LEMMA NodeRowsShow ==
  ASSUME NEW k, NEW n, IsNetworkCfg(n), NEW row \in NodeRows(k, n), NEW p \in row.ports
  PROVE  Shown(k, n, p)
<1>1. \/ row = Row("bitcoind", {<<P("bitcoind_p2p"), n.bitcoind.p2p_public>>,
                                Loopback(P("bitcoind_rpc"))})
      \/ row = Row("miner", {})
      \/ \E s \in DeployedRing(n) : row = LndRow(s)
      \/ row = Row("faucet", {})
      \/ \E i \in DOMAIN EnabledIndexers(n) :
           row = Row(EnabledIndexers(n)[i].name, {Public(<<"fulcrum_electrum_tcp", i - 1>>),
                                                  Loopback(<<"fulcrum_admin", i - 1>>)})
  BY ZenonT(60) DEF NodeRows, OnlyIf
<1>2. CASE row = Row("bitcoind", {<<P("bitcoind_p2p"), n.bitcoind.p2p_public>>,
                                  Loopback(P("bitcoind_rpc"))})
  <2>1. p = <<P("bitcoind_p2p"), n.bitcoind.p2p_public>> \/ p = Loopback(P("bitcoind_rpc"))
    BY <1>2, RowHas
  <2>2. n.bitcoind.p2p_public \in BOOLEAN
    BY DEF IsNetworkCfg, BitcoindCfg
  <2>3. CASE p = <<P("bitcoind_p2p"), n.bitcoind.p2p_public>>
    <3>1. p[1] = P("bitcoind_p2p") /\ p[2] = n.bitcoind.p2p_public
      BY <2>3
    <3>2. CASE n.bitcoind.p2p_public = TRUE
      BY <3>1, <3>2, NamesOfOpen DEF Shown
    <3>3. CASE n.bitcoind.p2p_public = FALSE
      BY <3>1, <3>3, NamesOfLoopback DEF Shown
    <3>4. QED
      BY <2>2, <3>2, <3>3
  <2>4. CASE p = Loopback(P("bitcoind_rpc"))
    BY <2>4, ShownEither, NamesOfLoopback
  <2>5. QED
    BY <2>1, <2>3, <2>4
<1>3. CASE row = Row("miner", {}) \/ row = Row("faucet", {})
  BY <1>3, RowHas
<1>4. CASE \E s \in DeployedRing(n) : row = LndRow(s)
  <2>1. PICK s \in DeployedRing(n) : row = LndRow(s)
    BY <1>4
  <2>2. \/ p = Public(LndPort(s, "p2p"))
        \/ p = Loopback(LndPort(s, "rest"))
        \/ p = Loopback(LndPort(s, "grpc"))
    BY <2>1, RowHas DEF LndRow
  <2>3. /\ LndPort(s, "p2p") \in OpenNames(k, n)
        /\ LndPort(s, "rest") \in LoopbackNames(k, n)
        /\ LndPort(s, "grpc") \in LoopbackNames(k, n)
    BY NamesOfOpen, NamesOfLoopback
  <2>4. QED
    BY <2>2, <2>3, ShownEither
<1>5. CASE \E i \in DOMAIN EnabledIndexers(n) :
             row = Row(EnabledIndexers(n)[i].name, {Public(<<"fulcrum_electrum_tcp", i - 1>>),
                                                    Loopback(<<"fulcrum_admin", i - 1>>)})
  <2>1. PICK i \in DOMAIN EnabledIndexers(n) :
               row = Row(EnabledIndexers(n)[i].name, {Public(<<"fulcrum_electrum_tcp", i - 1>>),
                                                      Loopback(<<"fulcrum_admin", i - 1>>)})
    BY <1>5
  <2>2. p = Public(<<"fulcrum_electrum_tcp", i - 1>>) \/ p = Loopback(<<"fulcrum_admin", i - 1>>)
    BY <2>1, RowHas
  <2>3. /\ <<"fulcrum_electrum_tcp", i - 1>> \in OpenNames(k, n)
        /\ <<"fulcrum_admin", i - 1>> \in LoopbackNames(k, n)
    BY NamesOfOpen, NamesOfLoopback
  <2>4. QED
    BY <2>2, <2>3, ShownEither
<1>6. QED
  BY <1>1, <1>2, <1>3, <1>4, <1>5

LEMMA GuardianBefore ==
  ASSUME NEW k, NEW n, IsNetworkCfg(n), NEW i \in 1..GuardianCount(k, n)
  PROVE  i - 1 \in 0..(GuardianCount(k, n) - 1)
<1>1. GuardianCount(k, n) \in Int
  BY DEF GuardianCount, IsNetworkCfg, FedimintCfg
<1>2. QED
  BY <1>1

LEMMA ToolRowsShow ==
  ASSUME NEW k, NEW n, IsNetworkCfg(n), NEW row \in ToolRows(k, n), NEW p \in row.ports
  PROVE  Shown(k, n, p)
<1>1. \/ n.cashu.enabled /\ row = Row("cashu", {Public(P("cashu_public"))})
      \/ /\ n.cashu.enabled /\ n.cashu.wallet
         /\ row = Row("cashu-wallet", {Public(P("cashu_wallet_public"))})
      \/ \E i \in 1..GuardianCount(k, n) :
           \/ row = Row(Guardians[i], {Public(<<"fedimintd_api_public", i - 1>>),
                                       Loopback(<<"fedimintd_ui", i - 1>>)})
           \/ row = Row(Gateways[i], {Public(<<"gatewayd_api_public", i - 1>>)})
      \/ /\ ArkEnabled(k, n)
         /\ \/ row = Row("captaind", {Public(P("ark_captaind_public")),
                                      Loopback(P("ark_captaind_admin"))})
            \/ row = Row("cln", {Public(P("ark_cln_p2p")), Loopback(P("ark_cln_grpc"))})
  BY ZenonT(60) DEF ToolRows, OnlyIf
<1>2. CASE n.cashu.enabled /\ row = Row("cashu", {Public(P("cashu_public"))})
  <2>1. p = Public(P("cashu_public"))
    BY <1>2, RowHas
  <2>2. QED
    BY <1>2, <2>1, ShownEither, NamesOfOpen
<1>3. CASE /\ n.cashu.enabled /\ n.cashu.wallet
           /\ row = Row("cashu-wallet", {Public(P("cashu_wallet_public"))})
  <2>1. p = Public(P("cashu_wallet_public"))
    BY <1>3, RowHas
  <2>2. QED
    BY <1>3, <2>1, ShownEither, NamesOfOpen
<1>4. CASE \E i \in 1..GuardianCount(k, n) :
             \/ row = Row(Guardians[i], {Public(<<"fedimintd_api_public", i - 1>>),
                                         Loopback(<<"fedimintd_ui", i - 1>>)})
             \/ row = Row(Gateways[i], {Public(<<"gatewayd_api_public", i - 1>>)})
  <2>1. PICK i \in 1..GuardianCount(k, n) :
             \/ row = Row(Guardians[i], {Public(<<"fedimintd_api_public", i - 1>>),
                                         Loopback(<<"fedimintd_ui", i - 1>>)})
             \/ row = Row(Gateways[i], {Public(<<"gatewayd_api_public", i - 1>>)})
    BY <1>4
  <2>2. \/ p = Public(<<"fedimintd_api_public", i - 1>>)
        \/ p = Loopback(<<"fedimintd_ui", i - 1>>)
        \/ p = Public(<<"gatewayd_api_public", i - 1>>)
    BY <2>1, RowHas
  <2>3. /\ {<<"fedimintd_api_public", i - 1>>, <<"gatewayd_api_public", i - 1>>}
             \subseteq OpenNames(k, n)
        /\ <<"fedimintd_ui", i - 1>> \in LoopbackNames(k, n)
    BY GuardianBefore, NamesOfOpen, NamesOfLoopback
  <2>4. QED
    BY <2>2, <2>3, ShownEither
<1>5. CASE /\ ArkEnabled(k, n)
           /\ \/ row = Row("captaind", {Public(P("ark_captaind_public")),
                                        Loopback(P("ark_captaind_admin"))})
              \/ row = Row("cln", {Public(P("ark_cln_p2p")), Loopback(P("ark_cln_grpc"))})
  <2>1. \/ p = Public(P("ark_captaind_public")) \/ p = Loopback(P("ark_captaind_admin"))
        \/ p = Public(P("ark_cln_p2p")) \/ p = Loopback(P("ark_cln_grpc"))
    BY <1>5, RowHas
  <2>2. /\ {P("ark_captaind_public"), P("ark_cln_p2p")} \subseteq OpenNames(k, n)
        /\ {P("ark_captaind_admin"), P("ark_cln_grpc")} \subseteq LoopbackNames(k, n)
    BY <1>5, NamesOfOpen, NamesOfLoopback
  <2>3. QED
    BY <2>1, <2>2, ShownEither
<1>6. QED
  BY <1>1, <1>2, <1>3, <1>4, <1>5

LEMMA ShopRowsShow ==
  ASSUME NEW k, NEW n, NEW row \in ShopRows(k, n), NEW p \in row.ports
  PROVE  Shown(k, n, p)
<1>1. \/ MempoolEnabled(k, n) /\ row = Row("mempool", {Public(P("mempool_public"))})
      \/ /\ n.bitcart.enabled
         /\ row = Row("bitcart", {Public(P(FrontPort[f])) : f \in BitcartFronts})
      \/ /\ n.cashupayserver.enabled
         /\ row = Row("cashupayserver", {Public(P("cashupayserver_public"))})
      \/ n.woocommerce.enabled /\ row = Row("woocommerce", {Public(P("woocommerce_public"))})
  BY ZenonT(60) DEF ShopRows, OnlyIf
<1>2. \/ MempoolEnabled(k, n) /\ p = Public(P("mempool_public"))
      \/ n.bitcart.enabled /\ \E f \in BitcartFronts : p = Public(P(FrontPort[f]))
      \/ n.cashupayserver.enabled /\ p = Public(P("cashupayserver_public"))
      \/ n.woocommerce.enabled /\ p = Public(P("woocommerce_public"))
  BY <1>1, RowHas
<1>3. \E name \in OpenNames(k, n) : p = Public(name)
  BY <1>2, NamesOfOpen
<1>4. QED
  BY <1>3, ShownEither

\* What a row shows is an open name as open, or a bound one as closed.
LEMMA RowsShow ==
  ASSUME NEW k, NEW n, IsNetworkCfg(n), NEW row \in ServiceRows(k, n), NEW p \in row.ports
  PROVE  Shown(k, n, p)
  BY NodeRowsShow, ToolRowsShow, ShopRowsShow DEF ServiceRows

LEMMA RowsAgree ==
  ASSUME NEW c, Plain(c), NEW k \in EnabledNetworks(c),
         NEW row \in ServiceRows(k, c.networks[k]), NEW p \in row.ports
  PROVE  Bound(c, PortMap(c)[k][p[1]], p[2])
<1>1. Shown(k, c.networks[k], p)
  BY NetworkOf, RowsShow
<1>2. CASE p[1] \in OpenNames(k, c.networks[k]) /\ p[2] = TRUE
  BY <1>2, OpenListens
<1>3. CASE p[1] \in LoopbackNames(k, c.networks[k]) /\ p[2] = FALSE
  BY <1>3, LoopbackListens
<1>4. QED
  BY <1>1, <1>2, <1>3 DEF Shown

-----------------------------------------------------------------------------
(* The addresses handed out.                                               *)

\* A site of Caddy's that k serves at pub, over https if ssl and the installation say so.
Fronted(k, n, pub, ssl) == \E back : Serves(k, n, pub, back, ssl)

LEMMA FrontedSites ==
  ASSUME NEW k, NEW n
  PROVE  /\ n.cashu.enabled => Fronted(k, n, P("cashu_public"), n.cashu.ssl)
         /\ n.cashu.enabled /\ n.cashu.wallet =>
              Fronted(k, n, P("cashu_wallet_public"), n.cashu.ssl)
         /\ \A i \in 0..(GuardianCount(k, n) - 1) :
              Fronted(k, n, <<"gatewayd_api_public", i>>, TRUE)
         /\ ArkEnabled(k, n) => Fronted(k, n, P("ark_captaind_public"), TRUE)
         /\ MempoolEnabled(k, n) => Fronted(k, n, P("mempool_public"), n.mempool.ssl)
         /\ n.bitcart.enabled =>
              \A f \in BitcartFronts : Fronted(k, n, P(FrontPort[f]), n.bitcart.ssl)
         /\ n.cashupayserver.enabled =>
              Fronted(k, n, P("cashupayserver_public"), n.cashupayserver.ssl)
         /\ n.woocommerce.enabled =>
              Fronted(k, n, P("woocommerce_public"), n.woocommerce.ssl)
<1>1. n.cashu.enabled => Fronted(k, n, P("cashu_public"), n.cashu.ssl)
  BY Zenon DEF Fronted, Serves
<1>2. n.cashu.enabled /\ n.cashu.wallet => Fronted(k, n, P("cashu_wallet_public"), n.cashu.ssl)
  BY Zenon DEF Fronted, Serves
<1>3. \A i \in 0..(GuardianCount(k, n) - 1) : Fronted(k, n, <<"gatewayd_api_public", i>>, TRUE)
  BY Zenon DEF Fronted, Serves
<1>4. ArkEnabled(k, n) => Fronted(k, n, P("ark_captaind_public"), TRUE)
  BY Zenon DEF Fronted, Serves
<1>5. MempoolEnabled(k, n) => Fronted(k, n, P("mempool_public"), n.mempool.ssl)
  BY Zenon DEF Fronted, Serves
<1>6. n.bitcart.enabled =>
        \A f \in BitcartFronts : Fronted(k, n, P(FrontPort[f]), n.bitcart.ssl)
  BY Zenon DEF Fronted, Serves
<1>7. n.cashupayserver.enabled =>
        Fronted(k, n, P("cashupayserver_public"), n.cashupayserver.ssl)
  BY Zenon DEF Fronted, Serves
<1>8. n.woocommerce.enabled => Fronted(k, n, P("woocommerce_public"), n.woocommerce.ssl)
  BY Zenon DEF Fronted, Serves
<1>9. QED
  BY <1>1, <1>2, <1>3, <1>4, <1>5, <1>6, <1>7, <1>8

\* A site whose service asks for https is one that asks for an address.
LEMMA FrontedAsksForAddress ==
  ASSUME NEW k, k # "regtest", NEW n, NEW pub, Fronted(k, n, pub, TRUE)
  PROVE  PublicSsl(k, n)
<1>1. ASSUME NEW i \in 0..(GuardianCount(k, n) - 1)
      PROVE  FedimintEnabled(k, n)
  BY DEF GuardianCount
<1>2. \/ n.cashu.enabled /\ n.cashu.ssl
      \/ FedimintEnabled(k, n)
      \/ ArkEnabled(k, n)
      \/ RelayEnabled(n) /\ n.electrum.relay.public /\ n.electrum.relay.ssl
      \/ MempoolEnabled(k, n) /\ n.mempool.ssl
      \/ n.bitcart.enabled /\ n.bitcart.ssl
      \/ n.cashupayserver.enabled /\ n.cashupayserver.ssl
      \/ n.woocommerce.enabled /\ n.woocommerce.ssl
  BY <1>1, ZenonT(60) DEF Fronted, Serves
<1>3. QED
  BY <1>2 DEF PublicSsl

\* What an address claims: of a site, of an open port, or of one bound to the loopback.
ToSite(c, k, n, link) ==
  \E ssl : /\ Fronted(k, n, link.port, ssl)
           /\ link.scheme = Scheme(c, ssl)
           /\ link.onion => OnOnion(c, k, link.port)

ToPort(c, k, n, link) ==
  /\ link.scheme = "tcp" /\ link.port \in OpenNames(k, n)
  /\ link.onion =>
       c.global.tor.enabled /\ \E s \in DeployedRing(n) : link.port = LndPort(s, "p2p")

ToLoopback(k, n, link) ==
  /\ link.scheme = "loopback" /\ link.port \in LoopbackNames(k, n)
  /\ ~link.onion

LEMMA WebLinks ==
  ASSUME NEW c, NEW k, NEW n, NEW p, NEW ssl, Fronted(k, n, p, ssl)
  PROVE  /\ ToSite(c, k, n, WebLink(c, k, p, ssl))
         /\ ToSite(c, k, n, Link(p, Scheme(c, ssl), FALSE))
<1>1. /\ WebLink(c, k, p, ssl).port = p
      /\ WebLink(c, k, p, ssl).scheme = Scheme(c, ssl)
      /\ WebLink(c, k, p, ssl).onion => OnOnion(c, k, p)
  BY DEF WebLink, Link
<1>2. ToSite(c, k, n, WebLink(c, k, p, ssl))
  BY <1>1, Zenon DEF ToSite
<1>3. /\ Link(p, Scheme(c, ssl), FALSE).port = p
      /\ Link(p, Scheme(c, ssl), FALSE).scheme = Scheme(c, ssl)
      /\ ~Link(p, Scheme(c, ssl), FALSE).onion
  BY DEF Link
<1>4. ToSite(c, k, n, Link(p, Scheme(c, ssl), FALSE))
  BY <1>3, Zenon DEF ToSite
<1>5. QED
  BY <1>2, <1>4

LEMMA ShopLinksLead ==
  ASSUME NEW c, NEW k, NEW n, NEW link \in ShopLinks(c, k, n)
  PROVE  ToSite(c, k, n, link)
<1>1. \/ /\ n.bitcart.enabled
         /\ \E f \in BitcartFronts : link = WebLink(c, k, P(FrontPort[f]), n.bitcart.ssl)
      \/ /\ n.cashupayserver.enabled
         /\ link = WebLink(c, k, P("cashupayserver_public"), n.cashupayserver.ssl)
      \/ /\ n.woocommerce.enabled
         /\ link = WebLink(c, k, P("woocommerce_public"), n.woocommerce.ssl)
  BY ZenonT(60) DEF ShopLinks, OnlyIf
<1>2. QED
  BY <1>1, FrontedSites, WebLinks

LEMMA RowLinksLead ==
  ASSUME NEW c, c.global.ssl_enabled \in BOOLEAN, NEW k, NEW n, NEW link \in RowLinks(c, k, n)
  PROVE  ToSite(c, k, n, link)
<1>1. \/ n.cashu.enabled /\ link = WebLink(c, k, P("cashu_public"), n.cashu.ssl)
      \/ n.cashu.enabled /\ n.cashu.wallet /\ link = WalletLink(c, k, n.cashu.ssl)
      \/ \E i \in 0..(GuardianCount(k, n) - 1) :
           link = WebLink(c, k, <<"gatewayd_api_public", i>>, c.global.ssl_enabled)
      \/ MempoolEnabled(k, n) /\ link = WebLink(c, k, P("mempool_public"), n.mempool.ssl)
      \/ link \in ShopLinks(c, k, n)
  BY ZenonT(60) DEF RowLinks, OnlyIf
<1>2. CASE \/ n.cashu.enabled /\ link = WebLink(c, k, P("cashu_public"), n.cashu.ssl)
           \/ MempoolEnabled(k, n) /\ link = WebLink(c, k, P("mempool_public"), n.mempool.ssl)
  BY <1>2, FrontedSites, WebLinks
<1>3. CASE n.cashu.enabled /\ n.cashu.wallet /\ link = WalletLink(c, k, n.cashu.ssl)
  <2>1. /\ link.port = P("cashu_wallet_public")
        /\ link.scheme = Scheme(c, n.cashu.ssl)
        /\ link.onion => OnOnion(c, k, P("cashu_wallet_public"))
    BY <1>3 DEF WalletLink, Link
  <2>2. Fronted(k, n, link.port, n.cashu.ssl)
    BY <1>3, <2>1, FrontedSites
  <2>3. QED
    BY <2>1, <2>2, Zenon DEF ToSite
<1>4. CASE \E i \in 0..(GuardianCount(k, n) - 1) :
             link = WebLink(c, k, <<"gatewayd_api_public", i>>, c.global.ssl_enabled)
  <2>1. PICK i \in 0..(GuardianCount(k, n) - 1) :
               link = WebLink(c, k, <<"gatewayd_api_public", i>>, c.global.ssl_enabled)
    BY <1>4
  <2>2. Scheme(c, c.global.ssl_enabled) = Scheme(c, TRUE)
    BY DEF Scheme
  <2>3. link = WebLink(c, k, <<"gatewayd_api_public", i>>, TRUE)
    BY <2>1, <2>2 DEF WebLink
  <2>4. QED
    BY <2>3, FrontedSites, WebLinks
<1>5. CASE link \in ShopLinks(c, k, n)
  BY <1>5, ShopLinksLead
<1>6. QED
  BY <1>1, <1>2, <1>3, <1>4, <1>5

LEMMA CredentialLinksLead ==
  ASSUME NEW c, NEW k, NEW n, IsNetworkCfg(n), NEW link \in CredentialLinks(c, k, n)
  PROVE  ToSite(c, k, n, link) \/ ToPort(c, k, n, link) \/ ToLoopback(k, n, link)
<1>1. \/ link \in ShopLinks(c, k, n)
      \/ ArkEnabled(k, n) /\ link = Link(P("ark_captaind_public"), Scheme(c, TRUE), FALSE)
      \/ ArkEnabled(k, n) /\ link = Link(P("ark_cln_p2p"), "tcp", FALSE)
      \/ \E i \in 0..(GuardianCount(k, n) - 1) :
           link = WebLink(c, k, <<"gatewayd_api_public", i>>, TRUE)
      \/ \E i \in 0..(GuardianCount(k, n) - 1) :
           link = Link(<<"fedimintd_ui", i>>, "loopback", FALSE)
  BY ZenonT(60) DEF CredentialLinks, OnlyIf
<1>2. CASE link \in ShopLinks(c, k, n)
  BY <1>2, ShopLinksLead
<1>3. CASE ArkEnabled(k, n) /\ link = Link(P("ark_captaind_public"), Scheme(c, TRUE), FALSE)
  BY <1>3, FrontedSites, WebLinks
<1>4. CASE ArkEnabled(k, n) /\ link = Link(P("ark_cln_p2p"), "tcp", FALSE)
  <2>1. link.port = P("ark_cln_p2p") /\ link.scheme = "tcp" /\ ~link.onion
    BY <1>4 DEF Link
  <2>2. QED
    BY <1>4, <2>1, NamesOfOpen DEF ToPort
<1>5. CASE \E i \in 0..(GuardianCount(k, n) - 1) :
             link = WebLink(c, k, <<"gatewayd_api_public", i>>, TRUE)
  BY <1>5, FrontedSites, WebLinks
<1>6. CASE \E i \in 0..(GuardianCount(k, n) - 1) :
             link = Link(<<"fedimintd_ui", i>>, "loopback", FALSE)
  <2>1. PICK i \in 0..(GuardianCount(k, n) - 1) :
               link = Link(<<"fedimintd_ui", i>>, "loopback", FALSE)
    BY <1>6
  <2>2. link.port = <<"fedimintd_ui", i>> /\ link.scheme = "loopback" /\ ~link.onion
    BY <2>1 DEF Link
  <2>3. GuardianCount(k, n) \in Int
    BY DEF GuardianCount, IsNetworkCfg, FedimintCfg
  <2>4. i + 1 \in 1..GuardianCount(k, n) /\ (i + 1) - 1 = i
    BY <2>3
  <2>5. <<"fedimintd_ui", i>> \in LoopbackNames(k, n)
    BY <2>4, NamesOfLoopback
  <2>6. QED
    BY <2>2, <2>5 DEF ToLoopback
<1>7. QED
  BY <1>1, <1>2, <1>3, <1>4, <1>5, <1>6

LEMMA RecipesLead ==
  ASSUME NEW c, NEW k, NEW n, NEW link \in AttachRecipes(c, k, n) \cup OperatorRecipes
  PROVE  ToPort(c, k, n, link) \/ ToLoopback(k, n, link)
<1>1. \/ /\ 1 \in DOMAIN EnabledIndexers(n)
         /\ link = Link(<<"fulcrum_electrum_tcp", 0>>, "tcp", FALSE)
      \/ n.bitcoind.p2p_public /\ link = Link(P("bitcoind_p2p"), "tcp", FALSE)
      \/ \E s \in DeployedRing(n) : link = Link(LndPort(s, "p2p"), "tcp", c.global.tor.enabled)
      \/ link = Link(P("bitcoind_rpc"), "loopback", FALSE)
  BY ZenonT(60) DEF AttachRecipes, OperatorRecipes, OnlyIf
<1>2. CASE 1 \in DOMAIN EnabledIndexers(n)
           /\ link = Link(<<"fulcrum_electrum_tcp", 0>>, "tcp", FALSE)
  <2>1. link.port = <<"fulcrum_electrum_tcp", 0>> /\ link.scheme = "tcp" /\ ~link.onion
    BY <1>2 DEF Link
  <2>2. <<"fulcrum_electrum_tcp", 1 - 1>> \in OpenNames(k, n)
    BY <1>2, NamesOfOpen
  <2>3. QED
    BY <2>1, <2>2 DEF ToPort
<1>3. CASE n.bitcoind.p2p_public /\ link = Link(P("bitcoind_p2p"), "tcp", FALSE)
  <2>1. link.port = P("bitcoind_p2p") /\ link.scheme = "tcp" /\ ~link.onion
    BY <1>3 DEF Link
  <2>2. QED
    BY <1>3, <2>1, NamesOfOpen DEF ToPort
<1>4. CASE \E s \in DeployedRing(n) :
             link = Link(LndPort(s, "p2p"), "tcp", c.global.tor.enabled)
  <2>1. PICK s \in DeployedRing(n) :
               link = Link(LndPort(s, "p2p"), "tcp", c.global.tor.enabled)
    BY <1>4
  <2>2. /\ link.port = LndPort(s, "p2p") /\ link.scheme = "tcp"
        /\ link.onion => c.global.tor.enabled
    BY <2>1 DEF Link
  <2>3. link.port \in OpenNames(k, n)
    BY <2>2, NamesOfOpen
  <2>4. link.onion =>
          c.global.tor.enabled /\ \E t \in DeployedRing(n) : link.port = LndPort(t, "p2p")
    BY <2>2, Zenon
  <2>5. QED
    BY <2>2, <2>3, <2>4, Zenon DEF ToPort
<1>5. CASE link = Link(P("bitcoind_rpc"), "loopback", FALSE)
  <2>1. link.port = P("bitcoind_rpc") /\ link.scheme = "loopback" /\ ~link.onion
    BY <1>5 DEF Link
  <2>2. QED
    BY <2>1, NamesOfLoopback DEF ToLoopback
<1>6. QED
  BY <1>1, <1>2, <1>3, <1>4, <1>5

\* An onion that exposes the nodes has a route to each one deployed.
LEMMA NodesOnOnion ==
  ASSUME NEW c, NEW k \in EnabledNetworks(c), NEW s \in DeployedRing(c.networks[k]),
         c.global.tor.enabled, c.global.tor.expose_lnd_p2p
  PROVE  OnOnion(c, k, LndPort(s, "p2p"))
<1> DEFINE n == c.networks[k]
           r == Straight(LndPort(s, "p2p"))
<1>1. r \in NetworkRoutes(c.global, k, n)
  <2>1. \/ s = "lnd" /\ LndPort(s, "p2p") = P("lnd_p2p")
        \/ s = "lnd2" /\ SecondaryEnabled(n) /\ LndPort(s, "p2p") = P("lnd2_p2p")
        \/ s = "lnd3" /\ TertiaryEnabled(n) /\ LndPort(s, "p2p") = P("lnd3_p2p")
    BY DEF DeployedRing, LndPort, LndPortNames
  <2>2. QED
    BY <2>1, ZenonT(60) DEF NetworkRoutes, OnlyIf
<1>2. Route(PortMap(c)[k][r.virtual], PortMap(c)[k][r.target]) \in OnionRoutes(c)
  <2> DEFINE Of(j) == {Route(PortMap(c)[j][t.virtual], PortMap(c)[j][t.target]) :
                         t \in NetworkRoutes(c.global, j, c.networks[j])}
  <2>1. Route(PortMap(c)[k][r.virtual], PortMap(c)[k][r.target]) \in Of(k)
    BY <1>1
  <2>2. UNION {Of(j) : j \in EnabledNetworks(c)} \subseteq OnionRoutes(c)
    BY Zenon DEF OnionRoutes, OnlyIf
  <2> HIDE DEF Of
  <2>3. QED
    BY <2>1, <2>2
<1>3. r.virtual = LndPort(s, "p2p")
  BY DEF Straight, Route
<1>4. \A a, b : Route(a, b).virtual = a
  BY DEF Route
<1>5. QED
  BY <1>2, <1>3, <1>4 DEF OnOnion

LEMMA LinksAgree ==
  ASSUME NEW c, Plain(c), ValidAcme(c), NEW k \in EnabledNetworks(c),
         NEW link \in HandedOut(c, k, c.networks[k])
  PROVE  /\ CASE link.scheme = "tcp" -> Bound(c, PortMap(c)[k][link.port], TRUE)
              [] link.scheme = "loopback" -> Bound(c, PortMap(c)[k][link.port], FALSE)
              [] OTHER -> \E site \in NetworkSites(k, c.networks[k]) :
                            /\ PortMap(c)[k][site.public] = PortMap(c)[k][link.port]
                            /\ Scheme(c, site.ssl) = link.scheme
         /\ link.scheme = "https" /\ k # "regtest" => c.global.acme_email
         /\ link.onion /\ (link.scheme = "tcp" => c.global.tor.expose_lnd_p2p) =>
              OnOnion(c, k, link.port)
<1> DEFINE n == c.networks[k]
<1>1. c.global.ssl_enabled \in BOOLEAN
  BY DEF Plain, IsArgusConfig, GlobalConfig
<1>2. ToSite(c, k, n, link) \/ ToPort(c, k, n, link) \/ ToLoopback(k, n, link)
  BY <1>1, NetworkOf, RowLinksLead, CredentialLinksLead, RecipesLead DEF HandedOut
<1>3. CASE ToSite(c, k, n, link)
  <2>1. PICK ssl : /\ Fronted(k, n, link.port, ssl)
                   /\ link.scheme = Scheme(c, ssl)
                   /\ link.onion => OnOnion(c, k, link.port)
    BY <1>3 DEF ToSite
  <2>2. link.scheme \in {"http", "https"}
    BY <2>1 DEF Scheme
  <2>3. link.scheme # "tcp" /\ link.scheme # "loopback"
    BY <2>2
  <2>4. PICK site \in NetworkSites(k, n) : site.public = link.port /\ site.ssl = ssl
    BY <2>1, ServedSites DEF Fronted
  <2>5. /\ PortMap(c)[k][site.public] = PortMap(c)[k][link.port]
        /\ Scheme(c, site.ssl) = link.scheme
    BY <2>1, <2>4
  <2>6. ASSUME link.scheme = "https", k # "regtest"
        PROVE  c.global.acme_email
    <3>1. c.global.ssl_enabled /\ ssl
      BY <2>1, <2>6 DEF Scheme
    <3>2. PublicSsl(k, n)
      BY <2>6, <2>1, <3>1, FrontedAsksForAddress
    <3>3. QED
      BY <3>1, <3>2 DEF ValidAcme
  <2>7. QED
    BY <2>1, <2>3, <2>5, <2>6
<1>4. CASE ToPort(c, k, n, link)
  <2>1. link.scheme = "tcp" /\ link.port \in OpenNames(k, n)
    BY <1>4 DEF ToPort
  <2>2. Bound(c, PortMap(c)[k][link.port], TRUE)
    BY <2>1, OpenListens
  <2>3. ASSUME link.onion, c.global.tor.expose_lnd_p2p
        PROVE  OnOnion(c, k, link.port)
    <3>1. c.global.tor.enabled /\ \E s \in DeployedRing(n) : link.port = LndPort(s, "p2p")
      BY <1>4, <2>3 DEF ToPort
    <3>2. QED
      BY <2>3, <3>1, NodesOnOnion
  <2>4. link.scheme # "https"
    BY <2>1
  <2>5. QED
    BY <2>1, <2>2, <2>3, <2>4
<1>5. CASE ToLoopback(k, n, link)
  <2>1. link.scheme = "loopback" /\ link.port \in LoopbackNames(k, n) /\ ~link.onion
    BY <1>5 DEF ToLoopback
  <2>2. Bound(c, PortMap(c)[k][link.port], FALSE)
    BY <2>1, LoopbackListens
  <2>3. link.scheme # "https" /\ link.scheme # "tcp"
    BY <2>1
  <2>4. QED
    BY <2>1, <2>2, <2>3
<1>6. QED
  BY <1>2, <1>3, <1>4, <1>5

-----------------------------------------------------------------------------
(* Credentials.                                                            *)

\* That is so of the services that are deployed.
Asked ==
  /\ phase # "deployed" => services = << >>
  /\ phase = "deployed" => AsksFirst(services)

\* A service that is healthy or done has filled the volumes that are its own.
Filled ==
  \A v \in Volumes :
    Owner[v] \in DOMAIN services /\ status[Owner[v]] \in {"healthy", "done"} => data[v] # 0

Creds == Asked /\ Filled /\ CredentialsFirst

LEMMA CredentialsAreVolumes == Credentials \subseteq Volumes
  BY DEF Credentials, Volumes

\* No service comes into its own and no volume is emptied: nothing is read too early.
LEMMA CredentialsKept ==
  ASSUME Creds, UNCHANGED <<phase, services>>,
         \A s \in DOMAIN services :
           /\ status'[s] \in {"healthy", "done"} => status[s] \in {"healthy", "done"}
           /\ status'[s] # "created" => status[s] # "created",
         \A v \in Volumes : data[v] # 0 => data'[v] # 0
  PROVE  Creds'
<1>1. Asked'
  BY DEF Creds, Asked, AsksFirst
<1>2. Filled'
  BY DEF Creds, Filled
<1>3. CredentialsFirst'
  BY CredentialsAreVolumes DEF Creds, CredentialsFirst
<1>4. QED
  BY <1>1, <1>2, <1>3 DEF Creds

LEMMA InitCredentials == Init => Creds
<1> SUFFICES ASSUME Init PROVE Creds
  OBVIOUS
<1>1. services = << >> /\ phase = "edited" /\ DOMAIN services = {}
  BY DEF Init
<1>2. Asked
  BY <1>1 DEF Asked
<1>3. Filled
  BY <1>1 DEF Filled
<1>4. CredentialsFirst
  BY <1>1 DEF CredentialsFirst
<1>5. QED
  BY <1>2, <1>3, <1>4 DEF Creds

\* A service that starts finds the credentials it reads: it waited for their owner, who was
\* healthy or done, and so had filled them.
LEMMA StartFindsCredentials ==
  ASSUME IInv, Creds, phase = "deployed", UNCHANGED fixed, NEW s \in DOMAIN services, Start(s)
  PROVE  Creds'
<1>1. phase' = phase /\ services' = services /\ data' = data
  BY DEF Start, fixed
<1>2. status' = [status EXCEPT ![s] = "running"] /\ DOMAIN status = DOMAIN services
  BY DEF Start, IInv, TypeOfNames
<1>3. Asked'
  BY <1>1 DEF Creds, Asked, AsksFirst
<1>4. Filled'
  BY <1>1, <1>2 DEF Creds, Filled
<1>5. CredentialsFirst'
  <2> SUFFICES ASSUME NEW r \in DOMAIN services, NEW v \in services[r].volumes \cap Credentials,
                      status'[r] # "created", Owner[v] # r
               PROVE  data[v] # 0
    BY <1>1 DEF CredentialsFirst
  <2>1. CASE r # s
    BY <1>2, <2>1 DEF Creds, CredentialsFirst
  <2>2. CASE r = s
    <3>1. PICK dep \in services[s].depends_on :
            dep \in {Healthy(Owner[v]), Completed(Owner[v])} /\ Owner[v] \in DOMAIN services
      BY <2>2 DEF Creds, Asked, AsksFirst
    <3>2. Met(dep)
      BY DEF Start
    <3>3. status[Owner[v]] \in {"healthy", "done"}
      <4>1. CASE dep = Healthy(Owner[v])
        BY <4>1, <3>2 DEF Met, Healthy
      <4>2. CASE dep = Completed(Owner[v])
        BY <4>2, <3>2 DEF Met, Completed
      <4>3. QED
        BY <3>1, <4>1, <4>2
    <3>4. QED
      BY <3>1, <3>3, CredentialsAreVolumes DEF Creds, Filled
  <2>3. QED
    BY <2>1, <2>2
<1>6. QED
  BY <1>3, <1>4, <1>5 DEF Creds

\* A service that has done its work has filled its volumes.
LEMMA WorkFillsCredentials ==
  ASSUME IInv, Creds, phase = "deployed", UNCHANGED fixed, NEW s \in DOMAIN services,
         BecomeHealthy(s) \/ Finish(s)
  PROVE  Creds'
<1>1. phase' = phase /\ services' = services
  BY DEF fixed
<1>2. /\ DOMAIN status = DOMAIN services
      /\ status[s] = "running"
      /\ \A r \in DOMAIN services \ {s} : status'[r] = status[r]
  BY DEF BecomeHealthy, Finish, IInv, TypeOfNames
<1>3. /\ \A v \in Volumes : data[v] # 0 => data'[v] # 0
      /\ \A v \in Volumes : Owner[v] = s => data'[v] # 0
  <2>1. life # 0 /\ Fill(s)
    BY DEF BecomeHealthy, Finish, IInv, TypeOfNumbers
  <2>2. QED
    BY <2>1, StoreNames DEF Fill
<1>4. Asked'
  BY <1>1 DEF Creds, Asked, AsksFirst
<1>5. Filled'
  BY <1>1, <1>2, <1>3 DEF Creds, Filled
<1>6. CredentialsFirst'
  BY <1>1, <1>2, <1>3, CredentialsAreVolumes DEF Creds, CredentialsFirst
<1>7. QED
  BY <1>4, <1>5, <1>6 DEF Creds

\* A fault, and an up that starts the jobs again, take services back.
LEMMA FaultsKeepCredentials ==
  ASSUME IInv, Creds, phase = "deployed", UNCHANGED fixed, Faults \/ OperatorUp
  PROVE  Creds'
<1>1. DOMAIN status = DOMAIN services /\ UNCHANGED <<phase, services>>
  BY DEF IInv, TypeOfNames, fixed
<1>2. data' = data
  BY DEF Faults, Fail, Crash, Reboot, OperatorUp
<1>3. \A s \in DOMAIN services :
        /\ status'[s] \in {"healthy", "done"} => status[s] \in {"healthy", "done"}
        /\ status'[s] # "created" => status[s] # "created"
  <2>1. ASSUME NEW s \in DOMAIN services, Fail(s) \/ Crash(s)
        PROVE  \A r \in DOMAIN services :
                 /\ status'[r] \in {"healthy", "done"} => status[r] \in {"healthy", "done"}
                 /\ status'[r] # "created" => status[r] # "created"
    BY <1>1, <2>1 DEF Fail, Crash
  <2>2. CASE Reboot
    BY <2>2 DEF Reboot
  <2>3. CASE OperatorUp
    BY <2>3 DEF OperatorUp
  <2>4. QED
    BY <2>1, <2>2, <2>3 DEF Faults
<1>4. QED
  BY <1>1, <1>2, <1>3, CredentialsKept

\* A network that is torn down has no service that reads anything.
LEMMA DownKeepsCredentials ==
  ASSUME IInv, Creds, phase = "deployed", UNCHANGED fixed, Down
  PROVE  Creds'
<1>1. services' = services /\ phase' = phase
  BY DEF fixed
<1>2. \A s \in DOMAIN services : status'[s] = "created"
  BY DEF Down
<1>3. Asked'
  BY <1>1 DEF Creds, Asked, AsksFirst
<1>4. Filled'
  BY <1>1, <1>2 DEF Filled
<1>5. CredentialsFirst'
  BY <1>1, <1>2 DEF CredentialsFirst
<1>6. QED
  BY <1>3, <1>4, <1>5 DEF Creds

\* What the script, Bitcart and the faucet write is in stores of their own.
LEMMA OthersKeepCredentials ==
  ASSUME IInv, Creds, phase = "deployed", UNCHANGED fixed,
         \/ AbortUp \/ UpReturns \/ DeployOthers \/ Grow \/ FaucetPays \/ BitcartSyncs
         \/ Poll \/ ScriptUp \/ WipeBitcart \/ PurgeFaucet \/ Sleep
  PROVE  Creds'
<1>1. status' = status /\ UNCHANGED <<phase, services>>
  BY DEF fixed, AbortUp, UpReturns, DeployOthers, Grow, FaucetPays, BitcartSyncs, Records,
         Poll, ScriptUp, WipeBitcart, PurgeFaucet, Sleep
<1>2. \A v \in Volumes : data'[v] = data[v]
  <2>1. CASE WipeBitcart \/ PurgeFaucet \/ FaucetPays \/ BitcartSyncs
    BY <2>1, StoreNames
    DEF IInv, TypeOfNumbers, WipeBitcart, PurgeFaucet, Wipes, WipeFails, FaucetPays,
        BitcartSyncs, Records
  <2>2. CASE ~(WipeBitcart \/ PurgeFaucet \/ FaucetPays \/ BitcartSyncs)
    BY <2>2 DEF AbortUp, UpReturns, DeployOthers, Grow, Poll, ScriptUp, Sleep
  <2>3. QED
    BY <2>1, <2>2
<1>3. QED
  BY <1>1, <1>2, CredentialsKept

\* The network an installation deploys is one that its configuration enables.
LEMMA KeyIsEnabled ==
  ASSUME cfg \in Live
  PROVE  Key \in EnabledNetworks(cfg)
<1>1. EnabledNetworks(cfg) # {}
  BY DeploymentAssumption, FS_EmptySet DEF DeploymentAssumption
<1>2. QED
  BY <1>1 DEF Key

\* What generate has accepted stays what it accepted.
Accepted ==
  /\ cfg \in Configs
  /\ phase \in {"generated", "deployed"} => Valid(cfg) /\ Allocatable(cfg)

LEMMA AcceptedAlways == Spec => []Accepted
<1>1. Init => Accepted
  BY DEF Init, Accepted
<1>2. Accepted /\ [Next]_vars => Accepted'
  <2> SUFFICES ASSUME Accepted, [Next]_vars PROVE Accepted'
    OBVIOUS
  <2>1. CASE Generate
    BY <2>1 DEF Generate, Accepted
  <2>2. CASE Deploy
    BY <2>2 DEF Deploy, Accepted
  <2>3. CASE Running
    BY <2>3 DEF Running, fixed, Accepted
  <2>4. CASE UNCHANGED vars
    BY <2>4 DEF vars, Accepted
  <2>5. QED
    BY <2>1, <2>2, <2>3, <2>4 DEF Next
<1>3. QED
  BY <1>1, <1>2, PTL DEF Spec

\* Network k of c is one every reader of credentials waits in, once it is accepted.
AllWait(c, k) ==
  /\ ~GatewayWithoutNode(k, c.networks[k])
  /\ ~ReadsLater(k, c.networks[k])
  /\ \A name \in IndexerNames(c.networks[k]) : IndexerVolume(name) \notin Credentials

LEMMA AcceptedAsksFirst ==
  ASSUME NEW c \in Live, Valid(c), NEW k \in EnabledNetworks(c), AllWait(c, k)
  PROVE  AsksFirst(Project(c.global, k, c.networks[k]).services)
<1>1. c \in Configs
  BY DeploymentAssumption DEF DeploymentAssumption
<1>2. k \in DOMAIN c.networks
  BY DEF EnabledNetworks
<1>3. IsNetworkCfg(c.networks[k])
  BY <1>1, <1>2, DeploymentAssumption DEF DeploymentAssumption, IsArgusConfig
<1>4. /\ ValidRing(k, c.networks[k]) /\ ValidShops(c.networks[k])
      /\ ValidArk(c.global, k, c.networks[k]) /\ ValidElectrum(k, c.networks[k])
  BY DEF Valid
<1>5. WaitsForAll(c.global, k, c.networks[k])
  BY <1>3, <1>4 DEF WaitsForAll, AllWait
<1>6. QED
  BY <1>5, BuildersAskFirst

\* CredentialsFirst: whatever tools and nodes a network that is deployed combines, no service
\* of it is ever running before the credentials it reads have been written, whatever fails,
\* crashes, reboots or is torn down and brought up again, in any order.
THEOREM CredentialsBeforeUse ==
  ASSUME \A c \in Live : \A k \in EnabledNetworks(c) : AllWait(c, k)
  PROVE  Spec => []CredentialsFirst
<1>1. Init => Creds
  BY InitCredentials
<1>2. IInv /\ Accepted /\ Creds /\ [Next]_vars => Creds'
  <2> SUFFICES ASSUME IInv, Accepted, Creds, [Next]_vars PROVE Creds'
    OBVIOUS
  <2>1. CASE Generate
    <3>1. Asked'
      BY <2>1 DEF Generate, Creds, Asked
    <3>2. services' = services /\ status' = status /\ data' = data
      BY <2>1 DEF Generate
    <3>3. Filled' /\ CredentialsFirst'
      BY <3>2 DEF Creds, Filled, CredentialsFirst
    <3>4. QED
      BY <3>1, <3>3 DEF Creds
  <2>2. CASE Deploy
    <3>1. AsksFirst(services')
      BY <2>2, KeyIsEnabled, AcceptedAsksFirst DEF Deploy, Net, Accepted
    <3>2. \A s \in DOMAIN services' : status'[s] = "created"
      BY <2>2 DEF Deploy
    <3>3. Asked'
      BY <2>2, <3>1 DEF Deploy, Asked, AsksFirst
    <3>4. Filled' /\ CredentialsFirst'
      BY <3>2 DEF Filled, CredentialsFirst
    <3>5. QED
      BY <3>3, <3>4 DEF Creds
  <2>3. CASE Running
    <3>1. phase = "deployed" /\ UNCHANGED fixed
      BY <2>3 DEF Running
    <3>2. CASE Compose
      BY <3>1, <3>2, StartFindsCredentials, WorkFillsCredentials, OthersKeepCredentials
      DEF Compose
    <3>3. CASE Faults \/ OperatorUp
      BY <3>1, <3>3, FaultsKeepCredentials
    <3>4. CASE Reset
      BY <3>1, <3>4, DownKeepsCredentials, OthersKeepCredentials DEF Reset
    <3>5. CASE DeployOthers \/ FaucetPays \/ BitcartSyncs \/ Grow
      BY <3>1, <3>5, OthersKeepCredentials
    <3>6. QED
      BY <2>3, <3>2, <3>3, <3>4, <3>5 DEF Running
  <2>4. CASE UNCHANGED vars
    BY <2>4, CredentialsKept DEF vars
  <2>5. QED
    BY <2>1, <2>2, <2>3, <2>4 DEF Next
<1>3. Creds => CredentialsFirst
  BY DEF Creds
<1>4. QED
  BY <1>1, <1>2, <1>3, Inductive, AcceptedAlways, PTL DEF Spec

-----------------------------------------------------------------------------
(* What an accepted configuration opens, routes, shows and hands out.      *)

\* The configurations generate accepts name their indexers apart from each other and from
\* the services, and leave the base of Bitcart's pool where its block has it: the code
\* checks neither.
OwnNamesAndPool ==
  \A c \in Configs : Valid(c) /\ Allocatable(c) =>
    \A k \in EnabledNetworks(c) :
      /\ OwnNames(c.networks[k])
      /\ P("bitcart_btclnd_p2p_base") \notin DOMAIN c.networks[k].ports

LEMMA AcceptedIsPlain ==
  ASSUME OwnNamesAndPool, Accepted, phase = "generated"
  PROVE  Plain(cfg) /\ ValidAcme(cfg)
<1>1. cfg \in Configs /\ Valid(cfg) /\ Allocatable(cfg)
  BY DEF Accepted
<1>2. IsArgusConfig(cfg)
  BY <1>1, DeploymentAssumption DEF DeploymentAssumption
<1>3. ValidAcme(cfg)
  BY <1>1 DEF Valid
<1>4. QED
  BY <1>1, <1>2, <1>3 DEF Plain, OwnNamesAndPool

LEMMA BoundPorts ==
  ASSUME NEW c, NEW port
  PROVE  /\ (\E pub : Bound(c, port, pub)) => port \in {l.port : l \in Listeners(c)}
         /\ Bound(c, port, TRUE) => port \in {l.port : l \in {l \in Listeners(c) : l.public}}
  BY DEF Bound

\* FirewallExact: the script of the firewall opens every port that listens to the world and,
\* but for ssh and the ports of the certificates, no other, for every configuration.
THEOREM FirewallMatches ==
  ASSUME OwnNamesAndPool
  PROVE  Spec => []FirewallExact
<1>1. Accepted => FirewallExact
  <2> SUFFICES ASSUME Accepted, phase = "generated" PROVE FirewallExact
    BY DEF FirewallExact
  <2>1. Plain(cfg)
    BY AcceptedIsPlain
  <2>2. PublicPorts \subseteq FirewallRules(cfg)
    BY <2>1, FirewallAgrees DEF PublicPorts
  <2>3. FirewallRules(cfg) \subseteq PublicPorts \cup StandingRules(cfg)
    BY <2>1, FirewallAgrees, BoundPorts DEF PublicPorts
  <2>4. SocksOpenToContainers(cfg) => SocksRule(cfg)
    BY <2>1, FirewallAgrees
  <2>5. QED
    BY <2>2, <2>3, <2>4 DEF FirewallExact
<1>2. QED
  BY <1>1, AcceptedAlways, PTL

\* OnionExposesOnlyPublic: every route of the onion service ends at something that listens,
\* and starts at a port that is public already, or at the dashboard's.
THEOREM OnionAddsNothing ==
  ASSUME OwnNamesAndPool
  PROVE  Spec => []OnionExposesOnlyPublic
<1>1. Accepted => OnionExposesOnlyPublic
  <2> SUFFICES ASSUME Accepted, phase = "generated", NEW r \in OnionRoutes(cfg)
               PROVE  /\ r.target \in {l.port : l \in Listeners(cfg)}
                      /\ r.virtual \in PublicPorts \cup {DASHBOARD_ONION_PORT}
    BY DEF OnionExposesOnlyPublic
  <2>1. Plain(cfg)
    BY AcceptedIsPlain
  <2>2. /\ \E pub : Bound(cfg, r.target, pub)
        /\ Bound(cfg, r.virtual, TRUE) \/ r.virtual = DASHBOARD_ONION_PORT
    BY <2>1, OnionAgrees
  <2>3. QED
    BY <2>2, BoundPorts DEF PublicPorts
<1>2. QED
  BY <1>1, AcceptedAlways, PTL

\* RowsTellTheTruth: every port a row of the dashboard shows is bound, and to the world
\* exactly when the row says so.
THEOREM RowsAreTrue ==
  ASSUME OwnNamesAndPool
  PROVE  Spec => []RowsTellTheTruth
<1>1. Accepted => RowsTellTheTruth
  <2> SUFFICES ASSUME Accepted, phase = "generated", NEW k \in EnabledNetworks(cfg),
                      NEW row \in ServiceRows(k, cfg.networks[k]), NEW p \in row.ports
               PROVE  \E l \in Listeners(cfg) :
                         l.port = PortMap(cfg)[k][p[1]] /\ l.public = p[2]
    BY DEF RowsTellTheTruth
  <2>1. Bound(cfg, PortMap(cfg)[k][p[1]], p[2])
    BY AcceptedIsPlain, RowsAgree
  <2>2. QED
    BY <2>1 DEF Bound
<1>2. QED
  BY <1>1, AcceptedAlways, PTL

\* LinksLeadSomewhere: every address a page or the credentials file hands out leads to a
\* site served over the scheme it names, with a certificate it can have, or to a socket
\* bound as it says, and to the onion if it is given with the onion's name.
THEOREM LinksAreRight ==
  ASSUME OwnNamesAndPool
  PROVE  Spec => []LinksLeadSomewhere
<1>1. Accepted => LinksLeadSomewhere
  <2> SUFFICES ASSUME Accepted, phase = "generated" PROVE LinksLeadSomewhere
    BY DEF LinksLeadSomewhere
  <2>1. Plain(cfg) /\ ValidAcme(cfg)
    BY AcceptedIsPlain
  <2>2. QED
    BY <2>1, LinksAgree, Zenon DEF LinksLeadSomewhere, Bound
<1>2. QED
  BY <1>1, AcceptedAlways, PTL

-----------------------------------------------------------------------------
(* What compose can start.                                                 *)

\* What a service must be to meet a condition.
Meets(service, condition) ==
  CASE condition = "service_started" -> TRUE
    [] condition = "service_healthy" -> service.healthcheck
    [] condition = "service_completed_successfully" -> service.job

\* The services of a stack that wait only for those of a set.
Round(stack, before) ==
  {s \in DOMAIN stack :
     \A dep \in stack[s].depends_on : dep[1] \in before /\ Meets(stack[dep[1]], dep[2])}

\* round holds the first rounds of Startable, up to the last one.
Rounds(round, stack, last) ==
  round = [i \in 0..last |-> IF i = 0 THEN {} ELSE Round(stack, round[i - 1])]

LEMMA StartableIsLast ==
  ASSUME NEW stack
  PROVE  Startable(stack) =
           (CHOOSE round : Rounds(round, stack, Cardinality(DOMAIN stack)))
             [Cardinality(DOMAIN stack)]
  BY DEF Startable, Rounds, Round, Meets

LEMMA RoundsAre ==
  ASSUME NEW stack, NEW last \in Nat, NEW round, Rounds(round, stack, last)
  PROVE  /\ DOMAIN round = 0..last /\ round[0] = {}
         /\ \A i \in 1..last : round[i] = Round(stack, round[i - 1])
         /\ \A i \in 0..last : round[i] \subseteq DOMAIN stack
<1>1. \A i \in 0..last : round[i] = IF i = 0 THEN {} ELSE Round(stack, round[i - 1])
  BY Zenon DEF Rounds
<1>2. DOMAIN round = 0..last
  BY Zenon DEF Rounds
<1>3. \A i \in 0..last : i = 0 \/ i \in 1..last
  OBVIOUS
<1>4. \A i \in 1..last : i # 0 /\ i \in 0..last
  OBVIOUS
<1>5. 0 \in 0..last
  OBVIOUS
<1>6. \A before : Round(stack, before) \subseteq DOMAIN stack
  BY DEF Round
<1>7. /\ round[0] = {}
      /\ \A i \in 1..last : round[i] = Round(stack, round[i - 1])
  BY <1>1, <1>4, <1>5, Zenon
<1>8. \A i \in 0..last : round[i] \subseteq DOMAIN stack
  BY <1>3, <1>6, <1>7, Zenon
<1>9. QED
  BY <1>2, <1>7, <1>8

\* Each number of rounds can be made.
LEMMA RoundsExist ==
  ASSUME NEW stack
  PROVE  \A last \in Nat : \E round : Rounds(round, stack, last)
<1> DEFINE T == {last \in Nat : \E round : Rounds(round, stack, last)}
<1>1. 0 \in T
  <2>1. Rounds([i \in 0..0 |-> {}], stack, 0)
    BY DEF Rounds
  <2>2. QED
    BY <2>1
<1>2. ASSUME NEW last \in Nat, last \in T
      PROVE  last + 1 \in T
  <2>1. PICK round : Rounds(round, stack, last)
    BY <1>2
  <2> DEFINE longer == [i \in 0..(last + 1) |-> IF i = 0 THEN {} ELSE Round(stack, round[i - 1])]
  <2>2. \A i \in 0..last : longer[i] = round[i]
    <3>1. \A i \in 0..last : round[i] = IF i = 0 THEN {} ELSE Round(stack, round[i - 1])
      BY <2>1, Zenon DEF Rounds
    <3>2. \A i \in 0..last : i \in 0..(last + 1)
      OBVIOUS
    <3>3. \A i \in 0..(last + 1) :
            longer[i] = IF i = 0 THEN {} ELSE Round(stack, round[i - 1])
      OBVIOUS
    <3> HIDE DEF longer
    <3>4. QED
      BY <3>1, <3>2, <3>3, Zenon
  <2>3. \A i \in 0..(last + 1) : i # 0 => i - 1 \in 0..last /\ round[i - 1] = longer[i - 1]
    BY <2>2
  <2>4. longer = [i \in 0..(last + 1) |-> IF i = 0 THEN {} ELSE Round(stack, longer[i - 1])]
    BY <2>3
  <2>5. Rounds(longer, stack, last + 1)
    BY <2>4 DEF Rounds
  <2>6. QED
    BY <2>5
<1> HIDE DEF T
<1>3. Nat \subseteq T
  BY <1>1, <1>2, NatSetInduction
<1>4. QED
  BY <1>3 DEF T

LEMMA StartableRounds ==
  ASSUME NEW stack, IsFiniteSet(DOMAIN stack)
  PROVE  \E round : /\ Rounds(round, stack, Cardinality(DOMAIN stack))
                    /\ Startable(stack) = round[Cardinality(DOMAIN stack)]
<1>1. Cardinality(DOMAIN stack) \in Nat
  BY FS_CardinalityType
<1>2. QED
  BY <1>1, RoundsExist, StartableIsLast

\* Where each service only waits for others of a lower rank, and no rank is above the number
\* of the services, compose can start them all.
LEMMA RankedStart ==
  ASSUME NEW stack, IsFiniteSet(DOMAIN stack), NEW rank \in [DOMAIN stack -> Nat \ {0}],
         \A s \in DOMAIN stack : rank[s] <= Cardinality(DOMAIN stack),
         \A s \in DOMAIN stack : \A dep \in stack[s].depends_on :
            /\ dep[1] \in DOMAIN stack /\ rank[dep[1]] < rank[s]
            /\ Meets(stack[dep[1]], dep[2])
  PROVE  Startable(stack) = DOMAIN stack
<1> DEFINE n == Cardinality(DOMAIN stack)
<1>1. n \in Nat
  BY FS_CardinalityType
<1>2. PICK round : Rounds(round, stack, n) /\ Startable(stack) = round[n]
  BY StartableRounds
<1> HIDE DEF n
<1>3. /\ \A i \in 0..n : round[i] \subseteq DOMAIN stack
      /\ \A i \in 1..n : round[i] = Round(stack, round[i - 1])
  <2>1. Rounds(round, stack, n)
    BY <1>2
  <2>2. \A last \in Nat : Rounds(round, stack, last) =>
          /\ \A i \in 0..last : round[i] \subseteq DOMAIN stack
          /\ \A i \in 1..last : round[i] = Round(stack, round[i - 1])
    <3> SUFFICES ASSUME NEW last \in Nat, Rounds(round, stack, last)
                 PROVE  /\ \A i \in 0..last : round[i] \subseteq DOMAIN stack
                        /\ \A i \in 1..last : round[i] = Round(stack, round[i - 1])
      OBVIOUS
    <3>1. QED
      BY RoundsAre
  <2>3. QED
    BY <1>1, <2>1, <2>2
<1> DEFINE T == {i \in Nat : i <= n => \A s \in DOMAIN stack : rank[s] <= i => s \in round[i]}
<1>4. 0 \in T
  OBVIOUS
<1>5. ASSUME NEW i \in Nat, i \in T
      PROVE  i + 1 \in T
  <2> SUFFICES ASSUME i + 1 <= n, NEW s \in DOMAIN stack, rank[s] <= i + 1
               PROVE  s \in round[i + 1]
    OBVIOUS
  <2>1. round[i + 1] = Round(stack, round[i])
    BY <1>1, <1>3
  <2>2. ASSUME NEW dep \in stack[s].depends_on
        PROVE  dep[1] \in round[i] /\ Meets(stack[dep[1]], dep[2])
    <3>1. /\ dep[1] \in DOMAIN stack /\ rank[dep[1]] < rank[s]
          /\ Meets(stack[dep[1]], dep[2])
      OBVIOUS
    <3>2. rank[dep[1]] \in Nat /\ rank[s] \in Nat
      BY <3>1
    <3>3. rank[dep[1]] <= i
      BY <3>1, <3>2
    <3>4. QED
      BY <1>1, <1>5, <3>1, <3>3
  <2>3. QED
    BY <2>1, <2>2 DEF Round
<1> HIDE DEF T
<1>6. n \in T
  BY <1>1, <1>4, <1>5, NatSetInduction
<1>7. DOMAIN stack \subseteq round[n]
  BY <1>1, <1>6 DEF T, n
<1>8. QED
  <2>1. n \in 0..n
    BY <1>1
  <2>2. QED
    BY <1>2, <1>3, <1>7, <2>1, Zenon

\* Whatever compose can start waits for services that are there.
LEMMA StartableClosed ==
  ASSUME NEW stack, IsFiniteSet(DOMAIN stack), NEW s \in Startable(stack),
         NEW dep \in stack[s].depends_on
  PROVE  dep[1] \in DOMAIN stack
<1> DEFINE n == Cardinality(DOMAIN stack)
<1>1. n \in Nat
  BY FS_CardinalityType
<1>2. PICK round : Rounds(round, stack, n) /\ Startable(stack) = round[n]
  BY StartableRounds
<1> HIDE DEF n
<1>3. /\ \A i \in 0..n : round[i] \subseteq DOMAIN stack
      /\ \A i \in 1..n : round[i] = Round(stack, round[i - 1])
      /\ round[0] = {}
  BY <1>1, <1>2, RoundsAre
<1>4. n # 0 /\ s \in Round(stack, round[n - 1])
  BY <1>1, <1>2, <1>3
<1>5. QED
  BY <1>1, <1>3, <1>4 DEF Round

-----------------------------------------------------------------------------
(* Each service has what it waits for.                                     *)

\* The services by how long a chain of others they wait for; an indexer has 2.
RankOf(s) ==
  IF s \in {"bitcoind", "lnd-tor-wait", "lnd2-tor-wait", "lnd3-tor-wait", "cashu-wallet",
            "nostr-relay", "cashupayserver-init", "woocommerce-db", "mempool-db"} THEN 1
  ELSE IF s \in {"lnd-nodeinfo", "lnd2-nodeinfo", "lnd3-nodeinfo", "lnd-setup", "cashu",
                 "gatewayd", "gatewayd2", "gatewayd3", "fedimint-setup", "captaind",
                 "ark-channel", "electrum", "mempool-api", "woocommerce-init"} THEN 3
  ELSE IF s \in {"lnd-channels", "fedimint-gateways", "ark-setup", "electrum-fund",
                 "mempool-web"} THEN 4
  ELSE IF s = "lnd-rebalancer" THEN 5
  ELSE 2

LEMMA Ranks ==
  /\ \A s \in {"bitcoind", "lnd-tor-wait", "lnd2-tor-wait", "lnd3-tor-wait", "cashu-wallet",
               "nostr-relay", "cashupayserver-init", "woocommerce-db", "mempool-db"} :
       RankOf(s) = 1
  /\ \A s \in {"lnd", "lnd2", "lnd3", "cln", "fedimintd", "fedimintd2", "fedimintd3",
               "nostr-relay-sweeper", "cashupayserver", "woocommerce", "miner", "claimer",
               "donations"} :
       RankOf(s) = 2
  /\ \A s \in {"lnd-nodeinfo", "lnd2-nodeinfo", "lnd3-nodeinfo", "lnd-setup", "cashu",
               "gatewayd", "gatewayd2", "gatewayd3", "fedimint-setup", "captaind",
               "ark-channel", "electrum", "mempool-api", "woocommerce-init"} :
       RankOf(s) = 3
  /\ \A s \in {"lnd-channels", "fedimint-gateways", "ark-setup", "electrum-fund",
               "mempool-web"} :
       RankOf(s) = 4
  /\ RankOf("lnd-rebalancer") = 5
  /\ \A s : HomeOf(s) = 3 => RankOf(s) = 2
<1>1. \A s : HomeOf(s) = 3 => RankOf(s) = 2
  BY DEF RankOf, HomeOf
<1>2. QED
  BY <1>1 DEF RankOf

\* Among the emitted services is the one the dependency names, and it can meet it.
Offered(emitted, dep) == \E y \in emitted : y[1] = dep[1] /\ Meets(y[2], dep[2])

\* The service x has what it waits for, of a lower rank than its own.
Fulfilled(emitted, x) ==
  \A dep \in x[2].depends_on : Offered(emitted, dep) /\ RankOf(dep[1]) < RankOf(x[1])

LEMMA Offers ==
  ASSUME NEW emitted, NEW y \in emitted
  PROVE  /\ Offered(emitted, Started(y[1]))
         /\ y[2].healthcheck => Offered(emitted, Healthy(y[1]))
         /\ y[2].job => Offered(emitted, Completed(y[1]))
  BY DEF Offered, Meets, Started, Healthy, Completed

\* An accepted network, whose indexers are a list and have names of their own, and whose
\* gateways have their ring nodes.
Sound(g, k, n) ==
  /\ IsNetworkCfg(n) /\ OwnNames(n)
  /\ EnabledIndexers(n) \in Seq({EnabledIndexers(n)[i] : i \in DOMAIN EnabledIndexers(n)})
  /\ ValidRing(k, n) /\ ValidShops(n) /\ ValidArk(g, k, n) /\ ValidElectrum(k, n)

\* The sidecars of the ring.
ChannelsJob(k, n) ==
  Job("on-failure",
      RingHealthy \cup OnlyIf(LndFundingMode(k, n) = "auto", {Started("lnd-setup")}),
      RingVolumes)
SetupJob == Job("on-failure", {Healthy("bitcoind")} \cup RingHealthy, RingVolumes)
RebalancerDaemon == Daemon(FALSE, RingHealthy \cup {Started("lnd-channels")}, {}, RingVolumes)

LEMMA Sidecars ==
  ASSUME NEW k, NEW n, NEW x
  PROVE  x \in RingSidecars(k, n) <=>
           \/ x = <<"lnd-channels", ChannelsJob(k, n)>>
           \/ LndFundingMode(k, n) = "auto" /\ x = <<"lnd-setup", SetupJob>>
           \/ RebalancerEnabled(n) /\ x = <<"lnd-rebalancer", RebalancerDaemon>>
<1>1. RingSidecars(k, n) =
        {<<"lnd-channels", ChannelsJob(k, n)>>}
        \cup OnlyIf(LndFundingMode(k, n) = "auto", {<<"lnd-setup", SetupJob>>})
        \cup OnlyIf(RebalancerEnabled(n), {<<"lnd-rebalancer", RebalancerDaemon>>})
  BY Zenon DEF RingSidecars, ChannelsJob, SetupJob, RebalancerDaemon
<1>2. QED
  BY <1>1 DEF OnlyIf

LEMMA LndServices ==
  ASSUME NEW g, NEW k, NEW n, NEW x
  PROVE  x \in Lnd(g, k, n).services <=>
           x \in LndNodes(g, n) \/ (ChannelsEnabled(n) /\ x \in RingSidecars(k, n))
  BY DEF Lnd, Fragment, OnlyIf

LEMMA LndOffers ==
  ASSUME NEW g, NEW k, NEW n
  PROVE  LET emitted == Emitted(g, k, n) IN
         /\ Offered(emitted, Healthy("bitcoind"))
         /\ \A s \in DeployedRing(n) :
              /\ Offered(emitted, Healthy(s))
              /\ DialsOverTor(g, s) => Offered(emitted, Completed(TorWait[s]))
         /\ ChannelsEnabled(n) => Offered(emitted, Started("lnd-channels"))
         /\ ChannelsEnabled(n) /\ LndFundingMode(k, n) = "auto" =>
              Offered(emitted, Started("lnd-setup"))
<1> DEFINE emitted == Emitted(g, k, n)
<1>1. Offered(emitted, Healthy("bitcoind"))
  <2>1. PICK y \in Bitcoind(g, k, n).services : y[1] = "bitcoind" /\ y[2].healthcheck
    BY DEF Bitcoind, Fragment, Daemon
  <2>2. QED
    BY <2>1, EmittedBy, Offers
<1>2. ASSUME NEW s \in DeployedRing(n)
      PROVE  Offered(emitted, Healthy(s))
  <2> DEFINE y == <<s, LndNode(g, s)>>
  <2>1. y \in Lnd(g, k, n).services /\ y[1] = s /\ y[2].healthcheck
    BY DEF Lnd, LndNodes, Fragment, LndNode, Daemon
  <2> HIDE DEF y
  <2>2. QED
    BY <2>1, EmittedBy, Offers
<1>3. ASSUME NEW s \in DeployedRing(n), DialsOverTor(g, s)
      PROVE  Offered(emitted, Completed(TorWait[s]))
  <2> DEFINE y == <<TorWait[s], Job("no", {}, {})>>
  <2>1. y \in Lnd(g, k, n).services /\ y[1] = TorWait[s] /\ y[2].job
    BY <1>3 DEF Lnd, LndNodes, Fragment, Job
  <2> HIDE DEF y
  <2>2. QED
    BY <2>1, EmittedBy, Offers
<1>4. ASSUME ChannelsEnabled(n)
      PROVE  Offered(emitted, Started("lnd-channels"))
  <2> DEFINE y == <<"lnd-channels", ChannelsJob(k, n)>>
  <2>1. y \in Lnd(g, k, n).services
    BY <1>4, Sidecars, LndServices
  <2>2. y[1] = "lnd-channels"
    OBVIOUS
  <2> HIDE DEF y
  <2>3. QED
    BY <2>1, <2>2, EmittedBy, Offers
<1>5. ASSUME ChannelsEnabled(n), LndFundingMode(k, n) = "auto"
      PROVE  Offered(emitted, Started("lnd-setup"))
  <2> DEFINE y == <<"lnd-setup", SetupJob>>
  <2>1. y \in Lnd(g, k, n).services
    BY <1>5, Sidecars, LndServices
  <2>2. y[1] = "lnd-setup"
    OBVIOUS
  <2> HIDE DEF y
  <2>3. QED
    BY <2>1, <2>2, EmittedBy, Offers
<1>6. QED
  BY <1>1, <1>2, <1>3, <1>4, <1>5

LEMMA IndexerOffers ==
  ASSUME NEW g, NEW k, NEW n, Sound(g, k, n), EnabledIndexers(n) # << >>
  PROVE  /\ 1 \in DOMAIN EnabledIndexers(n)
         /\ Offered(Emitted(g, k, n), Healthy(EnabledIndexers(n)[1].name))
         /\ RankOf(EnabledIndexers(n)[1].name) = 2
<1>1. 1 \in DOMAIN EnabledIndexers(n)
  <2> DEFINE s == EnabledIndexers(n)
             S == {s[i] : i \in DOMAIN s}
  <2>1. s \in Seq(S) /\ s # << >>
    BY DEF Sound
  <2> HIDE DEF s, S
  <2>2. 1 \in DOMAIN s
    BY <2>1
  <2>3. QED
    BY <2>2 DEF s
<1> DEFINE y == <<EnabledIndexers(n)[1].name, Indexer(n, 1)>>
<1>2. y \in Fulcrum(n).services
  BY <1>1, FirstIndexer DEF Sound
<1>3. y[1] = EnabledIndexers(n)[1].name /\ y[2].healthcheck
  BY DEF Indexer, Daemon
<1>4. RankOf(EnabledIndexers(n)[1].name) = 2
  BY <1>1, Ranks DEF Sound, OwnNames, IndexerNames
<1> HIDE DEF y
<1>5. y \in Emitted(g, k, n)
  BY <1>2, EmittedBy
<1>6. QED
  BY <1>1, <1>3, <1>4, <1>5, Offers

-----------------------------------------------------------------------------
(* Each service has the volumes it mounts.                                 *)

\* The volumes the builders declare.
Kept(g, k, n) == UNION {Registry(g, k, n)[i].volumes : i \in 1..14}

LEMMA KeptBy ==
  ASSUME NEW g, NEW k, NEW n
  PROVE  /\ Bitcoind(g, k, n).volumes \subseteq Kept(g, k, n)
         /\ Lnd(g, k, n).volumes \subseteq Kept(g, k, n)
         /\ EnabledIndexers(n) # << >> => Fulcrum(n).volumes \subseteq Kept(g, k, n)
         /\ n.cashu.enabled => Cashu.volumes \subseteq Kept(g, k, n)
         /\ FedimintEnabled(k, n) => Fedimint(k, n).volumes \subseteq Kept(g, k, n)
         /\ ArkEnabled(k, n) => Ark(n).volumes \subseteq Kept(g, k, n)
         /\ n.electrum.enabled => Electrum(k, n).volumes \subseteq Kept(g, k, n)
         /\ n.cashupayserver.enabled => CashuPayServer.volumes \subseteq Kept(g, k, n)
         /\ n.woocommerce.enabled => WooCommerce.volumes \subseteq Kept(g, k, n)
         /\ MempoolEnabled(k, n) => Mempool(n).volumes \subseteq Kept(g, k, n)
         /\ k \in CLAIM_NETWORKS /\ n.claimer.enabled =>
              Claimer(n).volumes \subseteq Kept(g, k, n)
         /\ Donations.volumes \subseteq Kept(g, k, n)
<1>1. \A i \in 1..14 : Registry(g, k, n)[i].volumes \subseteq Kept(g, k, n)
  BY DEF Kept
<1>2. \A cond, f : cond => If(cond, f).volumes = f.volumes
  BY DEF If
<1>3. ASSUME NEW i \in 1..14, NEW cond, NEW f, Registry(g, k, n)[i] = If(cond, f), cond
      PROVE  f.volumes \subseteq Kept(g, k, n)
  BY <1>1, <1>2, <1>3
<1>4. ASSUME NEW i \in 1..14, NEW f, Registry(g, k, n)[i] = f
      PROVE  f.volumes \subseteq Kept(g, k, n)
  BY <1>1, <1>4
<1>5. /\ Bitcoind(g, k, n).volumes \subseteq Kept(g, k, n)
      /\ Lnd(g, k, n).volumes \subseteq Kept(g, k, n)
      /\ Donations.volumes \subseteq Kept(g, k, n)
  BY <1>4, RegistryOf
<1>6. ASSUME EnabledIndexers(n) # << >> PROVE Fulcrum(n).volumes \subseteq Kept(g, k, n)
  <2>1. Registry(g, k, n)[3] = If(EnabledIndexers(n) # << >>, Fulcrum(n))
    BY RegistryOf
  <2>2. If(EnabledIndexers(n) # << >>, Fulcrum(n)) = Fulcrum(n)
    BY <1>6 DEF If
  <2>3. QED
    BY <1>4, <2>1, <2>2
<1>7. n.cashu.enabled => Cashu.volumes \subseteq Kept(g, k, n)
  BY <1>3, RegistryOf
<1>8. FedimintEnabled(k, n) => Fedimint(k, n).volumes \subseteq Kept(g, k, n)
  BY <1>3, RegistryOf
<1>9. ArkEnabled(k, n) => Ark(n).volumes \subseteq Kept(g, k, n)
  BY <1>3, RegistryOf
<1>10. n.electrum.enabled => Electrum(k, n).volumes \subseteq Kept(g, k, n)
  BY <1>3, RegistryOf
<1>11. n.cashupayserver.enabled => CashuPayServer.volumes \subseteq Kept(g, k, n)
  BY <1>3, RegistryOf
<1>12. n.woocommerce.enabled => WooCommerce.volumes \subseteq Kept(g, k, n)
  BY <1>3, RegistryOf
<1>13. MempoolEnabled(k, n) => Mempool(n).volumes \subseteq Kept(g, k, n)
  BY <1>3, RegistryOf
<1>14. ASSUME k \in CLAIM_NETWORKS, n.claimer.enabled
       PROVE  Claimer(n).volumes \subseteq Kept(g, k, n)
  <2>1. Registry(g, k, n)[13] = If(k \in CLAIM_NETWORKS /\ n.claimer.enabled, Claimer(n))
    BY RegistryOf
  <2>2. If(k \in CLAIM_NETWORKS /\ n.claimer.enabled, Claimer(n)) = Claimer(n)
    BY <1>14 DEF If
  <2>3. QED
    BY <1>4, <2>1, <2>2
<1>15. QED
  BY <1>5, <1>6, <1>7, <1>8, <1>9, <1>10, <1>11, <1>12, <1>13, <1>14

\* A service with all it needs.
Equipped(g, k, n, x) ==
  /\ Fulfilled(Emitted(g, k, n), x)
  /\ x[2].volumes \subseteq Kept(g, k, n)

LEMMA RingKept ==
  ASSUME NEW g, NEW k, NEW n
  PROVE  /\ \A s \in DeployedRing(n) : LndVolume[s] \in Kept(g, k, n)
         /\ ChannelsEnabled(n) => "lnd_setup_state" \in Kept(g, k, n)
         /\ "lnd_data" \in Kept(g, k, n)
<1>1. /\ \A s \in DeployedRing(n) : LndVolume[s] \in Lnd(g, k, n).volumes
      /\ ChannelsEnabled(n) => "lnd_setup_state" \in Lnd(g, k, n).volumes
  BY DEF Lnd, Fragment, OnlyIf
<1>2. "lnd" \in DeployedRing(n) /\ LndVolume["lnd"] = "lnd_data"
  BY RingNames DEF LndVolume
<1>3. QED
  BY <1>1, <1>2, KeptBy

LEMMA LndEquipped ==
  ASSUME NEW g, NEW k, NEW n, Sound(g, k, n), NEW x \in Lnd(g, k, n).services
  PROVE  Equipped(g, k, n, x)
<1> DEFINE emitted == Emitted(g, k, n)
<1>1. CASE x \in LndNodes(g, n)
  <2>1. PICK s \in DeployedRing(n) :
          \/ x = <<s, LndNode(g, s)>>
          \/ x = <<NodeInfo[s], Daemon(FALSE, {Healthy(s)}, {}, {LndVolume[s]})>>
          \/ x = <<TorWait[s], Job("no", {}, {})>>
    BY <1>1 DEF LndNodes
  <2>2. /\ RankOf("bitcoind") = 1 /\ RankOf(s) = 2 /\ RankOf(NodeInfo[s]) = 3
        /\ RankOf(TorWait[s]) = 1
    BY RingNames, Ranks DEF NodeInfo, TorWait
  <2>3. /\ Offered(emitted, Healthy("bitcoind")) /\ Offered(emitted, Healthy(s))
        /\ DialsOverTor(g, s) => Offered(emitted, Completed(TorWait[s]))
    BY LndOffers
  <2>4. LndVolume[s] \in Kept(g, k, n)
    BY RingKept
  <2> HIDE DEF emitted
  <2>5. CASE x = <<s, LndNode(g, s)>>
    <3>1. /\ x[1] = s
          /\ x[2].depends_on =
               {Healthy("bitcoind")} \cup OnlyIf(DialsOverTor(g, s), {Completed(TorWait[s])})
          /\ x[2].volumes = {LndVolume[s]}
      BY <2>5 DEF LndNode, Daemon
    <3>2. Fulfilled(emitted, x)
      BY <2>2, <2>3, <3>1 DEF Fulfilled, OnlyIf, Healthy, Completed
    <3>3. QED
      BY <2>4, <3>1, <3>2 DEF Equipped, emitted
  <2>6. CASE x = <<NodeInfo[s], Daemon(FALSE, {Healthy(s)}, {}, {LndVolume[s]})>>
    <3>1. /\ x[1] = NodeInfo[s]
          /\ x[2].depends_on = {Healthy(s)} /\ x[2].volumes = {LndVolume[s]}
      BY <2>6 DEF Daemon
    <3>2. Fulfilled(emitted, x)
      BY <2>2, <2>3, <3>1 DEF Fulfilled, Healthy
    <3>3. QED
      BY <2>4, <3>1, <3>2 DEF Equipped, emitted
  <2>7. CASE x = <<TorWait[s], Job("no", {}, {})>>
    BY <2>7 DEF Equipped, Fulfilled, Job
  <2>8. QED
    BY <2>1, <2>5, <2>6, <2>7
<1>2. CASE ChannelsEnabled(n) /\ x \in RingSidecars(k, n)
  <2>1. {"lnd", "lnd2", "lnd3"} \subseteq DeployedRing(n)
    BY <1>2, RingNames DEF Sound, ValidRing
  <2>2. x[2].volumes = RingVolumes
    BY <1>2, Sidecars DEF ChannelsJob, SetupJob, RebalancerDaemon, Job, Daemon
  <2>3. RingVolumes \subseteq Kept(g, k, n)
    BY <1>2, <2>1, RingKept DEF RingVolumes, LndVolume
  <2>4. /\ Offered(emitted, Healthy("bitcoind"))
        /\ \A dep \in RingHealthy : Offered(emitted, dep) /\ RankOf(dep[1]) = 2
    BY <2>1, LndOffers, Ranks DEF RingHealthy, Healthy
  <2>5. /\ Offered(emitted, Started("lnd-channels"))
        /\ LndFundingMode(k, n) = "auto" => Offered(emitted, Started("lnd-setup"))
    BY <1>2, LndOffers
  <2>6. /\ RankOf("lnd-setup") = 3 /\ RankOf("lnd-channels") = 4 /\ RankOf("bitcoind") = 1
        /\ RankOf("lnd-rebalancer") = 5
    BY Ranks
  <2> HIDE DEF emitted
  <2>7. ASSUME x = <<"lnd-channels", ChannelsJob(k, n)>>
       PROVE  Fulfilled(emitted, x)
    <3>1. /\ x[1] = "lnd-channels"
          /\ x[2].depends_on =
               RingHealthy \cup OnlyIf(LndFundingMode(k, n) = "auto", {Started("lnd-setup")})
      BY <2>7 DEF ChannelsJob, Job
    <3>2. QED
      BY <2>4, <2>5, <2>6, <3>1 DEF Fulfilled, OnlyIf, Started
  <2>8. ASSUME x = <<"lnd-setup", SetupJob>>
       PROVE  Fulfilled(emitted, x)
    <3>1. x[1] = "lnd-setup" /\ x[2].depends_on = {Healthy("bitcoind")} \cup RingHealthy
      BY <2>8 DEF SetupJob, Job
    <3>2. QED
      BY <2>4, <2>6, <3>1 DEF Fulfilled, Healthy
  <2>9. ASSUME x = <<"lnd-rebalancer", RebalancerDaemon>>
       PROVE  Fulfilled(emitted, x)
    <3>1. x[1] = "lnd-rebalancer" /\ x[2].depends_on = RingHealthy \cup {Started("lnd-channels")}
      BY <2>9 DEF RebalancerDaemon, Daemon
    <3>2. QED
      BY <2>4, <2>5, <2>6, <3>1 DEF Fulfilled, Started
  <2>10. Fulfilled(emitted, x)
    BY <1>2, <2>7, <2>8, <2>9, Sidecars
  <2>11. QED
    BY <2>2, <2>3, <2>10 DEF Equipped, emitted
<1>3. QED
  BY <1>1, <1>2, LndServices

LEMMA PlainEquipped ==
  ASSUME NEW g, NEW k, NEW n, NEW x,
         \/ x \in Bitcoind(g, k, n).services
         \/ n.cashu.enabled /\ x \in Cashu.services
         \/ x \in CashuWallet.services
         \/ x \in Miner.services
         \/ k \in CLAIM_NETWORKS /\ n.claimer.enabled /\ x \in Claimer(n).services
         \/ x \in Donations.services
  PROVE  Equipped(g, k, n, x)
<1> DEFINE emitted == Emitted(g, k, n)
<1>1. /\ Offered(emitted, Healthy("bitcoind")) /\ Offered(emitted, Healthy("lnd"))
      /\ Healthy("bitcoind")[1] = "bitcoind" /\ Healthy("lnd")[1] = "lnd"
  BY LndOffers, RingNames DEF Healthy
<1> HIDE DEF emitted
<1>2. CASE x \in Bitcoind(g, k, n).services
  <2>1. /\ x[2].depends_on = {}
        /\ x[2].volumes = {"bitcoind_data"} \cup OnlyIf(BitcoindGated(k, n), {"lnd_setup_state"})
    BY <1>2 DEF Bitcoind, Fragment, Daemon
  <2>2. "bitcoind_data" \in Kept(g, k, n)
    BY KeptBy DEF Bitcoind, Fragment
  <2>3. BitcoindGated(k, n) => "lnd_setup_state" \in Kept(g, k, n)
    BY RingKept DEF BitcoindGated
  <2>4. QED
    BY <2>1, <2>2, <2>3 DEF Equipped, Fulfilled, OnlyIf
<1>3. CASE n.cashu.enabled /\ x \in Cashu.services
  <2>1. /\ x[1] = "cashu" /\ x[2].depends_on = {Healthy("lnd")}
        /\ x[2].volumes = {"cashu_data", "lnd_data"}
    BY <1>3 DEF Cashu, Fragment, Daemon
  <2>2. {"cashu_data", "lnd_data"} \subseteq Kept(g, k, n)
    BY <1>3, KeptBy, RingKept DEF Cashu, Fragment
  <2>3. QED
    BY <1>1, <2>1, <2>2, Ranks DEF Equipped, Fulfilled, emitted
<1>4. CASE x \in CashuWallet.services
  BY <1>4 DEF CashuWallet, Fragment, Daemon, Equipped, Fulfilled
<1>5. CASE x \in Miner.services
  <2>1. x[1] = "miner" /\ x[2].depends_on = {Healthy("bitcoind")} /\ x[2].volumes = {}
    BY <1>5 DEF Miner, Fragment, Daemon
  <2>2. QED
    BY <1>1, <2>1, Ranks DEF Equipped, Fulfilled, emitted
<1>6. CASE k \in CLAIM_NETWORKS /\ n.claimer.enabled /\ x \in Claimer(n).services
  <2>1. /\ x[1] = "claimer" /\ x[2].depends_on = {Healthy("bitcoind")}
        /\ x[2].volumes \subseteq {"claimer_state", "lnd_data"}
    BY <1>6 DEF Claimer, Fragment, Daemon, OnlyIf
  <2>2. {"claimer_state", "lnd_data"} \subseteq Kept(g, k, n)
    BY <1>6, KeptBy, RingKept DEF Claimer, Fragment
  <2>3. QED
    BY <1>1, <2>1, <2>2, Ranks DEF Equipped, Fulfilled, emitted
<1>7. CASE x \in Donations.services
  <2>1. /\ x[1] = "donations" /\ x[2].depends_on = {Healthy("bitcoind")}
        /\ x[2].volumes = {"donations_state"}
    BY <1>7 DEF Donations, Fragment, Daemon
  <2>2. "donations_state" \in Kept(g, k, n)
    BY KeptBy DEF Donations, Fragment
  <2>3. QED
    BY <1>1, <2>1, <2>2, Ranks DEF Equipped, Fulfilled, emitted
<1>8. QED
  BY <1>2, <1>3, <1>4, <1>5, <1>6, <1>7

LEMMA FulcrumEquipped ==
  ASSUME NEW g, NEW k, NEW n, Sound(g, k, n), EnabledIndexers(n) # << >>,
         NEW x \in Fulcrum(n).services
  PROVE  Equipped(g, k, n, x)
<1> DEFINE emitted == Emitted(g, k, n)
<1>1. PICK i \in DOMAIN EnabledIndexers(n) : x = <<EnabledIndexers(n)[i].name, Indexer(n, i)>>
  BY DEF Fulcrum, Fragment
<1>2. EnabledIndexers(n)[i].name \in IndexerNames(n)
  BY DEF IndexerNames
<1>3. /\ x[1] = EnabledIndexers(n)[i].name /\ x[2].depends_on = {Healthy("bitcoind")}
      /\ x[2].volumes = {IndexerVolume(EnabledIndexers(n)[i].name)}
  BY <1>1 DEF Indexer, Daemon
<1>4. RankOf(x[1]) = 2 /\ RankOf("bitcoind") = 1
  BY <1>2, <1>3, Ranks DEF Sound, OwnNames
<1>5. Offered(emitted, Healthy("bitcoind")) /\ Healthy("bitcoind")[1] = "bitcoind"
  BY LndOffers DEF Healthy
<1>6. IndexerVolume(EnabledIndexers(n)[i].name) \in Kept(g, k, n)
  BY <1>2, KeptBy DEF Fulcrum, Fragment
<1> HIDE DEF emitted
<1>7. QED
  BY <1>3, <1>4, <1>5, <1>6 DEF Equipped, Fulfilled, emitted

LEMMA ArkEquipped ==
  ASSUME NEW g, NEW k, NEW n, Sound(g, k, n), ArkEnabled(k, n), NEW x \in Ark(n).services
  PROVE  Equipped(g, k, n, x)
<1> DEFINE emitted == Emitted(g, k, n)
           target == ARK_RING_NODES[n.ark.target_node]
<1>1. target \in DeployedRing(n)
  BY DEF Sound, ValidArk, TargetEnabled
<1>2. Offered(emitted, Healthy("bitcoind")) /\ Offered(emitted, Healthy(target))
  BY <1>1, LndOffers
<1>3. Offered(emitted, Healthy("cln")) /\ Offered(emitted, Healthy("captaind"))
  <2>1. /\ \E y \in Ark(n).services : y[1] = "cln" /\ y[2].healthcheck
        /\ \E y \in Ark(n).services : y[1] = "captaind" /\ y[2].healthcheck
    BY DEF Ark, Fragment, Daemon
  <2>2. QED
    BY <2>1, EmittedBy, Offers
<1>4. {"ark_cln_data", "ark_captaind_data", "ark_captaind_pg", "ark_state"} \subseteq Kept(g, k, n)
  BY KeptBy DEF Ark, Fragment
<1>5. LndVolume[target] \in Kept(g, k, n)
  BY <1>1, RingKept
<1>6. /\ RankOf("bitcoind") = 1 /\ RankOf("cln") = 2 /\ RankOf(target) = 2
      /\ RankOf("captaind") = 3 /\ RankOf("ark-setup") = 4 /\ RankOf("ark-channel") = 3
  BY <1>1, RingNames, Ranks
<1>7. \/ /\ x[1] = "cln" /\ x[2].depends_on = {Healthy("bitcoind")}
         /\ x[2].volumes = {"ark_cln_data"}
      \/ /\ x[1] = "captaind" /\ x[2].depends_on = {Healthy("bitcoind"), Healthy("cln")}
         /\ x[2].volumes = {"ark_captaind_data", "ark_captaind_pg", "ark_cln_data"}
      \/ /\ x[1] = "ark-setup" /\ x[2].depends_on = {Healthy("captaind")}
         /\ x[2].volumes = {"ark_state"}
      \/ /\ x[1] = "ark-channel" /\ x[2].depends_on = {Healthy("cln"), Healthy(target)}
         /\ x[2].volumes = {"ark_cln_data", LndVolume[target], "ark_state"}
  BY DEF Ark, Fragment, Daemon, Job
<1> HIDE DEF emitted, target
<1>8. x[2].volumes \subseteq Kept(g, k, n)
  BY <1>4, <1>5, <1>7
<1>9. Fulfilled(emitted, x)
  BY <1>2, <1>3, <1>6, <1>7 DEF Fulfilled, Healthy
<1>10. QED
  BY <1>8, <1>9 DEF Equipped, emitted

LEMMA ShopsEquipped ==
  ASSUME NEW g, NEW k, NEW n, Sound(g, k, n), NEW x,
         \/ n.cashupayserver.enabled /\ x \in CashuPayServer.services
         \/ n.woocommerce.enabled /\ x \in WooCommerce.services
  PROVE  Equipped(g, k, n, x)
<1> DEFINE emitted == Emitted(g, k, n)
<1>1. n.cashupayserver.enabled
  BY DEF Sound, ValidShops
<1>2. Offered(emitted, Completed("cashupayserver-init"))
  <2>1. \E y \in CashuPayServer.services : y[1] = "cashupayserver-init" /\ y[2].job
    BY DEF CashuPayServer, Fragment, Job
  <2>2. QED
    BY <1>1, <2>1, EmittedBy, Offers
<1>3. {"cashupayserver_data", "cashupayserver_pairing"} \subseteq Kept(g, k, n)
  BY <1>1, KeptBy DEF CashuPayServer, Fragment
<1>4. /\ RankOf("cashupayserver-init") = 1 /\ RankOf("cashupayserver") = 2
      /\ RankOf("woocommerce-db") = 1 /\ RankOf("woocommerce") = 2
      /\ RankOf("woocommerce-init") = 3
  BY Ranks
<1>5. CASE n.cashupayserver.enabled /\ x \in CashuPayServer.services
  <2>1. \/ /\ x[1] = "cashupayserver-init" /\ x[2].depends_on = {}
           /\ x[2].volumes = {"cashupayserver_data", "cashupayserver_pairing"}
        \/ /\ x[1] = "cashupayserver" /\ x[2].depends_on = {Completed("cashupayserver-init")}
           /\ x[2].volumes = {"cashupayserver_data"}
    BY <1>5 DEF CashuPayServer, Fragment, Daemon, Job
  <2> HIDE DEF emitted
  <2>2. Fulfilled(emitted, x)
    BY <1>2, <1>4, <2>1 DEF Fulfilled, Completed
  <2>3. QED
    BY <1>3, <2>1, <2>2 DEF Equipped, emitted
<1>6. CASE n.woocommerce.enabled /\ x \in WooCommerce.services
  <2>1. \/ /\ x[1] = "woocommerce-db" /\ x[2].depends_on = {}
           /\ x[2].volumes = {"woocommerce_db_data"}
        \/ /\ x[1] = "woocommerce" /\ x[2].depends_on = {Healthy("woocommerce-db")}
           /\ x[2].volumes = {"wordpress_data"}
        \/ /\ x[1] = "woocommerce-init"
           /\ x[2].depends_on = {Healthy("woocommerce-db"), Started("woocommerce"),
                                 Completed("cashupayserver-init")}
           /\ x[2].volumes = {"wordpress_data", "cashupayserver_pairing"}
    BY <1>6 DEF WooCommerce, Fragment, Daemon, Job
  <2>2. Offered(emitted, Healthy("woocommerce-db")) /\ Offered(emitted, Started("woocommerce"))
    <3>1. /\ \E y \in WooCommerce.services : y[1] = "woocommerce-db" /\ y[2].healthcheck
          /\ \E y \in WooCommerce.services : y[1] = "woocommerce"
      BY DEF WooCommerce, Fragment, Daemon
    <3>2. QED
      BY <1>6, <3>1, EmittedBy, Offers
  <2>3. {"woocommerce_db_data", "wordpress_data"} \subseteq Kept(g, k, n)
    BY <1>6, KeptBy DEF WooCommerce, Fragment
  <2> HIDE DEF emitted
  <2>4. Fulfilled(emitted, x)
    BY <1>2, <1>4, <2>1, <2>2 DEF Fulfilled, Completed, Healthy, Started
  <2>5. QED
    BY <1>3, <2>1, <2>3, <2>4 DEF Equipped, emitted
<1>7. QED
  BY <1>5, <1>6

LEMMA MempoolEquipped ==
  ASSUME NEW g, NEW k, NEW n, Sound(g, k, n), MempoolEnabled(k, n),
         NEW x \in Mempool(n).services
  PROVE  Equipped(g, k, n, x)
<1> DEFINE emitted == Emitted(g, k, n)
           first == EnabledIndexers(n)[1].name
           listed == EnabledIndexers(n) # << >>
           db == Daemon(TRUE, {}, {}, {"mempool_db_data"})
           api == Daemon(FALSE,
                    {Healthy("mempool-db"), Healthy("bitcoind")}
                      \cup OnlyIf(listed, {Healthy(first)})
                      \cup OnlyIf(n.mempool.lightning, {Healthy("lnd")}),
                    {Loopback(P("mempool_api"))}, OnlyIf(n.mempool.lightning, {"lnd_data"}))
           web == Daemon(FALSE, {Started("mempool-api")}, {Loopback(P("mempool_web"))}, {})
<1>1. /\ Offered(emitted, Healthy("bitcoind")) /\ Offered(emitted, Healthy("lnd"))
      /\ listed => Offered(emitted, Healthy(first)) /\ RankOf(first) = 2
  BY LndOffers, RingNames, IndexerOffers
<1>2. Mempool(n).services =
        {<<"mempool-db", db>>, <<"mempool-api", api>>, <<"mempool-web", web>>}
  BY Zenon DEF Mempool, Fragment
<1>3. /\ db.depends_on = {} /\ db.volumes = {"mempool_db_data"} /\ db.healthcheck
      /\ api.depends_on = {Healthy("mempool-db"), Healthy("bitcoind")}
                            \cup OnlyIf(listed, {Healthy(first)})
                            \cup OnlyIf(n.mempool.lightning, {Healthy("lnd")})
      /\ api.volumes = OnlyIf(n.mempool.lightning, {"lnd_data"})
      /\ web.depends_on = {Started("mempool-api")} /\ web.volumes = {}
  BY DEF Daemon
<1>4. /\ RankOf("bitcoind") = 1 /\ RankOf("lnd") = 2 /\ RankOf("mempool-db") = 1
      /\ RankOf("mempool-api") = 3 /\ RankOf("mempool-web") = 4
  BY Ranks
<1>5. "mempool_db_data" \in Kept(g, k, n) /\ "lnd_data" \in Kept(g, k, n)
  BY KeptBy, RingKept DEF Mempool, Fragment
<1>6. \A y : y \in Mempool(n).services => y \in emitted
  BY EmittedBy
<1> HIDE DEF emitted, first, listed, db, api, web
<1>7. Offered(emitted, Healthy("mempool-db")) /\ Offered(emitted, Started("mempool-api"))
  <2>1. <<"mempool-db", db>> \in emitted /\ <<"mempool-api", api>> \in emitted
    BY <1>2, <1>6
  <2>2. \A a, b : <<a, b>>[1] = a /\ <<a, b>>[2] = b
    OBVIOUS
  <2>3. QED
    BY <1>3, <2>1, <2>2, Offers, Zenon
<1>8. \/ x = <<"mempool-db", db>> \/ x = <<"mempool-api", api>> \/ x = <<"mempool-web", web>>
  BY <1>2
<1>9. x[2].volumes \subseteq Kept(g, k, n)
  BY <1>3, <1>5, <1>8 DEF OnlyIf
<1>10. Fulfilled(emitted, x)
  <2>1. CASE x = <<"mempool-db", db>>
    BY <1>3, <2>1 DEF Fulfilled
  <2>2. CASE x = <<"mempool-api", api>>
    <3>1. \A dep \in x[2].depends_on :
            \/ dep = Healthy("mempool-db") \/ dep = Healthy("bitcoind")
            \/ listed /\ dep = Healthy(first)
            \/ dep = Healthy("lnd")
      BY <1>3, <2>2 DEF OnlyIf
    <3>2. QED
      BY <1>1, <1>4, <1>7, <2>2, <3>1 DEF Fulfilled, Healthy
  <2>3. CASE x = <<"mempool-web", web>>
    BY <1>3, <1>4, <1>7, <2>3 DEF Fulfilled, Started
  <2>4. QED
    BY <1>8, <2>1, <2>2, <2>3
<1>11. QED
  BY <1>9, <1>10 DEF Equipped, emitted

LEMMA ElectrumEquipped ==
  ASSUME NEW g, NEW k, NEW n, Sound(g, k, n), n.electrum.enabled,
         NEW x \in Electrum(k, n).services
  PROVE  Equipped(g, k, n, x)
<1> DEFINE emitted == Emitted(g, k, n)
           first == EnabledIndexers(n)[1].name
           target == ARK_RING_NODES[n.electrum.target_node]
           relay == RelayEnabled(n)
           swaps == Daemon(FALSE,
                      {Healthy("bitcoind"), Healthy(first), Healthy(target)}
                        \cup OnlyIf(relay, {Started("nostr-relay")}),
                      {Loopback(P("electrum_rpc"))},
                      {"electrum_data", "electrum_state", LndVolume[target]})
           fund == Job("on-failure", {Healthy("bitcoind"), Started("electrum")},
                       {"electrum_state"})
           strfry == Daemon(FALSE, {}, {Loopback(P("nostr_relay_backend"))},
                            {"nostr_relay_data"})
           sweeper == Daemon(FALSE, {Started("nostr-relay")}, {}, {"nostr_relay_data"})
<1>1. Electrum(k, n).services =
        {<<"electrum", swaps>>}
        \cup OnlyIf(ElectrumFundingMode(k, n) = "auto", {<<"electrum-fund", fund>>})
        \cup OnlyIf(relay, {<<"nostr-relay", strfry>>, <<"nostr-relay-sweeper", sweeper>>})
  BY DEF Electrum, Fragment
<1>2. Electrum(k, n).volumes =
        {"electrum_data", "electrum_state"} \cup OnlyIf(relay, {"nostr_relay_data"})
  BY DEF Electrum, Fragment
<1>3. target \in DeployedRing(n) /\ EnabledIndexers(n) # << >>
  BY DEF Sound, ValidElectrum, TargetEnabled
<1>4. /\ Offered(emitted, Healthy("bitcoind")) /\ Offered(emitted, Healthy(target))
      /\ Offered(emitted, Healthy(first)) /\ RankOf(first) = 2 /\ RankOf(target) = 2
      /\ LndVolume[target] \in Kept(g, k, n)
  BY <1>3, LndOffers, RingNames, Ranks, RingKept, IndexerOffers
<1>5. /\ RankOf("bitcoind") = 1 /\ RankOf("nostr-relay") = 1
      /\ RankOf("nostr-relay-sweeper") = 2 /\ RankOf("electrum") = 3
      /\ RankOf("electrum-fund") = 4
  BY Ranks
<1>6. /\ swaps.depends_on = {Healthy("bitcoind"), Healthy(first), Healthy(target)}
                              \cup OnlyIf(relay, {Started("nostr-relay")})
      /\ swaps.volumes = {"electrum_data", "electrum_state", LndVolume[target]}
      /\ fund.depends_on = {Healthy("bitcoind"), Started("electrum")}
      /\ fund.volumes = {"electrum_state"}
      /\ strfry.depends_on = {} /\ strfry.volumes = {"nostr_relay_data"}
      /\ sweeper.depends_on = {Started("nostr-relay")}
      /\ sweeper.volumes = {"nostr_relay_data"}
  BY DEF Daemon, Job
<1>7. \A y : y \in Electrum(k, n).services => y \in emitted
  BY EmittedBy
<1> HIDE DEF emitted, first, target, relay, swaps, fund, strfry, sweeper
<1>8. /\ Offered(emitted, Started("electrum"))
      /\ relay => Offered(emitted, Started("nostr-relay"))
  <2>1. <<"electrum", swaps>> \in emitted /\ (relay => <<"nostr-relay", strfry>> \in emitted)
    BY <1>1, <1>7 DEF OnlyIf
  <2>2. <<"electrum", swaps>>[1] = "electrum" /\ <<"nostr-relay", strfry>>[1] = "nostr-relay"
    OBVIOUS
  <2>3. QED
    BY <2>1, <2>2, Offers, Zenon
<1>9. /\ {"electrum_data", "electrum_state"} \subseteq Kept(g, k, n)
      /\ relay => "nostr_relay_data" \in Kept(g, k, n)
  BY <1>2, KeptBy DEF OnlyIf
<1>10. \/ x = <<"electrum", swaps>>
       \/ x = <<"electrum-fund", fund>>
       \/ relay /\ x = <<"nostr-relay", strfry>>
       \/ relay /\ x = <<"nostr-relay-sweeper", sweeper>>
  BY <1>1 DEF OnlyIf
<1>11. x[2].volumes \subseteq Kept(g, k, n)
  BY <1>4, <1>6, <1>9, <1>10
<1>12. Fulfilled(emitted, x)
  <2>1. CASE x = <<"electrum", swaps>>
    <3>1. \A dep \in x[2].depends_on :
            \/ dep = Healthy("bitcoind") \/ dep = Healthy(first) \/ dep = Healthy(target)
            \/ relay /\ dep = Started("nostr-relay")
      BY <1>6, <2>1 DEF OnlyIf
    <3>2. QED
      BY <1>4, <1>5, <1>8, <2>1, <3>1 DEF Fulfilled, Healthy, Started
  <2>2. CASE x = <<"electrum-fund", fund>>
    BY <1>4, <1>5, <1>6, <1>8, <2>2 DEF Fulfilled, Healthy, Started
  <2>3. CASE relay /\ x = <<"nostr-relay", strfry>>
    BY <1>6, <2>3 DEF Fulfilled
  <2>4. CASE relay /\ x = <<"nostr-relay-sweeper", sweeper>>
    BY <1>5, <1>6, <1>8, <2>4 DEF Fulfilled, Started
  <2>5. QED
    BY <1>10, <2>1, <2>2, <2>3, <2>4
<1>13. QED
  BY <1>11, <1>12 DEF Equipped, emitted

LEMMA FedimintEquipped ==
  ASSUME NEW g, NEW k, NEW n, Sound(g, k, n), ~GatewayWithoutNode(k, n),
         FedimintEnabled(k, n), NEW x \in Fedimint(k, n).services
  PROVE  Equipped(g, k, n, x)
<1> DEFINE emitted == Emitted(g, k, n)
           count == 1..GuardianCount(k, n)
           guardians == {Guardians[i] : i \in count}
           gateways == {Gateways[i] : i \in count}
           setup == Job("on-failure", {Started(s) : s \in guardians},
                        {DataOf["fedimintd"], "fedimint_state"})
           connect == Job("on-failure",
                          {Started(s) : s \in gateways} \cup {Started("fedimint-setup")},
                          {"fedimint_state"})
<1>1. Fedimint(k, n).services =
        {<<Guardians[i], Guardian(i)>> : i \in count}
        \cup {<<Gateways[i], Gateway(i)>> : i \in count}
        \cup {<<"fedimint-setup", setup>>, <<"fedimint-gateways", connect>>}
  BY DEF Fedimint, Fragment
<1>2. Fedimint(k, n).volumes = {DataOf[s] : s \in guardians \cup gateways} \cup {"fedimint_state"}
  BY DEF Fedimint, Fragment
<1>3. 1 \in count /\ \A i \in count : i \in 1..3
  <2>1. GuardianCount(k, n) = n.fedimint.guardians /\ n.fedimint \in FedimintCfg
    BY DEF GuardianCount, Sound, IsNetworkCfg
  <2>2. GuardianCount(k, n) \in 1..3
    BY <2>1 DEF FedimintCfg, FEDIMINT_MAX_GUARDIANS
  <2>3. QED
    BY <2>2
<1>4. \A i \in count : RingNodes[i] \in DeployedRing(n)
  BY DEF GatewayWithoutNode
<1>5. \A i \in count : /\ Offered(emitted, Healthy(RingNodes[i]))
                       /\ LndVolume[RingNodes[i]] \in Kept(g, k, n)
                       /\ RankOf(RingNodes[i]) = 2
  BY <1>4, LndOffers, RingKept, RingNames, Ranks
<1>6. \A i \in 1..3 : RankOf(Guardians[i]) = 2 /\ RankOf(Gateways[i]) = 3
  BY Ranks DEF Guardians, Gateways
<1>7. /\ RankOf("bitcoind") = 1 /\ RankOf("fedimint-setup") = 3
      /\ RankOf("fedimint-gateways") = 4
      /\ Offered(emitted, Healthy("bitcoind"))
  BY Ranks, LndOffers
<1>8. /\ setup.depends_on = {Started(s) : s \in guardians}
      /\ setup.volumes = {DataOf["fedimintd"], "fedimint_state"}
      /\ connect.depends_on = {Started(s) : s \in gateways} \cup {Started("fedimint-setup")}
      /\ connect.volumes = {"fedimint_state"}
  BY DEF Job
<1>9. \A y : y \in Fedimint(k, n).services => y \in emitted
  BY EmittedBy
<1>10. Fedimint(k, n).volumes \subseteq Kept(g, k, n)
  BY KeptBy
<1>11. \A i \in count :
         /\ DataOf[Guardians[i]] \in Kept(g, k, n) /\ DataOf[Gateways[i]] \in Kept(g, k, n)
  BY <1>2, <1>10
<1>12. "fedimint_state" \in Kept(g, k, n) /\ DataOf["fedimintd"] \in Kept(g, k, n)
  <2>1. DataOf[Guardians[1]] = DataOf["fedimintd"]
    BY DEF Guardians
  <2>2. QED
    BY <1>2, <1>3, <1>10, <1>11, <2>1
<1> HIDE DEF emitted, count, setup, connect
<1>13. /\ \A i \in count : Offered(emitted, Started(Guardians[i]))
       /\ \A i \in count : Offered(emitted, Started(Gateways[i]))
       /\ Offered(emitted, Started("fedimint-setup"))
  <2>1. /\ \A i \in count : <<Guardians[i], Guardian(i)>> \in emitted
        /\ \A i \in count : <<Gateways[i], Gateway(i)>> \in emitted
        /\ <<"fedimint-setup", setup>> \in emitted
    BY <1>1, <1>9
  <2>2. \A a, b : <<a, b>>[1] = a
    OBVIOUS
  <2>3. QED
    BY <2>1, <2>2, Offers, Zenon
<1>14. CASE \E i \in count : x = <<Guardians[i], Guardian(i)>>
  <2>1. PICK i \in count : x = <<Guardians[i], Guardian(i)>>
    BY <1>14
  <2>2. /\ x[1] = Guardians[i] /\ x[2].depends_on = {Healthy("bitcoind")}
        /\ x[2].volumes = {DataOf[Guardians[i]]}
    BY <2>1 DEF Guardian, Daemon
  <2>3. Fulfilled(emitted, x)
    BY <1>3, <1>6, <1>7, <2>2 DEF Fulfilled, Healthy
  <2>4. QED
    BY <1>11, <2>2, <2>3 DEF Equipped, emitted
<1>15. CASE \E i \in count : x = <<Gateways[i], Gateway(i)>>
  <2>1. PICK i \in count : x = <<Gateways[i], Gateway(i)>>
    BY <1>15
  <2>2. /\ x[1] = Gateways[i] /\ x[2].depends_on = {Healthy(RingNodes[i])}
        /\ x[2].volumes = {DataOf[Gateways[i]], LndVolume[RingNodes[i]]}
    BY <2>1 DEF Gateway, Daemon
  <2>3. Fulfilled(emitted, x)
    BY <1>3, <1>5, <1>6, <2>2 DEF Fulfilled, Healthy
  <2>4. QED
    BY <1>5, <1>11, <2>2, <2>3 DEF Equipped, emitted
<1>16. CASE x = <<"fedimint-setup", setup>>
  <2>1. \A dep \in x[2].depends_on : \E i \in count : dep = Started(Guardians[i])
    BY <1>8, <1>16
  <2>2. Fulfilled(emitted, x)
    BY <1>3, <1>6, <1>7, <1>13, <1>16, <2>1 DEF Fulfilled, Started
  <2>3. QED
    BY <1>8, <1>12, <1>16, <2>2 DEF Equipped, emitted
<1>17. CASE x = <<"fedimint-gateways", connect>>
  <2>1. \A dep \in x[2].depends_on :
          (\E i \in count : dep = Started(Gateways[i])) \/ dep = Started("fedimint-setup")
    BY <1>8, <1>17
  <2>2. Fulfilled(emitted, x)
    BY <1>3, <1>6, <1>7, <1>13, <1>17, <2>1 DEF Fulfilled, Started
  <2>3. QED
    BY <1>8, <1>12, <1>17, <2>2 DEF Equipped, emitted
<1>18. QED
  BY <1>1, <1>14, <1>15, <1>16, <1>17

LEMMA AllEquipped ==
  ASSUME NEW g, NEW k, NEW n, Sound(g, k, n), ~GatewayWithoutNode(k, n),
         NEW x \in Emitted(g, k, n)
  PROVE  Equipped(g, k, n, x)
<1>1. CASE x \in Lnd(g, k, n).services
  BY <1>1, LndEquipped
<1>2. CASE EnabledIndexers(n) # << >> /\ x \in Fulcrum(n).services
  BY <1>2, FulcrumEquipped
<1>3. CASE \/ x \in Bitcoind(g, k, n).services
           \/ n.cashu.enabled /\ x \in Cashu.services
           \/ n.cashu.enabled /\ n.cashu.wallet /\ x \in CashuWallet.services
           \/ Mines(k, n) /\ x \in Miner.services
           \/ k \in CLAIM_NETWORKS /\ n.claimer.enabled /\ x \in Claimer(n).services
           \/ x \in Donations.services
  BY <1>3, PlainEquipped, Zenon
<1>4. CASE FedimintEnabled(k, n) /\ x \in Fedimint(k, n).services
  BY <1>4, FedimintEquipped
<1>5. CASE ArkEnabled(k, n) /\ x \in Ark(n).services
  BY <1>5, ArkEquipped
<1>6. CASE n.electrum.enabled /\ x \in Electrum(k, n).services
  BY <1>6, ElectrumEquipped
<1>7. CASE \/ n.cashupayserver.enabled /\ x \in CashuPayServer.services
           \/ n.woocommerce.enabled /\ x \in WooCommerce.services
  BY <1>7, ShopsEquipped
<1>8. CASE MempoolEnabled(k, n) /\ x \in Mempool(n).services
  BY <1>8, MempoolEquipped
<1>9. QED
  BY <1>1, <1>2, <1>3, <1>4, <1>5, <1>6, <1>7, <1>8, EmittedBy, Zenon

-----------------------------------------------------------------------------
(* How many services there are.                                            *)

LEMMA FewMore ==
  ASSUME NEW S, IsFiniteSet(S), NEW a, NEW b, NEW c, NEW d
  PROVE  IsFiniteSet(S \cup {a, b, c, d})
<1>1. IsFiniteSet(S \cup {a})
  BY FS_AddElement
<1>2. IsFiniteSet((S \cup {a}) \cup {b})
  BY <1>1, FS_AddElement
<1>3. IsFiniteSet(((S \cup {a}) \cup {b}) \cup {c})
  BY <1>2, FS_AddElement
<1>4. IsFiniteSet((((S \cup {a}) \cup {b}) \cup {c}) \cup {d})
  BY <1>3, FS_AddElement
<1>5. S \cup {a, b, c, d} = (((S \cup {a}) \cup {b}) \cup {c}) \cup {d}
  OBVIOUS
<1>6. QED
  BY <1>4, <1>5

LEMMA FiniteHouses ==
  \E names : IsFiniteSet(names) /\ \A s : HomeOf(s) # 3 => s \in names
<1> DEFINE A == {"bitcoind", "lnd", "lnd2", "lnd3"}
           B == A \cup {"lnd-nodeinfo", "lnd2-nodeinfo", "lnd3-nodeinfo", "lnd-tor-wait"}
           C == B \cup {"lnd2-tor-wait", "lnd3-tor-wait", "lnd-channels", "lnd-setup"}
           D == C \cup {"lnd-rebalancer", "cashu", "cashu-wallet", "fedimintd"}
           E == D \cup {"fedimintd2", "fedimintd3", "gatewayd", "gatewayd2"}
           F == E \cup {"gatewayd3", "fedimint-setup", "fedimint-gateways", "cln"}
           G == F \cup {"captaind", "ark-setup", "ark-channel", "electrum"}
           H == G \cup {"electrum-fund", "nostr-relay", "nostr-relay-sweeper",
                        "cashupayserver-init"}
           I == H \cup {"cashupayserver", "woocommerce-db", "woocommerce", "woocommerce-init"}
           J == I \cup {"mempool-db", "mempool-api", "mempool-web", "miner"}
           K == J \cup {"claimer", "donations", "bitcoind", "lnd"}
<1>1. \A s : HomeOf(s) # 3 => s \in K
  BY DEF HomeOf
<1>2. IsFiniteSet(A)
  <2>1. IsFiniteSet({} \cup {"bitcoind", "lnd", "lnd2", "lnd3"})
    BY FS_EmptySet, FewMore
  <2>2. QED
    BY <2>1
<1> HIDE DEF A
<1>3. IsFiniteSet(B) /\ (IsFiniteSet(B) => IsFiniteSet(C))
  BY <1>2, FewMore
<1> HIDE DEF B, C
<1>4. IsFiniteSet(D)
  BY <1>3, FewMore
<1> HIDE DEF D
<1>5. IsFiniteSet(E)
  BY <1>4, FewMore
<1> HIDE DEF E
<1>6. IsFiniteSet(F)
  BY <1>5, FewMore
<1> HIDE DEF F
<1>7. IsFiniteSet(G)
  BY <1>6, FewMore
<1> HIDE DEF G
<1>8. IsFiniteSet(H)
  BY <1>7, FewMore
<1> HIDE DEF H
<1>9. IsFiniteSet(I)
  BY <1>8, FewMore
<1> HIDE DEF I
<1>10. IsFiniteSet(J)
  BY <1>9, FewMore
<1> HIDE DEF J
<1>11. IsFiniteSet(K)
  BY <1>10, FewMore
<1> HIDE DEF K
<1>12. QED
  BY <1>1, <1>11

LEMMA FiniteServices ==
  ASSUME NEW g, NEW k, NEW n, Sound(g, k, n)
  PROVE  IsFiniteSet(DOMAIN Project(g, k, n).services)
<1>0. PICK Fixed : IsFiniteSet(Fixed) /\ \A s : HomeOf(s) # 3 => s \in Fixed
  BY FiniteHouses
<1>1. IsFiniteSet(IndexerNames(n))
  <2> DEFINE e == EnabledIndexers(n)
             S == {e[i] : i \in DOMAIN e}
  <2>1. e \in Seq(S)
    BY DEF Sound
  <2> HIDE DEF e, S
  <2>2. Len(e) \in Nat /\ DOMAIN e = 1..Len(e)
    BY <2>1
  <2>3. IsFiniteSet(DOMAIN e)
    BY <2>2, FS_Interval
  <2> DEFINE f == [i \in DOMAIN e |-> e[i].name]
             T == {e[i].name : i \in DOMAIN e}
  <2>4. f \in Surjection(DOMAIN e, T)
    BY DEF Surjection
  <2> HIDE DEF f, T
  <2>5. IsFiniteSet(T)
    BY <2>3, <2>4, FS_Surjection
  <2>6. QED
    BY <2>5 DEF IndexerNames, e, T
<1>2. ASSUME NEW x \in Emitted(g, k, n)
      PROVE  x[1] \in Fixed \cup IndexerNames(n)
  <2>1. PICK i \in 1..14 : x \in Registry(g, k, n)[i].services
    BY DEF Emitted
  <2>2. HomeOf(x[1]) = i
    BY <2>1, RegistryHouses DEF Sound, HouseOf
  <2>3. CASE i = 3
    <3>1. x \in Fulcrum(n).services
      BY <2>1, <2>3, RegistryOf DEF If, Nothing, Fragment
    <3>2. QED
      BY <3>1 DEF Fulcrum, Fragment, IndexerNames
  <2>4. CASE i # 3
    BY <1>0, <2>2, <2>4
  <2>5. QED
    BY <2>3, <2>4
<1>3. IsFiniteSet(Fixed \cup IndexerNames(n))
  BY <1>0, <1>1, FS_Union
<1>4. DOMAIN Project(g, k, n).services \subseteq Fixed \cup IndexerNames(n)
  BY <1>2, ProjectServices
<1>5. QED
  BY <1>3, <1>4, FS_Subset

LEMMA FourOrFive ==
  ASSUME NEW S, IsFiniteSet(S), {"bitcoind", "lnd", "lnd-nodeinfo", "donations"} \subseteq S
  PROVE  /\ Cardinality(S) \in Nat /\ Cardinality(S) >= 4
         /\ "lnd-rebalancer" \in S => Cardinality(S) >= 5
<1>1. IsFiniteSet({"bitcoind"}) /\ Cardinality({"bitcoind"}) = 1
  BY FS_Singleton
<1>2. /\ IsFiniteSet({"bitcoind", "lnd"})
      /\ Cardinality({"bitcoind", "lnd"}) = 2
  <2>1. {"bitcoind", "lnd"} = {"bitcoind"} \cup {"lnd"} /\ "lnd" \notin {"bitcoind"}
    OBVIOUS
  <2>2. /\ IsFiniteSet({"bitcoind"} \cup {"lnd"})
        /\ Cardinality({"bitcoind"} \cup {"lnd"}) = Cardinality({"bitcoind"}) + 1
    BY <1>1, <2>1, FS_AddElement, Zenon
  <2>3. QED
    BY <1>1, <2>1, <2>2
<1>3. /\ IsFiniteSet({"bitcoind", "lnd", "lnd-nodeinfo"})
      /\ Cardinality({"bitcoind", "lnd", "lnd-nodeinfo"}) = 3
  <2>1. {"bitcoind", "lnd", "lnd-nodeinfo"} = {"bitcoind", "lnd"} \cup {"lnd-nodeinfo"}
    OBVIOUS
  <2>2. QED
    BY <1>2, <2>1, FS_AddElement
<1> DEFINE Four == {"bitcoind", "lnd", "lnd-nodeinfo", "donations"}
<1>4. IsFiniteSet(Four) /\ Cardinality(Four) = 4
  <2>1. Four = {"bitcoind", "lnd", "lnd-nodeinfo"} \cup {"donations"}
    OBVIOUS
  <2>2. QED
    BY <1>3, <2>1, FS_AddElement
<1>5. IsFiniteSet(Four \cup {"lnd-rebalancer"}) /\ Cardinality(Four \cup {"lnd-rebalancer"}) = 5
  BY <1>4, FS_AddElement
<1>6. /\ Cardinality(S) \in Nat
      /\ Cardinality(Four) <= Cardinality(S)
  BY FS_CardinalityType, FS_Subset
<1>7. "lnd-rebalancer" \in S => Cardinality(Four \cup {"lnd-rebalancer"}) <= Cardinality(S)
  BY FS_Subset
<1> HIDE DEF Four
<1>8. QED
  BY <1>4, <1>5, <1>6, <1>7

LEMMA RanksAreLow ==
  ASSUME NEW g, NEW k, NEW n, Sound(g, k, n), NEW s \in DOMAIN Project(g, k, n).services
  PROVE  /\ RankOf(s) \in Nat \ {0}
         /\ RankOf(s) <= Cardinality(DOMAIN Project(g, k, n).services)
<1> DEFINE D == DOMAIN Project(g, k, n).services
<1>1. {"bitcoind", "lnd", "lnd-nodeinfo", "donations"} \subseteq D
  <2>1. /\ \E x \in Bitcoind(g, k, n).services : x[1] = "bitcoind"
        /\ \E x \in Donations.services : x[1] = "donations"
    BY DEF Bitcoind, Donations, Fragment
  <2>2. /\ \E x \in Lnd(g, k, n).services : x[1] = "lnd"
        /\ \E x \in Lnd(g, k, n).services : x[1] = "lnd-nodeinfo"
    <3>1. /\ <<"lnd", LndNode(g, "lnd")>> \in LndNodes(g, n)
          /\ <<NodeInfo["lnd"], Daemon(FALSE, {Healthy("lnd")}, {}, {LndVolume["lnd"]})>>
               \in LndNodes(g, n)
      BY RingNames DEF LndNodes
    <3>2. NodeInfo["lnd"] = "lnd-nodeinfo"
      BY DEF NodeInfo
    <3>3. \A a, b : <<a, b>>[1] = a
      OBVIOUS
    <3>4. QED
      BY <3>1, <3>2, <3>3, LndServices, Zenon
  <2>3. \A x \in Emitted(g, k, n) : x[1] \in D
    BY ProjectServices
  <2> HIDE DEF D
  <2>4. "bitcoind" \in D /\ "donations" \in D
    BY <2>1, <2>3, EmittedBy, Zenon
  <2>5. "lnd" \in D /\ "lnd-nodeinfo" \in D
    BY <2>2, <2>3, EmittedBy, Zenon
  <2>6. QED
    BY <2>4, <2>5
<1>2. IsFiniteSet(D)
  BY FiniteServices
<1> HIDE DEF D
<1>3. /\ Cardinality(D) \in Nat /\ Cardinality(D) >= 4
      /\ "lnd-rebalancer" \in D => Cardinality(D) >= 5
  BY <1>1, <1>2, FourOrFive
<1>4. RankOf(s) \in 1..4 \/ (RankOf(s) = 5 /\ s = "lnd-rebalancer")
  BY DEF RankOf
<1>5. s \in D
  BY DEF D
<1>6. QED
  BY <1>3, <1>4, <1>5 DEF D

-----------------------------------------------------------------------------
(* What compose can start, and with which volumes.                         *)

\* The project of an accepted network, whose gateways have their ring nodes, can start and
\* has its volumes.
LEMMA SoundStarts ==
  ASSUME NEW g, NEW k, NEW n, Sound(g, k, n), ~GatewayWithoutNode(k, n)
  PROVE  LET project == Project(g, k, n) IN
         /\ Startable(project.services) = DOMAIN project.services
         /\ UNION {project.services[s].volumes : s \in DOMAIN project.services}
              \subseteq project.volumes
<1> DEFINE stack == Project(g, k, n).services
           emitted == Emitted(g, k, n)
<1>1. /\ DOMAIN stack = {x[1] : x \in emitted}
      /\ \A s \in DOMAIN stack : \E x \in emitted : x[1] = s /\ stack[s] = x[2]
      /\ \A x \in emitted : x[1] \in DOMAIN stack /\ stack[x[1]] = x[2]
  BY ProjectServices, EmittedIsThere DEF Sound
<1>2. \A x \in emitted : Fulfilled(emitted, x) /\ x[2].volumes \subseteq Kept(g, k, n)
  BY AllEquipped DEF Equipped
<1>3. /\ IsFiniteSet(DOMAIN stack)
      /\ \A s \in DOMAIN stack :
           RankOf(s) \in Nat \ {0} /\ RankOf(s) <= Cardinality(DOMAIN stack)
  BY FiniteServices, RanksAreLow
<1>4. Project(g, k, n).volumes = Kept(g, k, n)
  <2>1. DOMAIN Registry(g, k, n) = 1..14
    BY RegistryOf
  <2>2. Project(g, k, n).volumes =
          UNION {Registry(g, k, n)[i].volumes : i \in DOMAIN Registry(g, k, n)}
    BY DEF Project
  <2>3. QED
    BY <2>1, <2>2, Zenon DEF Kept
<1> HIDE DEF stack, emitted
<1>5. \A s \in DOMAIN stack : stack[s].volumes \subseteq Kept(g, k, n)
  BY <1>1, <1>2
<1>6. ASSUME NEW s \in DOMAIN stack, NEW dep \in stack[s].depends_on
      PROVE  /\ dep[1] \in DOMAIN stack /\ RankOf(dep[1]) < RankOf(s)
             /\ Meets(stack[dep[1]], dep[2])
  <2>1. PICK x \in emitted : x[1] = s /\ stack[s] = x[2]
    BY <1>1
  <2>2. Offered(emitted, dep) /\ RankOf(dep[1]) < RankOf(s)
    BY <1>2, <1>6, <2>1 DEF Fulfilled
  <2>3. PICK y \in emitted : y[1] = dep[1] /\ Meets(y[2], dep[2])
    BY <2>2 DEF Offered
  <2>4. QED
    BY <1>1, <2>2, <2>3
<1> DEFINE rank == [s \in DOMAIN stack |-> RankOf(s)]
<1>7. /\ rank \in [DOMAIN stack -> Nat \ {0}]
      /\ \A s \in DOMAIN stack : rank[s] = RankOf(s)
  BY <1>3
<1> HIDE DEF rank
<1>8. Startable(stack) = DOMAIN stack
  <2>1. \A s \in DOMAIN stack : rank[s] <= Cardinality(DOMAIN stack)
    BY <1>3, <1>7
  <2>2. \A s \in DOMAIN stack : \A dep \in stack[s].depends_on :
            /\ dep[1] \in DOMAIN stack /\ rank[dep[1]] < rank[s]
            /\ Meets(stack[dep[1]], dep[2])
    BY <1>6, <1>7
  <2>3. QED
    BY <1>3, <1>7, <2>1, <2>2, RankedStart
<1>9. QED
  BY <1>4, <1>5, <1>8 DEF stack

\* A gateway whose ring node is not deployed waits for a service that is not there.
LEMMA GatewayHangs ==
  ASSUME NEW g, NEW k, NEW n, Sound(g, k, n), GatewayWithoutNode(k, n)
  PROVE  Startable(Project(g, k, n).services) # DOMAIN Project(g, k, n).services
<1> DEFINE stack == Project(g, k, n).services
<1>1. PICK i \in 1..GuardianCount(k, n) : RingNodes[i] \notin DeployedRing(n)
  BY DEF GatewayWithoutNode
<1>2. i \in 1..3
  BY GuardianBound DEF Sound
<1>3. FedimintEnabled(k, n)
  BY <1>1 DEF GuardianCount
<1>4. <<Gateways[i], Gateway(i)>> \in Emitted(g, k, n)
  <2>1. <<Gateways[i], Gateway(i)>> \in Fedimint(k, n).services
    BY <1>1 DEF Fedimint, Fragment
  <2>2. QED
    BY <1>3, <2>1, EmittedBy
<1>5. Gateways[i] \in DOMAIN stack /\ stack[Gateways[i]] = Gateway(i)
  <2> DEFINE x == <<Gateways[i], Gateway(i)>>
  <2>1. x[1] \in DOMAIN stack /\ stack[x[1]] = x[2]
    BY <1>4, EmittedIsThere DEF Sound
  <2>2. x[1] = Gateways[i] /\ x[2] = Gateway(i)
    OBVIOUS
  <2> HIDE DEF x, stack
  <2>3. QED
    BY <2>1, <2>2
<1>6. Healthy(RingNodes[i]) \in Gateway(i).depends_on
  BY DEF Gateway, Daemon
<1>7. RingNodes[i] \in {"lnd", "lnd2", "lnd3"}
  BY <1>2 DEF RingNodes
<1>8. RingNodes[i] \notin DOMAIN stack
  <2> SUFFICES ASSUME RingNodes[i] \in DOMAIN stack PROVE FALSE
    OBVIOUS
  <2>1. PICK x \in Emitted(g, k, n) : x[1] = RingNodes[i]
    BY ProjectServices
  <2>2. PICK j \in 1..14 : x \in Registry(g, k, n)[j].services
    BY DEF Emitted
  <2>3. HomeOf(x[1]) = j
    BY <2>2, RegistryHouses DEF Sound, HouseOf
  <2>4. x \in Lnd(g, k, n).services
    BY <1>7, <2>1, <2>2, <2>3, Homes, RegistryOf
  <2>5. CASE x \in LndNodes(g, n)
    <3>1. PICK s \in DeployedRing(n) :
            \/ x = <<s, LndNode(g, s)>>
            \/ x = <<NodeInfo[s], Daemon(FALSE, {Healthy(s)}, {}, {LndVolume[s]})>>
            \/ x = <<TorWait[s], Job("no", {}, {})>>
      BY <2>5 DEF LndNodes
    <3>2. x[1] \in {s, NodeInfo[s], TorWait[s]}
      <4>1. \A a, b : <<a, b>>[1] = a
        OBVIOUS
      <4>2. QED
        BY <3>1, <4>1, Zenon
    <3>3. s \in {"lnd", "lnd2", "lnd3"}
      BY RingNames
    <3>4. NodeInfo[s] \notin {"lnd", "lnd2", "lnd3"} /\ TorWait[s] \notin {"lnd", "lnd2", "lnd3"}
      BY <3>3 DEF NodeInfo, TorWait
    <3>5. QED
      BY <1>1, <1>7, <2>1, <3>2, <3>4
  <2>6. CASE x \in RingSidecars(k, n)
    BY <1>7, <2>1, <2>6, Sidecars
  <2>7. QED
    BY <2>4, <2>5, <2>6, LndServices
<1>9. IsFiniteSet(DOMAIN stack)
  BY FiniteServices
<1> HIDE DEF stack
<1>10. ASSUME Gateways[i] \in Startable(stack)
       PROVE  FALSE
  <2>1. Healthy(RingNodes[i])[1] \in DOMAIN stack
    BY <1>5, <1>6, <1>9, <1>10, StartableClosed
  <2>2. QED
    BY <1>8, <2>1 DEF Healthy
<1>11. QED
  BY <1>5, <1>10 DEF stack

\* The configurations generate accepts list their indexers under names of their own, which
\* the code does not check; and the enabled ones, which SelectSeq picks, are a sequence,
\* which the provers cannot see.
IndexersListed ==
  \A c \in Configs : Valid(c) /\ Allocatable(c) =>
    \A k \in EnabledNetworks(c) :
      LET indexers == EnabledIndexers(c.networks[k]) IN
      /\ OwnNames(c.networks[k])
      /\ indexers \in Seq({indexers[i] : i \in DOMAIN indexers})

\* ComposeCanStart: whatever accepted configuration, every dependency of every service is
\* there, can be met and closes no cycle, and every volume is declared; unless a gateway is
\* paired with a ring node that is not deployed, and then they are not.
THEOREM ComposeStarts ==
  ASSUME IndexersListed
  PROVE  Spec => []ComposeCanStart
<1>1. Accepted => ComposeCanStart
  <2> SUFFICES ASSUME Accepted, phase = "generated", NEW k \in EnabledNetworks(cfg)
               PROVE  LET project == Project(cfg.global, k, cfg.networks[k])
                          mounted == UNION {project.services[s].volumes :
                                              s \in DOMAIN project.services}
                      IN (/\ Startable(project.services) = DOMAIN project.services
                          /\ mounted \subseteq project.volumes)
                         <=> ~GatewayWithoutNode(k, cfg.networks[k])
    BY DEF ComposeCanStart
  <2>1. cfg \in Configs /\ Valid(cfg) /\ Allocatable(cfg)
    BY DEF Accepted
  <2>2. IsNetworkCfg(cfg.networks[k])
    BY <2>1, DeploymentAssumption DEF DeploymentAssumption, IsArgusConfig, EnabledNetworks
  <2>3. Sound(cfg.global, k, cfg.networks[k])
    BY <2>1, <2>2 DEF Sound, IndexersListed, Valid
  <2>4. QED
    BY <2>3, SoundStarts, GatewayHangs
<1>2. QED
  BY <1>1, AcceptedAlways, PTL

-----------------------------------------------------------------------------
(* Whose a port is.                                                        *)

\* The service that publishes the port p names.
Publisher(n, p) ==
  IF p[1] \in {"bitcoind_p2p", "bitcoind_rpc"} THEN "bitcoind"
  ELSE IF p[1] \in {"lnd_p2p", "lnd_grpc", "lnd_rest"} THEN "lnd"
  ELSE IF p[1] \in {"lnd2_p2p", "lnd2_grpc", "lnd2_rest"} THEN "lnd2"
  ELSE IF p[1] \in {"lnd3_p2p", "lnd3_grpc", "lnd3_rest"} THEN "lnd3"
  ELSE IF p[1] \in {"fulcrum_electrum_tcp", "fulcrum_admin"}
       THEN EnabledIndexers(n)[p[2] + 1].name
  ELSE IF p[1] = "cashu_backend" THEN "cashu"
  ELSE IF p[1] = "cashu_wallet_backend" THEN "cashu-wallet"
  ELSE IF p[1] \in {"fedimintd_api", "fedimintd_ui"} THEN Guardians[p[2] + 1]
  ELSE IF p[1] = "gatewayd_api" THEN Gateways[p[2] + 1]
  ELSE IF p[1] \in {"ark_cln_p2p", "ark_cln_grpc", "ark_cln_hold"} THEN "cln"
  ELSE IF p[1] \in {"ark_captaind", "ark_captaind_admin"} THEN "captaind"
  ELSE IF p[1] = "electrum_rpc" THEN "electrum"
  ELSE IF p[1] = "nostr_relay_backend" THEN "nostr-relay"
  ELSE IF p[1] = "cashupayserver_backend" THEN "cashupayserver"
  ELSE IF p[1] = "woocommerce_backend" THEN "woocommerce"
  ELSE IF p[1] = "mempool_api" THEN "mempool-api"
  ELSE IF p[1] = "mempool_web" THEN "mempool-web"
  ELSE "none"

\* The names a network has ports for, by how many of each there are.
ServiceNames ==
  {"bitcoind_p2p", "bitcoind_rpc", "lnd_p2p", "lnd_grpc", "lnd_rest", "lnd2_p2p", "lnd2_grpc",
   "lnd2_rest", "lnd3_p2p", "lnd3_grpc", "lnd3_rest", "cashu_backend", "cashu_wallet_backend",
   "ark_cln_p2p", "ark_cln_grpc", "ark_cln_hold", "ark_captaind", "ark_captaind_admin",
   "electrum_rpc", "nostr_relay_backend", "cashupayserver_backend", "woocommerce_backend",
   "mempool_api", "mempool_web"}
SiteNames ==
  {"cashu_public", "cashu_wallet_public", "ark_captaind_public", "nostr_relay_public",
   "mempool_public", "bitcart_store_public", "bitcart_admin_public", "bitcart_api_public",
   "cashupayserver_public", "woocommerce_public"}

\* The ports services publish.
ServicePorts(k, n) ==
  {P(name) : name \in ServiceNames}
  \cup {"fulcrum_electrum_tcp", "fulcrum_admin"} \X (0..(Len(EnabledIndexers(n)) - 1))
  \cup {"fedimintd_api", "fedimintd_ui", "gatewayd_api"} \X (0..(GuardianCount(k, n) - 1))

\* The public ports of the sites Caddy fronts.
SitePorts(k, n) ==
  {P(name) : name \in SiteNames}
  \cup {"fedimintd_api_public", "gatewayd_api_public"} \X (0..(GuardianCount(k, n) - 1))

\* What x publishes is its own.
Owns(k, n, x) == \A q \in x[2].ports : x[1] = Publisher(n, q[1]) /\ q[1] \in ServicePorts(k, n)

\* A service all of whose ports have a name of their own and one publisher.
LEMMA OwnsNamed ==
  ASSUME NEW k, NEW n, NEW x,
         \A q \in x[2].ports :
           \E name \in ServiceNames : q[1] = P(name) /\ x[1] = Publisher(n, P(name))
  PROVE  Owns(k, n, x)
  BY DEF Owns, ServicePorts

LEMMA Publishers ==
  ASSUME NEW n
  PROVE  /\ Publisher(n, P("bitcoind_p2p")) = "bitcoind"
         /\ Publisher(n, P("bitcoind_rpc")) = "bitcoind"
         /\ \A s \in {"lnd", "lnd2", "lnd3"} : \A kind \in {"p2p", "grpc", "rest"} :
              /\ Publisher(n, LndPort(s, kind)) = s
              /\ \E name \in ServiceNames : LndPort(s, kind) = P(name)
         /\ Publisher(n, P("cashu_backend")) = "cashu"
         /\ Publisher(n, P("cashu_wallet_backend")) = "cashu-wallet"
         /\ Publisher(n, P("ark_cln_p2p")) = "cln"
         /\ Publisher(n, P("ark_cln_grpc")) = "cln"
         /\ Publisher(n, P("ark_cln_hold")) = "cln"
         /\ Publisher(n, P("ark_captaind")) = "captaind"
         /\ Publisher(n, P("ark_captaind_admin")) = "captaind"
         /\ Publisher(n, P("electrum_rpc")) = "electrum"
         /\ Publisher(n, P("nostr_relay_backend")) = "nostr-relay"
         /\ Publisher(n, P("cashupayserver_backend")) = "cashupayserver"
         /\ Publisher(n, P("woocommerce_backend")) = "woocommerce"
         /\ Publisher(n, P("mempool_api")) = "mempool-api"
         /\ Publisher(n, P("mempool_web")) = "mempool-web"
<1>1. \A name : P(name)[1] = name
  BY DEF P
<1>2. \A s \in {"lnd", "lnd2", "lnd3"} : \A kind \in {"p2p", "grpc", "rest"} :
        /\ Publisher(n, LndPort(s, kind)) = s
        /\ \E name \in ServiceNames : LndPort(s, kind) = P(name)
  <2> SUFFICES ASSUME NEW s \in {"lnd", "lnd2", "lnd3"}, NEW kind \in {"p2p", "grpc", "rest"}
               PROVE  /\ Publisher(n, P(LndPortNames[s][kind])) = s
                      /\ LndPortNames[s][kind] \in ServiceNames
    BY DEF LndPort
  <2> DEFINE name == LndPortNames[s][kind]
  <2>1. CASE s = "lnd"
    <3>1. name \in {"lnd_p2p", "lnd_grpc", "lnd_rest"}
      BY <2>1 DEF LndPortNames
    <3> HIDE DEF name
    <3>2. QED
      BY <1>1, <2>1, <3>1 DEF Publisher, ServiceNames, name
  <2>2. CASE s = "lnd2"
    <3>1. name \in {"lnd2_p2p", "lnd2_grpc", "lnd2_rest"}
      BY <2>2 DEF LndPortNames
    <3> HIDE DEF name
    <3>2. QED
      BY <1>1, <2>2, <3>1 DEF Publisher, ServiceNames, name
  <2>3. CASE s = "lnd3"
    <3>1. name \in {"lnd3_p2p", "lnd3_grpc", "lnd3_rest"}
      BY <2>3 DEF LndPortNames
    <3> HIDE DEF name
    <3>2. QED
      BY <1>1, <2>3, <3>1 DEF Publisher, ServiceNames, name
  <2>4. QED
    BY <2>1, <2>2, <2>3
<1>3. QED
  BY <1>1, <1>2 DEF Publisher

\* What publishes nothing owns what it publishes.
LEMMA OwnsNothing ==
  ASSUME NEW k, NEW n, NEW x, x[2].ports = {}
  PROVE  Owns(k, n, x)
  BY DEF Owns

\* The ports of an instance, and whose they are.
LEMMA InstancePorts ==
  ASSUME NEW k, NEW n, NEW count \in Nat, NEW i \in 1..count
  PROVE  /\ count = Len(EnabledIndexers(n)) =>
              \A name \in {"fulcrum_electrum_tcp", "fulcrum_admin"} :
                /\ <<name, i - 1>> \in ServicePorts(k, n)
                /\ Publisher(n, <<name, i - 1>>) = EnabledIndexers(n)[i].name
         /\ count = GuardianCount(k, n) =>
              /\ \A name \in {"fedimintd_api", "fedimintd_ui"} :
                   /\ <<name, i - 1>> \in ServicePorts(k, n)
                   /\ Publisher(n, <<name, i - 1>>) = Guardians[i]
              /\ <<"gatewayd_api", i - 1>> \in ServicePorts(k, n)
              /\ Publisher(n, <<"gatewayd_api", i - 1>>) = Gateways[i]
<1>1. i - 1 \in 0..(count - 1) /\ (i - 1) + 1 = i
  OBVIOUS
<1>2. \A name : <<name, i - 1>>[1] = name /\ <<name, i - 1>>[2] = i - 1
  OBVIOUS
<1>3. count = Len(EnabledIndexers(n)) =>
        \A name \in {"fulcrum_electrum_tcp", "fulcrum_admin"} :
          <<name, i - 1>> \in ServicePorts(k, n)
  BY <1>1 DEF ServicePorts
<1>4. count = GuardianCount(k, n) =>
        \A name \in {"fedimintd_api", "fedimintd_ui", "gatewayd_api"} :
          <<name, i - 1>> \in ServicePorts(k, n)
  BY <1>1 DEF ServicePorts
<1>5. /\ \A name \in {"fulcrum_electrum_tcp", "fulcrum_admin"} :
           Publisher(n, <<name, i - 1>>) = EnabledIndexers(n)[i].name
      /\ \A name \in {"fedimintd_api", "fedimintd_ui"} :
           Publisher(n, <<name, i - 1>>) = Guardians[i]
      /\ Publisher(n, <<"gatewayd_api", i - 1>>) = Gateways[i]
  BY <1>1, <1>2 DEF Publisher
<1>6. QED
  BY <1>3, <1>4, <1>5

LEMMA LndOwns ==
  ASSUME NEW g, NEW k, NEW n, NEW x \in Lnd(g, k, n).services
  PROVE  Owns(k, n, x)
<1>1. \/ \E s \in DeployedRing(n) : x = <<s, LndNode(g, s)>>
      \/ x[2].ports = {}
  BY DEF Lnd, LndNodes, RingSidecars, Fragment, OnlyIf, Job, Daemon
<1>2. ASSUME NEW s \in DeployedRing(n), x = <<s, LndNode(g, s)>>
      PROVE  Owns(k, n, x)
  <2>1. x[1] = s /\ x[2] = LndNode(g, s)
    BY <1>2
  <2>2. LndNode(g, s).ports = {Public(LndPort(s, "p2p")), Loopback(LndPort(s, "grpc")),
                               Loopback(LndPort(s, "rest"))}
    BY DEF LndNode, Daemon
  <2>3. s \in {"lnd", "lnd2", "lnd3"}
    BY RingNames
  <2>4. \A q \in x[2].ports : q[1] \in {LndPort(s, kind) : kind \in {"p2p", "grpc", "rest"}}
    <3> DEFINE p2p == LndPort(s, "p2p")
               grpc == LndPort(s, "grpc")
               rest == LndPort(s, "rest")
    <3>1. {p2p, grpc, rest} \subseteq {LndPort(s, kind) : kind \in {"p2p", "grpc", "rest"}}
      OBVIOUS
    <3>2. x[2].ports = {Public(p2p), Loopback(grpc), Loopback(rest)}
      BY <2>1, <2>2
    <3> HIDE DEF p2p, grpc, rest
    <3>3. \A q \in x[2].ports : q[1] \in {p2p, grpc, rest}
      BY <3>2, Sides
    <3>4. QED
      BY <3>1, <3>3
  <2>5. ASSUME NEW q \in x[2].ports
        PROVE  \E name \in ServiceNames : q[1] = P(name) /\ x[1] = Publisher(n, P(name))
    <3>1. PICK kind \in {"p2p", "grpc", "rest"} : q[1] = LndPort(s, kind)
      BY <2>4
    <3>2. /\ Publisher(n, LndPort(s, kind)) = s
          /\ \E name \in ServiceNames : LndPort(s, kind) = P(name)
      BY <2>3, <3>1, Publishers, Zenon
    <3>3. QED
      BY <2>1, <3>1, <3>2, Zenon
  <2>6. QED
    BY <2>5, OwnsNamed
<1>3. QED
  BY <1>1, <1>2, OwnsNothing

LEMMA FulcrumOwns ==
  ASSUME NEW k, NEW n, EnabledIndexers(n) \in Seq({EnabledIndexers(n)[i] : i \in
                                                     DOMAIN EnabledIndexers(n)}),
         NEW x \in Fulcrum(n).services
  PROVE  Owns(k, n, x)
<1>1. PICK i \in DOMAIN EnabledIndexers(n) :
        x = <<EnabledIndexers(n)[i].name, Indexer(n, i)>>
  BY DEF Fulcrum, Fragment
<1>2. Len(EnabledIndexers(n)) \in Nat /\ i \in 1..Len(EnabledIndexers(n))
  <2> DEFINE e == EnabledIndexers(n)
             S == {e[j] : j \in DOMAIN e}
  <2>1. e \in Seq(S)
    OBVIOUS
  <2> HIDE DEF e, S
  <2>2. Len(e) \in Nat /\ DOMAIN e = 1..Len(e)
    BY <2>1
  <2>3. QED
    BY <2>2 DEF e
<1>3. x[1] = EnabledIndexers(n)[i].name /\ x[2] = Indexer(n, i)
  BY <1>1
<1>4. Indexer(n, i).ports = {Public(<<"fulcrum_electrum_tcp", i - 1>>),
                             Loopback(<<"fulcrum_admin", i - 1>>)}
  BY DEF Indexer, Daemon
<1>5. \A q \in x[2].ports :
        q[1] \in {<<"fulcrum_electrum_tcp", i - 1>>, <<"fulcrum_admin", i - 1>>}
  <2> DEFINE tcp == <<"fulcrum_electrum_tcp", i - 1>>
             admin == <<"fulcrum_admin", i - 1>>
  <2>1. x[2].ports = {Public(tcp), Loopback(admin)}
    BY <1>3, <1>4
  <2> HIDE DEF tcp, admin
  <2>2. \A q \in x[2].ports : q[1] \in {tcp, admin}
    BY <2>1, Sides
  <2>3. QED
    BY <2>2 DEF tcp, admin
<1>6. \A name \in {"fulcrum_electrum_tcp", "fulcrum_admin"} :
        /\ <<name, i - 1>> \in ServicePorts(k, n)
        /\ Publisher(n, <<name, i - 1>>) = EnabledIndexers(n)[i].name
  BY <1>2, InstancePorts
<1>7. QED
  BY <1>3, <1>5, <1>6 DEF Owns

LEMMA FedimintOwns ==
  ASSUME NEW g, NEW k, NEW n, Sound(g, k, n), NEW x \in Fedimint(k, n).services
  PROVE  Owns(k, n, x)
<1>1. \/ \E i \in 1..GuardianCount(k, n) : x = <<Guardians[i], Guardian(i)>>
      \/ \E i \in 1..GuardianCount(k, n) : x = <<Gateways[i], Gateway(i)>>
      \/ x[2].ports = {}
  BY DEF Fedimint, Fragment, Job
<1>2. GuardianCount(k, n) \in Nat
  BY GuardianBound DEF Sound
<1>3. ASSUME NEW i \in 1..GuardianCount(k, n),
             x = <<Guardians[i], Guardian(i)>> \/ x = <<Gateways[i], Gateway(i)>>
      PROVE  Owns(k, n, x)
  <2>1. /\ Guardian(i).ports = {Loopback(<<"fedimintd_api", i - 1>>),
                               Loopback(<<"fedimintd_ui", i - 1>>)}
        /\ Gateway(i).ports = {Loopback(<<"gatewayd_api", i - 1>>)}
    BY DEF Guardian, Gateway, Daemon
  <2>2. /\ \A name \in {"fedimintd_api", "fedimintd_ui"} :
             /\ <<name, i - 1>> \in ServicePorts(k, n)
             /\ Publisher(n, <<name, i - 1>>) = Guardians[i]
        /\ <<"gatewayd_api", i - 1>> \in ServicePorts(k, n)
        /\ Publisher(n, <<"gatewayd_api", i - 1>>) = Gateways[i]
    BY <1>2, InstancePorts
  <2>3. CASE x = <<Guardians[i], Guardian(i)>>
    <3>1. x[1] = Guardians[i] /\ x[2] = Guardian(i)
      BY <2>3
    <3>2. \A q \in x[2].ports :
            q[1] \in {<<"fedimintd_api", i - 1>>, <<"fedimintd_ui", i - 1>>}
      <4> DEFINE api == <<"fedimintd_api", i - 1>>
                 ui == <<"fedimintd_ui", i - 1>>
      <4>1. x[2].ports = {Loopback(api), Loopback(ui)}
        BY <2>1, <3>1
      <4> HIDE DEF api, ui
      <4>2. \A q \in x[2].ports : q[1] \in {api, ui}
        BY <4>1, Sides
      <4>3. QED
        BY <4>2 DEF api, ui
    <3>3. QED
      BY <2>2, <3>1, <3>2 DEF Owns
  <2>4. CASE x = <<Gateways[i], Gateway(i)>>
    <3>1. x[1] = Gateways[i] /\ x[2] = Gateway(i)
      BY <2>4
    <3>2. \A q \in x[2].ports : q[1] = <<"gatewayd_api", i - 1>>
      BY <2>1, <3>1, Sides
    <3>3. QED
      BY <2>2, <3>1, <3>2 DEF Owns
  <2>5. QED
    BY <1>3, <2>3, <2>4
<1>4. QED
  BY <1>1, <1>3, OwnsNothing

\* The builders whose services have fixed names.
LEMMA OthersOwn ==
  ASSUME NEW g, NEW k, NEW n, NEW x,
         \/ x \in Bitcoind(g, k, n).services
         \/ x \in Cashu.services
         \/ x \in CashuWallet.services
         \/ x \in Ark(n).services
         \/ x \in Electrum(k, n).services
         \/ x \in CashuPayServer.services
         \/ x \in WooCommerce.services
         \/ x \in Mempool(n).services
         \/ x \in Miner.services
         \/ x \in Claimer(n).services
         \/ x \in Donations.services
  PROVE  Owns(k, n, x)
<1> DEFINE Mine(q) == \E name \in ServiceNames : q[1] = P(name) /\ x[1] = Publisher(n, P(name))
<1>0. ASSUME NEW name \in ServiceNames, NEW q, x[1] = Publisher(n, P(name)),
             q = Loopback(P(name)) \/ q = Public(P(name)) \/ q[1] = P(name)
      PROVE  Mine(q)
  BY <1>0, Sides
<1>1. CASE x \in Bitcoind(g, k, n).services
  <2>1. x[1] = "bitcoind" /\ x[2].ports = {Loopback(P("bitcoind_rpc")),
                                         <<P("bitcoind_p2p"), n.bitcoind.p2p_public>>}
    BY <1>1 DEF Bitcoind, Fragment, Daemon
  <2>2. {"bitcoind_rpc", "bitcoind_p2p"} \subseteq ServiceNames
    BY DEF ServiceNames
  <2> HIDE DEF Mine
  <2>3. \A q \in x[2].ports : Mine(q)
    BY <1>0, <2>1, <2>2, Publishers
  <2>4. QED
    BY <2>3, OwnsNamed DEF Mine
<1>2. CASE x \in Cashu.services \/ x \in CashuWallet.services
  <2>1. \/ x[1] = "cashu" /\ x[2].ports = {Loopback(P("cashu_backend"))}
        \/ x[1] = "cashu-wallet" /\ x[2].ports = {Loopback(P("cashu_wallet_backend"))}
    BY <1>2 DEF Cashu, CashuWallet, Fragment, Daemon
  <2>2. {"cashu_backend", "cashu_wallet_backend"} \subseteq ServiceNames
    BY DEF ServiceNames
  <2> HIDE DEF Mine
  <2>3. \A q \in x[2].ports : Mine(q)
    BY <1>0, <2>1, <2>2, Publishers
  <2>4. QED
    BY <2>3, OwnsNamed DEF Mine
<1>3. CASE x \in Ark(n).services
  <2>1. \/ x[1] = "cln" /\ x[2].ports = {Public(P("ark_cln_p2p")), Loopback(P("ark_cln_grpc")),
                                       Loopback(P("ark_cln_hold"))}
        \/ x[1] = "captaind" /\ x[2].ports = {Loopback(P("ark_captaind")),
                                            Loopback(P("ark_captaind_admin"))}
        \/ x[2].ports = {}
    BY <1>3 DEF Ark, Fragment, Daemon, Job
  <2>2. {"ark_cln_p2p", "ark_cln_grpc", "ark_cln_hold", "ark_captaind", "ark_captaind_admin"}
          \subseteq ServiceNames
    BY DEF ServiceNames
  <2> HIDE DEF Mine
  <2>3. \A q \in x[2].ports : Mine(q)
    BY <1>0, <2>1, <2>2, Publishers
  <2>4. QED
    BY <2>3, OwnsNamed DEF Mine
<1>4. CASE x \in Electrum(k, n).services
  <2>1. \/ x[1] = "electrum" /\ x[2].ports = {Loopback(P("electrum_rpc"))}
        \/ x[1] = "nostr-relay" /\ x[2].ports = {Loopback(P("nostr_relay_backend"))}
        \/ x[2].ports = {}
    BY <1>4 DEF Electrum, Fragment, Daemon, Job, OnlyIf
  <2>2. {"electrum_rpc", "nostr_relay_backend"} \subseteq ServiceNames
    BY DEF ServiceNames
  <2> HIDE DEF Mine
  <2>3. \A q \in x[2].ports : Mine(q)
    BY <1>0, <2>1, <2>2, Publishers
  <2>4. QED
    BY <2>3, OwnsNamed DEF Mine
<1>5. CASE x \in CashuPayServer.services \/ x \in WooCommerce.services
  <2>1. \/ x[1] = "cashupayserver" /\ x[2].ports = {Loopback(P("cashupayserver_backend"))}
        \/ x[1] = "woocommerce" /\ x[2].ports = {Loopback(P("woocommerce_backend"))}
        \/ x[2].ports = {}
    BY <1>5 DEF CashuPayServer, WooCommerce, Fragment, Daemon, Job
  <2>2. {"cashupayserver_backend", "woocommerce_backend"} \subseteq ServiceNames
    BY DEF ServiceNames
  <2> HIDE DEF Mine
  <2>3. \A q \in x[2].ports : Mine(q)
    BY <1>0, <2>1, <2>2, Publishers
  <2>4. QED
    BY <2>3, OwnsNamed DEF Mine
<1>6. CASE x \in Mempool(n).services
  <2>1. \/ x[1] = "mempool-api" /\ x[2].ports = {Loopback(P("mempool_api"))}
        \/ x[1] = "mempool-web" /\ x[2].ports = {Loopback(P("mempool_web"))}
        \/ x[2].ports = {}
    BY <1>6 DEF Mempool, Fragment, Daemon, Job, OnlyIf
  <2>2. {"mempool_api", "mempool_web"} \subseteq ServiceNames
    BY DEF ServiceNames
  <2> HIDE DEF Mine
  <2>3. \A q \in x[2].ports : Mine(q)
    BY <1>0, <2>1, <2>2, Publishers
  <2>4. QED
    BY <2>3, OwnsNamed DEF Mine
<1>7. CASE x \in Miner.services \/ x \in Claimer(n).services \/ x \in Donations.services
  <2>1. x[2].ports = {}
    BY <1>7 DEF Miner, Claimer, Donations, Fragment, Daemon, OnlyIf
  <2>2. QED
    BY <2>1, OwnsNothing
<1>8. QED
  BY <1>1, <1>2, <1>3, <1>4, <1>5, <1>6, <1>7

LEMMA EmittedOwn ==
  ASSUME NEW g, NEW k, NEW n, Sound(g, k, n), NEW x \in Emitted(g, k, n)
  PROVE  Owns(k, n, x)
<1>1. CASE x \in Lnd(g, k, n).services
  BY <1>1, LndOwns
<1>2. CASE x \in Fulcrum(n).services
  BY <1>2, FulcrumOwns DEF Sound
<1>3. CASE x \in Fedimint(k, n).services
  BY <1>3, FedimintOwns
<1>4. \/ x \in Lnd(g, k, n).services
      \/ x \in Fulcrum(n).services
      \/ x \in Fedimint(k, n).services
      \/ x \in Bitcoind(g, k, n).services
      \/ x \in Cashu.services
      \/ x \in CashuWallet.services
      \/ x \in Ark(n).services
      \/ x \in Electrum(k, n).services
      \/ x \in CashuPayServer.services
      \/ x \in WooCommerce.services
      \/ x \in Mempool(n).services
      \/ x \in Miner.services
      \/ x \in Claimer(n).services
      \/ x \in Donations.services
  BY EmittedBy, Zenon
<1>5. QED
  BY <1>1, <1>2, <1>3, <1>4, OthersOwn, Zenon

\* The public port of a site.
LEMMA SitesOwn ==
  ASSUME NEW k, NEW n, NEW site \in NetworkSites(k, n)
  PROVE  site.public \in SitePorts(k, n)
<1>1. \/ \E name \in {"cashu_public", "cashu_wallet_public", "ark_captaind_public",
                      "nostr_relay_public", "mempool_public", "cashupayserver_public",
                      "woocommerce_public"} : site.public = P(name)
      \/ \E f \in BitcartFronts : site.public = P(FrontPort[f])
      \/ \E i \in 0..(GuardianCount(k, n) - 1) :
           \/ site.public = <<"fedimintd_api_public", i>>
           \/ site.public = <<"gatewayd_api_public", i>>
  BY DEF NetworkSites, OnlyIf, Site
<1>2. \A f \in BitcartFronts : FrontPort[f] \in SiteNames
  BY DEF BitcartFronts, FrontPort, SiteNames
<1>3. CASE \E i \in 0..(GuardianCount(k, n) - 1) :
             \/ site.public = <<"fedimintd_api_public", i>>
             \/ site.public = <<"gatewayd_api_public", i>>
  BY <1>3 DEF SitePorts
<1>4. CASE \E name \in SiteNames : site.public = P(name)
  BY <1>4 DEF SitePorts
<1>5. {"cashu_public", "cashu_wallet_public", "ark_captaind_public", "nostr_relay_public",
       "mempool_public", "cashupayserver_public", "woocommerce_public"} \subseteq SiteNames
  BY DEF SiteNames
<1>6. QED
  BY <1>1, <1>2, <1>3, <1>4, <1>5

\* The ports of a network that something may bind, by their names, and who does.
NamedPorts(k, n) == ServicePorts(k, n) \cup SitePorts(k, n) \cup {P(f) : f \in BitcartFronts}
Holder(k, n, p) ==
  IF p \in SitePorts(k, n) THEN <<"caddy", p>>
  ELSE IF p[1] \in BitcartFronts THEN <<k, p[1]>>
  ELSE <<k, Publisher(n, p)>>

LEMMA Holders ==
  ASSUME NEW k, NEW n, NEW p
  PROVE  /\ p \in ServicePorts(k, n) => Holder(k, n, p) = <<k, Publisher(n, p)>>
         /\ p \in SitePorts(k, n) => Holder(k, n, p) = <<"caddy", p>>
         /\ \A f \in BitcartFronts : Holder(k, n, P(f)) = <<k, f>>
<1>1. \A name : P(name)[1] = name
  BY DEF P
<1>2. p \in ServicePorts(k, n) =>
        p[1] \in ServiceNames \cup {"fulcrum_electrum_tcp", "fulcrum_admin", "fedimintd_api",
                                    "fedimintd_ui", "gatewayd_api"}
  BY <1>1 DEF ServicePorts
<1>3. \A x \in SitePorts(k, n) :
        x[1] \in SiteNames \cup {"fedimintd_api_public", "gatewayd_api_public"}
  BY <1>1 DEF SitePorts
<1>4. p \in ServicePorts(k, n) => p \notin SitePorts(k, n) /\ p[1] \notin BitcartFronts
  BY <1>2, <1>3 DEF ServiceNames, SiteNames, BitcartFronts
<1>5. \A f \in BitcartFronts : P(f) \notin SitePorts(k, n)
  BY <1>1, <1>3 DEF SiteNames, BitcartFronts
<1>6. QED
  BY <1>1, <1>4, <1>5, Zenon DEF Holder

\* The sockets whose ports the allocator does not name.
IsFixed(c, l) ==
  \/ l.owner = <<"caddy", P("dashboard")>> /\ l.port = WebPublicPort(c)
  \/ l.owner = <<"caddy", P("onion")>> /\ l.port = ONION_WEB_BACKEND_PORT
  \/ l.owner = <<"web", "dashboard">> /\ l.port = WEB_BACKEND_PORT
  \/ l.owner = <<"web", "faucet">> /\ l.port = FAUCET_BACKEND_PORT
  \/ l.owner = <<"tor", "socks">> /\ l.port = TOR_SOCKS_PORT
IsPool(c, l) ==
  \E k \in EnabledNetworks(c) :
    /\ c.networks[k].bitcart.enabled
    /\ l.owner = <<k, "btclnd">>
    /\ \E i \in 0..(c.networks[k].bitcart.btclnd_p2p_pool_size - 1) :
         l.port = BlockBase(k) + BITCART_BTCLND_P2P_OFFSET + i
IsNamed(c, l) ==
  \E k \in EnabledNetworks(c) : \E p \in NamedPorts(k, c.networks[k]) :
    l.owner = Holder(k, c.networks[k], p) /\ l.port = PortMap(c)[k][p]

\* Every socket is a named one, or one of the others and then fixed or of a pool.
LEMMA ListenersAre ==
  ASSUME NEW c, \A k \in EnabledNetworks(c) : Sound(c.global, k, c.networks[k]),
         NEW l \in Listeners(c)
  PROVE  \/ IsNamed(c, l)
         \/ l \in Unallocated(c) /\ (IsFixed(c, l) \/ IsPool(c, l))
<1>1. ASSUME NEW k \in EnabledNetworks(c), l \in Published(c, k)
      PROVE  IsNamed(c, l)
  <2> DEFINE n == c.networks[k]
             stack == Project(c.global, k, n).services
  <2>1. Published(c, k) =
          UNION {{Listener(<<k, s>>, PortMap(c)[k][q[1]], q[2]) : q \in stack[s].ports} :
                   s \in DOMAIN stack}
    BY DEF Published
  <2>2. \A s \in DOMAIN stack : \E x \in Emitted(c.global, k, n) : x[1] = s /\ stack[s] = x[2]
    BY ProjectServices
  <2> HIDE DEF stack
  <2>3. PICK s \in DOMAIN stack :
          \E q \in stack[s].ports : l = Listener(<<k, s>>, PortMap(c)[k][q[1]], q[2])
    BY <1>1, <2>1
  <2>4. PICK q \in stack[s].ports : l = Listener(<<k, s>>, PortMap(c)[k][q[1]], q[2])
    BY <2>3
  <2>5. PICK x \in Emitted(c.global, k, n) : x[1] = s /\ stack[s] = x[2]
    BY <2>2
  <2>6. s = Publisher(n, q[1]) /\ q[1] \in ServicePorts(k, n)
    BY <2>4, <2>5, EmittedOwn DEF Owns
  <2>7. l.owner = <<k, s>> /\ l.port = PortMap(c)[k][q[1]]
    BY <2>4 DEF Listener
  <2>8. l.owner = Holder(k, n, q[1]) /\ q[1] \in NamedPorts(k, n)
    BY <2>6, <2>7, Holders DEF NamedPorts
  <2>9. QED
    BY <2>7, <2>8 DEF IsNamed
<1>2. ASSUME NEW k \in EnabledNetworks(c), l \in BitcartListeners(c, k)
      PROVE  l \in PoolListeners(c, k) \/ IsNamed(c, l)
  <2>1. \/ l \in PoolListeners(c, k)
        \/ \E f \in BitcartFronts : l = Listener(<<k, f>>, PortMap(c)[k][P(f)], FALSE)
    BY <1>2, Zenon DEF BitcartListeners, OnlyIf
  <2>2. ASSUME NEW f \in BitcartFronts, l = Listener(<<k, f>>, PortMap(c)[k][P(f)], FALSE)
        PROVE  IsNamed(c, l)
    <3>1. l.owner = <<k, f>> /\ l.port = PortMap(c)[k][P(f)]
      BY <2>2 DEF Listener
    <3>2. P(f) \in NamedPorts(k, c.networks[k]) /\ Holder(k, c.networks[k], P(f)) = <<k, f>>
      BY Holders DEF NamedPorts
    <3>3. QED
      BY <3>1, <3>2 DEF IsNamed
  <2>3. QED
    BY <2>1, <2>2
<1>3. ASSUME l \in CaddyListeners(c)
      PROVE  l \in FrontDoors(c) \/ IsNamed(c, l)
  <2>1. \/ l \in FrontDoors(c)
        \/ \E k \in EnabledNetworks(c) : \E site \in NetworkSites(k, c.networks[k]) :
             l = Listener(<<"caddy", site.public>>, PortMap(c)[k][site.public], TRUE)
    BY <1>3, Zenon DEF CaddyListeners
  <2>2. ASSUME NEW k \in EnabledNetworks(c), NEW site \in NetworkSites(k, c.networks[k]),
               l = Listener(<<"caddy", site.public>>, PortMap(c)[k][site.public], TRUE)
        PROVE  IsNamed(c, l)
    <3>1. l.owner = <<"caddy", site.public>> /\ l.port = PortMap(c)[k][site.public]
      BY <2>2 DEF Listener
    <3>2. site.public \in SitePorts(k, c.networks[k])
      BY SitesOwn
    <3>3. /\ site.public \in NamedPorts(k, c.networks[k])
          /\ l.owner = Holder(k, c.networks[k], site.public)
      BY <3>1, <3>2, Holders DEF NamedPorts
    <3>4. QED
      BY <3>1, <3>3 DEF IsNamed
  <2>3. QED
    BY <2>1, <2>2
<1>4. ASSUME NEW k \in EnabledNetworks(c), l \in PoolListeners(c, k)
      PROVE  IsPool(c, l)
  <2>1. /\ c.networks[k].bitcart.enabled
        /\ \E i \in 0..(c.networks[k].bitcart.btclnd_p2p_pool_size - 1) :
             l = Listener(<<k, "btclnd">>, BlockBase(k) + BITCART_BTCLND_P2P_OFFSET + i, TRUE)
    BY <1>4, Zenon DEF PoolListeners, OnlyIf
  <2>2. PICK i \in 0..(c.networks[k].bitcart.btclnd_p2p_pool_size - 1) :
          l = Listener(<<k, "btclnd">>, BlockBase(k) + BITCART_BTCLND_P2P_OFFSET + i, TRUE)
    BY <2>1
  <2>3. l.owner = <<k, "btclnd">> /\ l.port = BlockBase(k) + BITCART_BTCLND_P2P_OFFSET + i
    BY <2>2 DEF Listener
  <2>4. QED
    BY <2>1, <2>3, Zenon DEF IsPool
<1>5. ASSUME l \in FrontDoors(c) \cup WebListeners(c) \cup TorListeners(c)
      PROVE  IsFixed(c, l)
  <2>1. \/ l = Listener(<<"caddy", P("dashboard")>>, WebPublicPort(c), TRUE)
        \/ l = Listener(<<"caddy", P("onion")>>, ONION_WEB_BACKEND_PORT, FALSE)
        \/ l = Listener(<<"web", "dashboard">>, WEB_BACKEND_PORT, FALSE)
        \/ l = Listener(<<"web", "faucet">>, FAUCET_BACKEND_PORT, FALSE)
        \/ l = Listener(<<"tor", "socks">>, TOR_SOCKS_PORT, FALSE)
    BY <1>5, Zenon DEF FrontDoors, WebListeners, TorListeners, OnlyIf
  <2>2. \A owner, port, pub :
          l = Listener(owner, port, pub) => l.owner = owner /\ l.port = port
    BY DEF Listener
  <2>3. QED
    BY <2>1, <2>2, Zenon DEF IsFixed
<1>6. ASSUME l \in Unallocated(c)
      PROVE  IsFixed(c, l) \/ IsPool(c, l)
  BY <1>4, <1>5, <1>6 DEF Unallocated
<1>7. \/ \E k \in EnabledNetworks(c) : l \in Published(c, k) \/ l \in BitcartListeners(c, k)
      \/ l \in CaddyListeners(c) \/ l \in WebListeners(c) \cup TorListeners(c)
  BY DEF Listeners
<1>8. l \in Unallocated(c) \/ IsNamed(c, l)
  BY <1>1, <1>2, <1>3, <1>7 DEF Unallocated
<1>9. QED
  BY <1>6, <1>8

-----------------------------------------------------------------------------
(* Which numbers the ports are.                                            *)

\* The block of a network but for the ports of its pool.
Block(k) == (BlockBase(k)..(BlockBase(k) + 399)) \cup ((BlockBase(k) + 450)..(BlockBase(k) + 999))

LEMMA OverIn ==
  ASSUME NEW f, NEW h, NEW p, NEW S, p \in DOMAIN f => f[p] \in S,
         p \in DOMAIN f \/ (p \in DOMAIN h /\ h[p] \in S)
  PROVE  p \in DOMAIN Over(f, h) /\ Over(f, h)[p] \in S
<1>1. DOMAIN Over(f, h) = DOMAIN f \cup DOMAIN h
  BY DEF Over
<1>2. p \in DOMAIN f \cup DOMAIN h
  OBVIOUS
<1>3. Over(f, h)[p] = IF p \in DOMAIN f THEN f[p] ELSE h[p]
  BY <1>2 DEF Over
<1>4. QED
  BY <1>1, <1>2, <1>3

LEMMA StridedIs ==
  ASSUME NEW names, NEW count, NEW base, NEW stride
  PROVE  DOMAIN Strided(names, count, base, stride) = (DOMAIN names) \X (0..(count - 1))
  BY DEF Strided

LEMMA StridedIn ==
  ASSUME NEW names, NEW count, NEW base, NEW stride, NEW S,
         \A name \in DOMAIN names : \A i \in 0..(count - 1) :
            base + i * stride + names[name] \in S
  PROVE  \A q \in DOMAIN Strided(names, count, base, stride) :
            Strided(names, count, base, stride)[q] \in S
<1> SUFFICES ASSUME NEW q \in (DOMAIN names) \X (0..(count - 1))
             PROVE  Strided(names, count, base, stride)[q] \in S
  BY StridedIs
<1>1. q[1] \in DOMAIN names /\ q[2] \in 0..(count - 1)
  OBVIOUS
<1>2. Strided(names, count, base, stride)[q] = base + q[2] * stride + names[q[1]]
  BY DEF Strided
<1>3. QED
  BY <1>1, <1>2

LEMMA OffsetsAre ==
  \A name \in DOMAIN PORT_OFFSETS : PORT_OFFSETS[name] \in (0..399) \cup (450..999)
  BY DEF PORT_OFFSETS

LEMMA OffsetNames ==
  /\ ServiceNames \cup SiteNames \cup BitcartFronts \subseteq DOMAIN PORT_OFFSETS
  BY DEF ServiceNames, SiteNames, BitcartFronts, PORT_OFFSETS

LEMMA FixedInBlock ==
  ASSUME NEW base \in Int
  PROVE  \A q \in DOMAIN Strided(PORT_OFFSETS, 1, base, 0) :
           Strided(PORT_OFFSETS, 1, base, 0)[q]
             \in (base..(base + 399)) \cup ((base + 450)..(base + 999))
<1> DEFINE S == (base..(base + 399)) \cup ((base + 450)..(base + 999))
<1>1. ASSUME NEW name \in DOMAIN PORT_OFFSETS, NEW i \in 0..(1 - 1)
      PROVE  base + i * 0 + PORT_OFFSETS[name] \in S
  <2>1. PICK offset \in (0..399) \cup (450..999) : PORT_OFFSETS[name] = offset
    BY OffsetsAre
  <2>2. base + i * 0 + offset \in S
    OBVIOUS
  <2>3. QED
    BY <2>1, <2>2
<1> HIDE DEF S
<1>2. \A q \in DOMAIN Strided(PORT_OFFSETS, 1, base, 0) :
        Strided(PORT_OFFSETS, 1, base, 0)[q] \in S
  BY <1>1, StridedIn
<1>3. QED
  BY <1>2 DEF S

LEMMA IndexersCounted ==
  ASSUME NEW g, NEW k, NEW n, Sound(g, k, n),
         Len(EnabledIndexers(n)) <= FULCRUM_MAX_INSTANCES
  PROVE  Len(EnabledIndexers(n)) \in 0..15
<1> DEFINE count == Len(EnabledIndexers(n))
<1>1. FULCRUM_MAX_INSTANCES = 15
  <2>1. PORT_OFFSETS["cashu_public"] = 100
    BY DEF PORT_OFFSETS
  <2>2. FULCRUM_MAX_INSTANCES = (100 - 40) \div 4
    BY <2>1 DEF FULCRUM_MAX_INSTANCES, FULCRUM_BASE, FULCRUM_STRIDE
  <2>3. QED
    BY <2>2
<1>2. count \in Nat
  <2> DEFINE e == EnabledIndexers(n)
             T == {e[j] : j \in DOMAIN e}
  <2>1. e \in Seq(T)
    BY DEF Sound
  <2> HIDE DEF e, T
  <2>2. Len(e) \in Nat
    BY <2>1
  <2>3. QED
    BY <2>2 DEF e
<1> HIDE DEF count
<1>3. count <= 15
  BY <1>1 DEF count
<1>4. count \in 0..15
  BY <1>2, <1>3
<1>5. QED
  BY <1>4 DEF count

\* The ports generate gives the named ones lie in the block of the network.
LEMMA DefaultsInBlock ==
  ASSUME NEW g, NEW k \in Networks, NEW n, Sound(g, k, n),
         Len(EnabledIndexers(n)) <= FULCRUM_MAX_INSTANCES, NEW p \in NamedPorts(k, n)
  PROVE  p \in DOMAIN DefaultPorts(k, n) /\ DefaultPorts(k, n)[p] \in Block(k)
<1> DEFINE base == BlockBase(k)
           guardians == GuardianCount(k, n)
           count == Len(EnabledIndexers(n))
           IndexerNames_ == [fulcrum_electrum_tcp |-> 0, fulcrum_electrum_ssl |-> 1,
                             fulcrum_admin |-> 2]
           FederationNames == [fedimintd_api_public |-> 0, fedimintd_api |-> 1,
                               fedimintd_ui |-> 2]
           LndNames == [gatewayd_api |-> 0, gatewayd_api_public |-> 1]
           Fixed == Strided(PORT_OFFSETS, 1, base, 0)
           Indexers == Strided(IndexerNames_, count, base + FULCRUM_BASE, FULCRUM_STRIDE)
           Federation == Strided(FederationNames, guardians, base + FEDIMINT_GUARDIAN_BASE,
                                 FEDIMINT_GUARDIAN_STRIDE)
           Lnds == Strided(LndNames, guardians, base + FEDIMINT_GATEWAY_BASE,
                           FEDIMINT_GATEWAY_STRIDE)
           Pools == Strided([bitcart_btclnd_p2p_base |-> BITCART_BTCLND_P2P_OFFSET,
                             bitcart_btclnd_grpc_base |-> BITCART_BTCLND_GRPC_OFFSET],
                            IF n.bitcart.enabled THEN 1 ELSE 0, base, 0)
           S == Block(k)
<1>1. DefaultPorts(k, n) = Over(Fixed, Over(Indexers, Over(Federation, Over(Lnds, Pools))))
  BY Zenon DEF DefaultPorts
<1>2. base \in Int
  BY BlockBaseIsInt
<1>3. guardians \in 0..3
  BY GuardianBound DEF Sound
<1>4. count \in 0..15
  BY IndexersCounted
<1>5. S = (base..(base + 399)) \cup ((base + 450)..(base + 999))
  BY DEF Block
<1> HIDE DEF base, guardians, count, S, Pools
<1>6. \A q \in DOMAIN Fixed : Fixed[q] \in S
  <2>1. \A q \in DOMAIN Fixed :
          Fixed[q] \in (base..(base + 399)) \cup ((base + 450)..(base + 999))
    BY <1>2, FixedInBlock
  <2> HIDE DEF Fixed
  <2>2. QED
    BY <1>5, <2>1
<1>7. \A q \in DOMAIN Indexers : Indexers[q] \in S
  <2>1. \A name \in DOMAIN IndexerNames_ : IndexerNames_[name] \in 0..2
    OBVIOUS
  <2>2. \A name \in DOMAIN IndexerNames_ : \A i \in 0..(count - 1) :
          (base + FULCRUM_BASE) + i * FULCRUM_STRIDE + IndexerNames_[name] \in S
    <3> HIDE DEF IndexerNames_
    <3>1. QED
      BY <1>2, <1>4, <1>5, <2>1 DEF FULCRUM_BASE, FULCRUM_STRIDE
  <2> HIDE DEF IndexerNames_
  <2>3. QED
    BY <2>2, StridedIn
<1>8. \A q \in DOMAIN Federation : Federation[q] \in S
  <2>1. \A name \in DOMAIN FederationNames : FederationNames[name] \in 0..2
    OBVIOUS
  <2>2. \A name \in DOMAIN FederationNames : \A i \in 0..(guardians - 1) :
          (base + FEDIMINT_GUARDIAN_BASE) + i * FEDIMINT_GUARDIAN_STRIDE
            + FederationNames[name] \in S
    <3> HIDE DEF FederationNames
    <3>1. QED
      BY <1>2, <1>3, <1>5, <2>1 DEF FEDIMINT_GUARDIAN_BASE, FEDIMINT_GUARDIAN_STRIDE
  <2> HIDE DEF FederationNames
  <2>3. QED
    BY <2>2, StridedIn
<1>9. \A q \in DOMAIN Lnds : Lnds[q] \in S
  <2>1. \A name \in DOMAIN LndNames : LndNames[name] \in 0..1
    OBVIOUS
  <2>2. \A name \in DOMAIN LndNames : \A i \in 0..(guardians - 1) :
          (base + FEDIMINT_GATEWAY_BASE) + i * FEDIMINT_GATEWAY_STRIDE + LndNames[name] \in S
    <3> HIDE DEF LndNames
    <3>1. QED
      BY <1>2, <1>3, <1>5, <2>1 DEF FEDIMINT_GATEWAY_BASE, FEDIMINT_GATEWAY_STRIDE
  <2> HIDE DEF LndNames
  <2>3. QED
    BY <2>2, StridedIn
<1>10. \/ p \in DOMAIN Fixed \/ p \in DOMAIN Indexers
       \/ p \in DOMAIN Federation \/ p \in DOMAIN Lnds
  <2>1. /\ DOMAIN Fixed = (DOMAIN PORT_OFFSETS) \X (0..(1 - 1))
        /\ DOMAIN Indexers = (DOMAIN IndexerNames_) \X (0..(count - 1))
        /\ DOMAIN Federation = (DOMAIN FederationNames) \X (0..(guardians - 1))
        /\ DOMAIN Lnds = (DOMAIN LndNames) \X (0..(guardians - 1))
    <3> HIDE DEF IndexerNames_, FederationNames, LndNames
    <3>1. DOMAIN Fixed = (DOMAIN PORT_OFFSETS) \X (0..(1 - 1))
      BY StridedIs, Zenon
    <3>2. DOMAIN Indexers = (DOMAIN IndexerNames_) \X (0..(count - 1))
      BY StridedIs, Zenon
    <3>3. DOMAIN Federation = (DOMAIN FederationNames) \X (0..(guardians - 1))
      BY StridedIs, Zenon
    <3>4. DOMAIN Lnds = (DOMAIN LndNames) \X (0..(guardians - 1))
      BY StridedIs, Zenon
    <3>5. QED
      BY <3>1, <3>2, <3>3, <3>4, Zenon
  <2>2. /\ {"fulcrum_electrum_tcp", "fulcrum_admin"} \subseteq DOMAIN IndexerNames_
        /\ {"fedimintd_api_public", "fedimintd_api", "fedimintd_ui"}
             \subseteq DOMAIN FederationNames
        /\ {"gatewayd_api", "gatewayd_api_public"} \subseteq DOMAIN LndNames
    OBVIOUS
  <2> HIDE DEF Fixed, Indexers, Federation, Lnds, IndexerNames_, FederationNames, LndNames
  <2>3. \A name \in DOMAIN PORT_OFFSETS : P(name) \in DOMAIN Fixed
    BY <2>1 DEF P
  <2>4. CASE \E name \in ServiceNames \cup SiteNames \cup BitcartFronts : p = P(name)
    BY <2>3, <2>4, OffsetNames
  <2>5. CASE p \in {"fulcrum_electrum_tcp", "fulcrum_admin"} \X (0..(count - 1))
    BY <2>1, <2>2, <2>5
  <2>6. CASE p \in {"fedimintd_api", "fedimintd_ui", "gatewayd_api"} \X (0..(guardians - 1))
    BY <2>1, <2>2, <2>6
  <2>7. CASE p \in {"fedimintd_api_public", "gatewayd_api_public"} \X (0..(guardians - 1))
    BY <2>1, <2>2, <2>7
  <2>8. QED
    BY <2>4, <2>5, <2>6, <2>7 DEF NamedPorts, ServicePorts, SitePorts, count, guardians
<1> HIDE DEF Fixed, Indexers, Federation, Lnds
<1> DEFINE D1 == Over(Lnds, Pools)
           D2 == Over(Federation, D1)
           D3 == Over(Indexers, D2)
<1>11. p \in DOMAIN Lnds => p \in DOMAIN D1 /\ D1[p] \in S
  BY <1>9, OverIn
<1> HIDE DEF D1
<1>12. p \in DOMAIN Lnds \cup DOMAIN Federation => p \in DOMAIN D2 /\ D2[p] \in S
  BY <1>8, <1>11, OverIn
<1> HIDE DEF D2
<1>13. p \in DOMAIN Lnds \cup DOMAIN Federation \cup DOMAIN Indexers =>
         p \in DOMAIN D3 /\ D3[p] \in S
  BY <1>7, <1>12, OverIn
<1>14. DefaultPorts(k, n) = Over(Fixed, D3)
  BY <1>1 DEF D1, D2
<1> HIDE DEF D3
<1>15. p \in DOMAIN Over(Fixed, D3) /\ Over(Fixed, D3)[p] \in S
  BY <1>6, <1>10, <1>13, OverIn
<1>16. QED
  BY <1>14, <1>15 DEF S

\* A port is one the operator has set, or it lies in the block.
LEMMA PortsAre ==
  ASSUME NEW g, NEW k \in Networks, NEW n, Sound(g, k, n),
         Len(EnabledIndexers(n)) <= FULCRUM_MAX_INSTANCES, NEW p \in NamedPorts(k, n)
  PROVE  /\ p \in DOMAIN NetworkPorts(k, n)
         /\ NetworkPorts(k, n)[p] \in Chosen(n) \cup Block(k)
<1> DEFINE S == Chosen(n) \cup Block(k)
           D == Over(BitcartOverrides(n), DefaultPorts(k, n))
<1>1. p \in DOMAIN DefaultPorts(k, n) /\ DefaultPorts(k, n)[p] \in S
  BY DefaultsInBlock
<1>2. p \in DOMAIN BitcartOverrides(n) => BitcartOverrides(n)[p] \in S
  BY Zenon DEF Chosen
<1>3. p \in DOMAIN n.ports => n.ports[p] \in S
  BY Zenon DEF Chosen
<1>4. NetworkPorts(k, n) = Over(n.ports, D)
  BY DEF NetworkPorts
<1> HIDE DEF S
<1>5. p \in DOMAIN D /\ D[p] \in S
  BY <1>1, <1>2, OverIn
<1> HIDE DEF D
<1>6. p \in DOMAIN Over(n.ports, D) /\ Over(n.ports, D)[p] \in S
  BY <1>3, <1>5, OverIn
<1>7. QED
  BY <1>4, <1>6 DEF S

-----------------------------------------------------------------------------
(* The allocator compares every two ports it names.                        *)

\* No two of the fixed ports of a network have the same offset.
LEMMA OffsetsDiffer ==
  \A a, b \in DOMAIN PORT_OFFSETS : PORT_OFFSETS[a] = PORT_OFFSETS[b] => a = b
  BY DEF PORT_OFFSETS

LEMMA FiniteInterval == \A a, b \in Int : IsFiniteSet(a..b)
  BY FS_Interval

LEMMA FiniteOffsets == IsFiniteSet(DOMAIN PORT_OFFSETS)
<1> DEFINE offset == [name \in DOMAIN PORT_OFFSETS |-> PORT_OFFSETS[name]]
           last == 999
<1>1. \A name \in DOMAIN PORT_OFFSETS : PORT_OFFSETS[name] \in 0..last
  BY OffsetsAre
<1>2. offset \in [DOMAIN PORT_OFFSETS -> 0..last]
  BY <1>1
<1>3. \A a, b \in DOMAIN PORT_OFFSETS : offset[a] = offset[b] => a = b
  BY OffsetsDiffer
<1>4. DOMAIN offset = DOMAIN PORT_OFFSETS
  OBVIOUS
<1> HIDE DEF offset
<1>5. offset \in Injection(DOMAIN PORT_OFFSETS, 0..last)
  BY <1>2, <1>3, <1>4 DEF Injection, IsInjective
<1>6. IsFiniteSet(0..last)
  <2>1. 0 \in Int /\ last \in Int
    OBVIOUS
  <2> HIDE DEF last
  <2>2. QED
    BY <2>1, FiniteInterval, Zenon
<1>7. QED
  BY <1>5, <1>6, FS_Injection

\* Every name a network may have a port by, however many it has.
PortNames ==
  DOMAIN PORT_OFFSETS
  \cup {"fulcrum_electrum_tcp", "fulcrum_electrum_ssl", "fulcrum_admin", "gatewayd_api"}
  \cup {"fedimintd_api_public", "fedimintd_api", "fedimintd_ui", "gatewayd_api_public"}
  \cup {"bitcart_btclnd_p2p_base", "bitcart_btclnd_grpc_base"}

LEMMA FiniteAssignable == IsFiniteSet(Networks \X (PortNames \X (0..14)))
<1>1. IsFiniteSet(PortNames)
  <2> DEFINE A == DOMAIN PORT_OFFSETS
             B == A \cup {"fulcrum_electrum_tcp", "fulcrum_electrum_ssl", "fulcrum_admin",
                          "gatewayd_api"}
             C == B \cup {"fedimintd_api_public", "fedimintd_api", "fedimintd_ui",
                          "gatewayd_api_public"}
             D == C \cup {"bitcart_btclnd_p2p_base"}
             E == D \cup {"bitcart_btclnd_grpc_base"}
  <2>1. PortNames = E
    BY DEF PortNames
  <2>2. IsFiniteSet(A)
    BY FiniteOffsets
  <2> HIDE DEF A
  <2>3. IsFiniteSet(B)
    BY <2>2, FewMore
  <2> HIDE DEF B
  <2>4. IsFiniteSet(C)
    BY <2>3, FewMore
  <2> HIDE DEF C
  <2>5. IsFiniteSet(D)
    BY <2>4, FS_AddElement
  <2> HIDE DEF D
  <2>6. IsFiniteSet(E)
    BY <2>5, FS_AddElement
  <2>7. QED
    BY <2>1, <2>6
<1>2. IsFiniteSet(Networks)
  <2>1. DOMAIN NETWORK_ORDER = 1..7
    BY DEF NETWORK_ORDER
  <2>2. NETWORK_ORDER \in [1..7 -> Networks]
    BY <2>1 DEF Networks, NETWORK_ORDER
  <2>3. \A k \in Networks : \E i \in 1..7 : NETWORK_ORDER[i] = k
    BY <2>1, Zenon DEF Networks
  <2>4. NETWORK_ORDER \in Surjection(1..7, Networks)
    BY <2>2, <2>3 DEF Surjection
  <2>5. IsFiniteSet(1..7)
    <3>1. 1 \in Int /\ 7 \in Int
      OBVIOUS
    <3>2. QED
      BY <3>1, FiniteInterval, Zenon
  <2>6. QED
    BY <2>4, <2>5, FS_Surjection
<1>3. IsFiniteSet(0..14)
  <2>1. 0 \in Int /\ 14 \in Int
    OBVIOUS
  <2>2. QED
    BY <2>1, FiniteInterval, Zenon
<1>4. IsFiniteSet(PortNames \X (0..14))
  BY <1>1, <1>3, FS_Product
<1>5. QED
  BY <1>2, <1>4, FS_Product

\* Every port of an accepted configuration is in the map under one of them.
LEMMA PortsNamed ==
  ASSUME NEW g, NEW k, NEW n, Sound(g, k, n), KnownPorts(k, n)
  PROVE  DOMAIN NetworkPorts(k, n) \subseteq PortNames \X (0..14)
<1> DEFINE All == PortNames \X (0..14)
           Pools == Strided([bitcart_btclnd_p2p_base |-> BITCART_BTCLND_P2P_OFFSET,
                             bitcart_btclnd_grpc_base |-> BITCART_BTCLND_GRPC_OFFSET],
                            IF n.bitcart.enabled THEN 1 ELSE 0, BlockBase(k), 0)
<1>1. GuardianCount(k, n) \in 0..3
  BY GuardianBound DEF Sound
<1>2. Len(EnabledIndexers(n)) \in 0..15
  BY IndexersCounted DEF KnownPorts
<1>3. DOMAIN DefaultPorts(k, n) \subseteq All
  <2> DEFINE Fixed == Strided(PORT_OFFSETS, 1, BlockBase(k), 0)
             base == BlockBase(k)
             guardians == GuardianCount(k, n)
             count == Len(EnabledIndexers(n))
             Indexers == Strided([fulcrum_electrum_tcp |-> 0, fulcrum_electrum_ssl |-> 1,
                                  fulcrum_admin |-> 2],
                                 count, base + FULCRUM_BASE, FULCRUM_STRIDE)
             Federation == Strided([fedimintd_api_public |-> 0, fedimintd_api |-> 1,
                                    fedimintd_ui |-> 2],
                                   guardians, base + FEDIMINT_GUARDIAN_BASE,
                                   FEDIMINT_GUARDIAN_STRIDE)
             Lnds == Strided([gatewayd_api |-> 0, gatewayd_api_public |-> 1],
                             guardians, base + FEDIMINT_GATEWAY_BASE,
                             FEDIMINT_GATEWAY_STRIDE)
  <2>1. DefaultPorts(k, n) = Over(Fixed, Over(Indexers, Over(Federation, Over(Lnds, Pools))))
    BY Zenon DEF DefaultPorts
  <2>2. \A names, number, start, stride :
          DOMAIN names \subseteq PortNames /\ number \in 0..15 =>
            DOMAIN Strided(names, number, start, stride) \subseteq All
    <3> SUFFICES ASSUME NEW names, NEW number \in 0..15, NEW start, NEW stride,
                        DOMAIN names \subseteq PortNames
                 PROVE  DOMAIN Strided(names, number, start, stride) \subseteq All
      OBVIOUS
    <3>1. DOMAIN Strided(names, number, start, stride) = (DOMAIN names) \X (0..(number - 1))
      BY StridedIs, Zenon
    <3>2. 0..(number - 1) \subseteq 0..14
      OBVIOUS
    <3>3. QED
      BY <3>1, <3>2
  <2> HIDE DEF All
  <2>3. DOMAIN Fixed \subseteq All
    <3>1. DOMAIN PORT_OFFSETS \subseteq PortNames /\ 1 \in 0..15
      BY DEF PortNames
    <3>2. QED
      BY <2>2, <3>1
  <2>4. DOMAIN Indexers \subseteq All
    BY <1>2, <2>2 DEF PortNames
  <2>5. DOMAIN Federation \subseteq All
    BY <1>1, <2>2 DEF PortNames
  <2>6. DOMAIN Lnds \subseteq All
    BY <1>1, <2>2 DEF PortNames
  <2>7. DOMAIN Pools \subseteq All
    BY <2>2 DEF PortNames
  <2> HIDE DEF Fixed, Indexers, Federation, Lnds, Pools
  <2>8. \A f, h : DOMAIN f \subseteq All /\ DOMAIN h \subseteq All =>
                    DOMAIN Over(f, h) \subseteq All
    BY DEF Over
  <2>9. DOMAIN Over(Federation, Over(Lnds, Pools)) \subseteq All
    BY <2>5, <2>6, <2>7, <2>8, Zenon
  <2>10. DOMAIN Over(Fixed, Over(Indexers, Over(Federation, Over(Lnds, Pools)))) \subseteq All
    BY <2>3, <2>4, <2>8, <2>9, Zenon
  <2>11. QED
    BY <2>1, <2>10
<1>4. DOMAIN n.ports \subseteq DOMAIN DefaultPorts(k, n)
  BY DEF KnownPorts
<1>5. DOMAIN BitcartOverrides(n) \subseteq All
  <2>1. \A p \in DOMAIN BitcartOverrides(n) :
          \E name \in {"bitcart_store_public", "bitcart_admin_public", "bitcart_api_public",
                       "bitcart_daemon"} : p = P(name)
    BY DEF BitcartOverrides
  <2>2. {"bitcart_store_public", "bitcart_admin_public", "bitcart_api_public",
         "bitcart_daemon"} \subseteq PortNames
    BY DEF PortNames, PORT_OFFSETS
  <2>3. QED
    BY <2>1, <2>2 DEF P
<1> HIDE DEF All
<1>6. DOMAIN NetworkPorts(k, n)
        = DOMAIN n.ports \cup (DOMAIN BitcartOverrides(n) \cup DOMAIN DefaultPorts(k, n))
  BY DEF NetworkPorts, Over
<1>7. QED
  BY <1>3, <1>4, <1>5, <1>6 DEF All

\* What allocate accepts has no port twice among those it names.
LEMMA AllocatedApart ==
  ASSUME NEW c, Allocatable(c),
         \A k \in EnabledNetworks(c) : Sound(c.global, k, c.networks[k])
  PROVE  \A k, j \in EnabledNetworks(c) :
           \A p \in DOMAIN PortMap(c)[k], q \in DOMAIN PortMap(c)[j] :
             PortMap(c)[k][p] = PortMap(c)[j][q] => k = j /\ p = q
<1> DEFINE S == Assignments(c)
           port == [a \in S |-> PortMap(c)[a[1]][a[2]]]
           T == {PortMap(c)[a[1]][a[2]] : a \in S}
<1>1. \A k \in EnabledNetworks(c) :
        /\ k \in Networks /\ KnownPorts(k, c.networks[k])
        /\ PortMap(c)[k] = NetworkPorts(k, c.networks[k])
  BY DEF Allocatable, EnabledNetworks, PortMap
<1>2. S = UNION {{<<k, p>> : p \in DOMAIN PortMap(c)[k]} : k \in EnabledNetworks(c)}
  BY DEF Assignments
<1>3. \A k \in EnabledNetworks(c) : \A p \in DOMAIN PortMap(c)[k] : <<k, p>> \in S
  BY <1>2
<1>4. S \subseteq Networks \X (PortNames \X (0..14))
  <2> SUFFICES ASSUME NEW a \in S PROVE a \in Networks \X (PortNames \X (0..14))
    OBVIOUS
  <2>1. PICK k \in EnabledNetworks(c) : \E p \in DOMAIN PortMap(c)[k] : a = <<k, p>>
    BY <1>2
  <2>2. PICK p \in DOMAIN PortMap(c)[k] : a = <<k, p>>
    BY <2>1
  <2>3. p \in PortNames \X (0..14)
    BY <1>1, PortsNamed
  <2>4. QED
    BY <1>1, <2>2, <2>3
<1>5. IsFiniteSet(S)
  BY <1>4, FiniteAssignable, FS_Subset
<1>6. Cardinality(T) = Cardinality(S)
  BY Zenon DEF Allocatable
<1>7. port \in Surjection(S, T)
  BY DEF Surjection
<1>8. \A a \in S : port[a] = PortMap(c)[a[1]][a[2]]
  OBVIOUS
<1> HIDE DEF S, port, T
<1>9. \A a, b \in S : port[a] = port[b] => a = b
  <2>1. port \in Injection(S, T)
    BY <1>5, <1>6, <1>7, FS_SurjSameCardinalityImpliesInj
  <2>2. QED
    BY <2>1 DEF Injection, IsInjective
<1>10. QED
  <2> SUFFICES ASSUME NEW k \in EnabledNetworks(c), NEW j \in EnabledNetworks(c),
                      NEW p \in DOMAIN PortMap(c)[k], NEW q \in DOMAIN PortMap(c)[j],
                      PortMap(c)[k][p] = PortMap(c)[j][q]
               PROVE  k = j /\ p = q
    OBVIOUS
  <2>1. <<k, p>> \in S /\ <<j, q>> \in S
    BY <1>3
  <2>2. port[<<k, p>>] = PortMap(c)[k][p] /\ port[<<j, q>>] = PortMap(c)[j][q]
    BY <1>8, <2>1
  <2>3. <<k, p>> = <<j, q>>
    BY <1>9, <2>1, <2>2
  <2>4. QED
    BY <2>3

-----------------------------------------------------------------------------
(* Two sockets of one port.                                                *)

\* The ports every installation takes without the allocator naming them, the ports of the
\* pools, and those of all blocks.
Reserved ==
  {TOR_SOCKS_PORT, WEB_BACKEND_PORT, FAUCET_BACKEND_PORT, ONION_WEB_BACKEND_PORT}
PoolPorts(c) ==
  UNION {{BlockBase(k) + BITCART_BTCLND_P2P_OFFSET + i :
            i \in 0..(c.networks[k].bitcart.btclnd_p2p_pool_size - 1)} :
           k \in {k \in EnabledNetworks(c) : c.networks[k].bitcart.enabled}}
Blocks == NETWORK_BLOCK_BASE..(NETWORK_BLOCK_BASE + 7 * NETWORK_BLOCK_SIZE - 1)

LEMMA BlockBases ==
  /\ \A k \in Networks : BlockBase(k) \in 30000..36000
  /\ \A k, j \in Networks :
       \/ k = j
       \/ BlockBase(k) >= BlockBase(j) + 1000
       \/ BlockBase(j) >= BlockBase(k) + 1000
<1>1. ASSUME NEW k \in Networks
      PROVE  \E i \in 1..7 : NETWORK_ORDER[i] = k /\ BlockBase(k) = 30000 + 1000 * (i - 1)
  <2>1. DOMAIN NETWORK_ORDER = 1..7
    BY DEF NETWORK_ORDER
  <2>2. \E i \in 1..7 : NETWORK_ORDER[i] = k
    BY <2>1, Zenon DEF Networks
  <2> DEFINE place == CHOOSE i \in DOMAIN NETWORK_ORDER : NETWORK_ORDER[i] = k
  <2>3. place \in 1..7 /\ NETWORK_ORDER[place] = k
    BY <2>1, <2>2
  <2>4. BlockBase(k) = NETWORK_BLOCK_BASE + NETWORK_BLOCK_SIZE * (place - 1)
    BY Zenon DEF BlockBase
  <2> HIDE DEF place
  <2>5. QED
    BY <2>3, <2>4 DEF NETWORK_BLOCK_BASE, NETWORK_BLOCK_SIZE
<1>2. ASSUME NEW k \in Networks, NEW j \in Networks, k # j
      PROVE  \/ BlockBase(k) >= BlockBase(j) + 1000
             \/ BlockBase(j) >= BlockBase(k) + 1000
  <2>1. PICK a \in 1..7 : NETWORK_ORDER[a] = k /\ BlockBase(k) = 30000 + 1000 * (a - 1)
    BY <1>1
  <2>2. PICK b \in 1..7 : NETWORK_ORDER[b] = j /\ BlockBase(j) = 30000 + 1000 * (b - 1)
    BY <1>1
  <2>3. a # b
    BY <1>2, <2>1, <2>2
  <2>4. QED
    BY <2>1, <2>2, <2>3
<1>3. ASSUME NEW k \in Networks
      PROVE  BlockBase(k) \in 30000..36000
  <2>1. PICK a \in 1..7 : BlockBase(k) = 30000 + 1000 * (a - 1)
    BY <1>1
  <2>2. QED
    BY <2>1
<1>4. QED
  BY <1>2, <1>3

\* No port of a pool is in a block as the other ports are, and all are in Blocks.
LEMMA PoolsApart ==
  ASSUME NEW k \in Networks, NEW j \in Networks, NEW i \in 0..49
  PROVE  LET port == BlockBase(k) + BITCART_BTCLND_P2P_OFFSET + i IN
         /\ port \notin Block(j) /\ port \in Blocks
         /\ Block(j) \subseteq Blocks
         /\ \A other \in 0..49 :
              port = BlockBase(j) + BITCART_BTCLND_P2P_OFFSET + other => k = j
<1> DEFINE a == BlockBase(k)
           b == BlockBase(j)
<1>1. a \in 30000..36000 /\ b \in 30000..36000
  BY BlockBases
<1>2. k = j \/ a >= b + 1000 \/ b >= a + 1000
  BY BlockBases
<1>3. k = j => a = b
  OBVIOUS
<1>4. BITCART_BTCLND_P2P_OFFSET = 400
  BY DEF BITCART_BTCLND_P2P_OFFSET
<1>5. Blocks = 30000..36999
  BY DEF Blocks, NETWORK_BLOCK_BASE, NETWORK_BLOCK_SIZE
<1>6. Block(j) = (b..(b + 399)) \cup ((b + 450)..(b + 999))
  BY DEF Block
<1> HIDE DEF a, b
<1>7. a + 400 + i \notin Block(j)
  BY <1>1, <1>2, <1>3, <1>6
<1>8. a + 400 + i \in Blocks
  BY <1>1, <1>5
<1>9. Block(j) \subseteq Blocks
  BY <1>1, <1>5, <1>6
<1>10. \A other \in 0..49 : a + 400 + i = b + 400 + other => k = j
  BY <1>1, <1>2
<1>11. QED
  BY <1>4, <1>7, <1>8, <1>9, <1>10 DEF a, b

\* Only the dashboard's can be the port of another.
LEMMA FixedApart ==
  ASSUME NEW c, NEW l, NEW m, IsFixed(c, l), IsFixed(c, m), l.port = m.port,
         l.owner # m.owner
  PROVE  l.port = WebPublicPort(c) /\ l.port \in Reserved
<1> DEFINE web == WebPublicPort(c)
<1>1. Reserved = {9050, 29080, 29081, 29082}
  BY DEF Reserved, TOR_SOCKS_PORT, WEB_BACKEND_PORT, FAUCET_BACKEND_PORT,
     ONION_WEB_BACKEND_PORT
<1> DEFINE A == <<"caddy", P("dashboard")>>
           B == <<"caddy", P("onion")>>
           C == <<"web", "dashboard">>
           D == <<"web", "faucet">>
           E == <<"tor", "socks">>
<1>2. \A x : IsFixed(c, x) =>
        \/ x.owner = A /\ x.port = web
        \/ x.owner = B /\ x.port = 29082
        \/ x.owner = C /\ x.port = 29080
        \/ x.owner = D /\ x.port = 29081
        \/ x.owner = E /\ x.port = 9050
  BY DEF IsFixed, TOR_SOCKS_PORT, WEB_BACKEND_PORT, FAUCET_BACKEND_PORT,
     ONION_WEB_BACKEND_PORT
<1> HIDE DEF web, A, B, C, D, E
<1>3. (l.owner = A /\ l.port = web) \/ (m.owner = A /\ m.port = web)
  BY <1>2
<1>4. CASE l.owner = A /\ l.port = web
  <2>1. m.owner # A
    BY <1>4, Zenon
  <2>2. m.port \in {9050, 29080, 29081, 29082}
    BY <1>2, <2>1
  <2>3. QED
    BY <1>1, <1>4, <2>2 DEF web
<1>5. CASE m.owner = A /\ m.port = web
  <2>1. l.owner # A
    BY <1>5, Zenon
  <2>2. l.port \in {9050, 29080, 29081, 29082}
    BY <1>2, <2>1
  <2>3. QED
    BY <1>1, <1>5, <2>2 DEF web
<1>6. QED
  BY <1>3, <1>4, <1>5

\* The dashboard has one of the others' ports only when the operator gives it that one.
LEMMA DashboardByHand ==
  ASSUME NEW c, WebPublicPort(c) \in Reserved \cup Blocks
  PROVE  WebPublicPort(c) \in ByHand(c)
<1>1. WebPublicPort(c) \in {c.web.port, 80, 443}
  BY DEF WebPublicPort
<1>2. 80 \notin Reserved \cup Blocks /\ 443 \notin Reserved \cup Blocks
  BY DEF Reserved, Blocks, TOR_SOCKS_PORT, WEB_BACKEND_PORT, FAUCET_BACKEND_PORT,
     ONION_WEB_BACKEND_PORT, NETWORK_BLOCK_BASE, NETWORK_BLOCK_SIZE
<1>3. WebPublicPort(c) = c.web.port
  BY <1>1, <1>2
<1>4. QED
  BY <1>3 DEF ByHand

LEMMA PortsOfKinds ==
  ASSUME NEW c, Allocatable(c), NEW l,
         \A k \in EnabledNetworks(c) : Sound(c.global, k, c.networks[k])
  PROVE  /\ IsFixed(c, l) => l.port \in {WebPublicPort(c)} \cup Reserved
         /\ IsPool(c, l) => l.port \in PoolPorts(c)
         /\ IsNamed(c, l) =>
              \E k \in EnabledNetworks(c) : l.port \in Chosen(c.networks[k]) \cup Block(k)
<1>1. IsFixed(c, l) => l.port \in {WebPublicPort(c)} \cup Reserved
  BY DEF IsFixed, Reserved
<1>2. IsPool(c, l) => l.port \in PoolPorts(c)
  BY DEF IsPool, PoolPorts
<1>3. ASSUME IsNamed(c, l)
      PROVE  \E k \in EnabledNetworks(c) : l.port \in Chosen(c.networks[k]) \cup Block(k)
  <2>1. PICK k \in EnabledNetworks(c) : \E p \in NamedPorts(k, c.networks[k]) :
               l.port = PortMap(c)[k][p]
    BY <1>3 DEF IsNamed
  <2>2. PICK p \in NamedPorts(k, c.networks[k]) : l.port = PortMap(c)[k][p]
    BY <2>1
  <2>3. /\ k \in Networks /\ KnownPorts(k, c.networks[k])
        /\ PortMap(c)[k] = NetworkPorts(k, c.networks[k])
    BY DEF Allocatable, EnabledNetworks, PortMap
  <2>4. NetworkPorts(k, c.networks[k])[p] \in Chosen(c.networks[k]) \cup Block(k)
    BY <2>3, PortsAre DEF KnownPorts
  <2>5. QED
    BY <2>2, <2>3, <2>4
<1>4. QED
  BY <1>1, <1>2, <1>3

LEMMA ClashesOf ==
  ASSUME NEW c, IsArgusConfig(c), Allocatable(c),
         \A k \in EnabledNetworks(c) : Sound(c.global, k, c.networks[k]),
         NEW l \in Listeners(c), NEW m \in Listeners(c), l.port = m.port, l.owner # m.owner
  PROVE  l.port \in ByHand(c) /\ (l \in Unallocated(c) \/ m \in Unallocated(c))
<1> DEFINE web == WebPublicPort(c)
<1>1. \A k \in EnabledNetworks(c) :
        /\ k \in Networks /\ Block(k) \subseteq Blocks
        /\ KnownPorts(k, c.networks[k])
        /\ c.networks[k].bitcart.btclnd_p2p_pool_size \in 1..50
  <2> SUFFICES ASSUME NEW k \in EnabledNetworks(c)
               PROVE  /\ k \in Networks /\ Block(k) \subseteq Blocks
                      /\ KnownPorts(k, c.networks[k])
                      /\ c.networks[k].bitcart.btclnd_p2p_pool_size \in 1..50
    OBVIOUS
  <2>1. k \in Networks /\ KnownPorts(k, c.networks[k])
    BY DEF Allocatable, EnabledNetworks
  <2>2. Block(k) \subseteq Blocks
    BY <2>1, PoolsApart
  <2>3. c.networks[k].bitcart \in BitcartCfg
    BY DEF Sound, IsNetworkCfg
  <2>4. c.networks[k].bitcart.btclnd_p2p_pool_size \in 1..50
    BY <2>3 DEF BitcartCfg
  <2>5. QED
    BY <2>1, <2>2, <2>4
<1>2. Reserved \cap Blocks = {}
  BY DEF Reserved, Blocks, TOR_SOCKS_PORT, WEB_BACKEND_PORT, FAUCET_BACKEND_PORT,
     ONION_WEB_BACKEND_PORT, NETWORK_BLOCK_BASE, NETWORK_BLOCK_SIZE
<1>3. web \in Reserved \cup Blocks => web \in ByHand(c)
  BY DashboardByHand
<1>4. \A k \in EnabledNetworks(c) : Chosen(c.networks[k]) \subseteq ByHand(c)
  BY DEF ByHand
<1>5. ASSUME NEW port \in PoolPorts(c)
      PROVE  /\ port \in Blocks
             /\ \A j \in EnabledNetworks(c) : port \notin Block(j)
             /\ \A k, j \in EnabledNetworks(c) :
                  \A i \in 0..(c.networks[k].bitcart.btclnd_p2p_pool_size - 1),
                     o \in 0..(c.networks[j].bitcart.btclnd_p2p_pool_size - 1) :
                    /\ port = BlockBase(k) + BITCART_BTCLND_P2P_OFFSET + i
                    /\ port = BlockBase(j) + BITCART_BTCLND_P2P_OFFSET + o
                    => k = j
  <2>1. PICK k \in EnabledNetworks(c) :
          \E i \in 0..(c.networks[k].bitcart.btclnd_p2p_pool_size - 1) :
             port = BlockBase(k) + BITCART_BTCLND_P2P_OFFSET + i
    BY DEF PoolPorts
  <2>2. PICK i \in 0..(c.networks[k].bitcart.btclnd_p2p_pool_size - 1) :
             port = BlockBase(k) + BITCART_BTCLND_P2P_OFFSET + i
    BY <2>1
  <2>3. \A j \in EnabledNetworks(c) :
          0..(c.networks[j].bitcart.btclnd_p2p_pool_size - 1) \subseteq 0..49
    <3> SUFFICES ASSUME NEW j \in EnabledNetworks(c)
                 PROVE  0..(c.networks[j].bitcart.btclnd_p2p_pool_size - 1) \subseteq 0..49
      OBVIOUS
    <3>1. PICK size \in 1..50 : c.networks[j].bitcart.btclnd_p2p_pool_size = size
      BY <1>1
    <3>2. QED
      BY <3>1
  <2>4. i \in 0..49 /\ k \in Networks
    BY <1>1, <2>3
  <2>5. port \in Blocks /\ \A j \in EnabledNetworks(c) : port \notin Block(j)
    BY <1>1, <2>2, <2>4, PoolsApart
  <2>6. ASSUME NEW a \in EnabledNetworks(c), NEW b \in EnabledNetworks(c),
               NEW u \in 0..(c.networks[a].bitcart.btclnd_p2p_pool_size - 1),
               NEW v \in 0..(c.networks[b].bitcart.btclnd_p2p_pool_size - 1),
               port = BlockBase(a) + BITCART_BTCLND_P2P_OFFSET + u,
               port = BlockBase(b) + BITCART_BTCLND_P2P_OFFSET + v
        PROVE  a = b
    <3>1. u \in 0..49 /\ v \in 0..49 /\ a \in Networks /\ b \in Networks
      BY <1>1, <2>3
    <3>2. QED
      BY <2>6, <3>1, PoolsApart
  <2>7. QED
    BY <2>5, <2>6
<1>6. \A x \in {l, m} :
        \/ IsNamed(c, x)
        \/ x \in Unallocated(c) /\ (IsFixed(c, x) \/ IsPool(c, x))
  BY ListenersAre
<1>7. ASSUME NEW x, NEW y, x.port = y.port, IsFixed(c, x), IsPool(c, y) \/ IsNamed(c, y)
      PROVE  x.port \in ByHand(c)
  <2>1. x.port \in {web} \cup Reserved
    BY <1>7, PortsOfKinds
  <2>2. x.port \in Blocks => x.port \in ByHand(c)
    BY <1>2, <1>3, <2>1
  <2>3. CASE IsPool(c, y)
    BY <1>5, <1>7, <2>2, <2>3, PortsOfKinds
  <2>4. CASE IsNamed(c, y)
    <3>1. PICK k \in EnabledNetworks(c) : y.port \in Chosen(c.networks[k]) \cup Block(k)
      BY <2>4, PortsOfKinds
    <3>2. QED
      BY <1>1, <1>4, <1>7, <2>2, <3>1
  <2>5. QED
    BY <1>7, <2>3, <2>4
<1>8. ASSUME NEW x, NEW y, x.port = y.port, IsPool(c, x), IsNamed(c, y)
      PROVE  x.port \in ByHand(c)
  <2>1. x.port \in PoolPorts(c)
    BY <1>8, PortsOfKinds
  <2>2. PICK k \in EnabledNetworks(c) : y.port \in Chosen(c.networks[k]) \cup Block(k)
    BY <1>8, PortsOfKinds
  <2>3. QED
    BY <1>4, <1>5, <1>8, <2>1, <2>2
<1>9. ASSUME IsFixed(c, l), IsFixed(c, m)
      PROVE  l.port \in ByHand(c)
  BY <1>3, <1>9, FixedApart
<1>10. ASSUME IsPool(c, l), IsPool(c, m)
       PROVE  FALSE
  <2>1. PICK k \in EnabledNetworks(c) :
          /\ l.owner = <<k, "btclnd">>
          /\ \E i \in 0..(c.networks[k].bitcart.btclnd_p2p_pool_size - 1) :
               l.port = BlockBase(k) + BITCART_BTCLND_P2P_OFFSET + i
    BY <1>10 DEF IsPool
  <2>2. PICK j \in EnabledNetworks(c) :
          /\ m.owner = <<j, "btclnd">>
          /\ \E i \in 0..(c.networks[j].bitcart.btclnd_p2p_pool_size - 1) :
               m.port = BlockBase(j) + BITCART_BTCLND_P2P_OFFSET + i
    BY <1>10 DEF IsPool
  <2>3. l.port \in PoolPorts(c)
    BY <1>10, PortsOfKinds
  <2>4. PICK i \in 0..(c.networks[k].bitcart.btclnd_p2p_pool_size - 1) :
          l.port = BlockBase(k) + BITCART_BTCLND_P2P_OFFSET + i
    BY <2>1
  <2>5. PICK o \in 0..(c.networks[j].bitcart.btclnd_p2p_pool_size - 1) :
          m.port = BlockBase(j) + BITCART_BTCLND_P2P_OFFSET + o
    BY <2>2
  <2>6. l.port = BlockBase(j) + BITCART_BTCLND_P2P_OFFSET + o
    BY <2>5
  <2>7. \A a, b \in EnabledNetworks(c) :
          \A u \in 0..(c.networks[a].bitcart.btclnd_p2p_pool_size - 1),
             v \in 0..(c.networks[b].bitcart.btclnd_p2p_pool_size - 1) :
            /\ l.port = BlockBase(a) + BITCART_BTCLND_P2P_OFFSET + u
            /\ l.port = BlockBase(b) + BITCART_BTCLND_P2P_OFFSET + v
            => a = b
    BY <1>5, <2>3, Zenon
  <2>8. k = j
    BY <2>4, <2>6, <2>7, Zenon
  <2>9. QED
    BY <2>1, <2>2, <2>8
<1>11. ASSUME IsNamed(c, l), IsNamed(c, m)
       PROVE  FALSE
  <2>1. PICK k \in EnabledNetworks(c) : \E p \in NamedPorts(k, c.networks[k]) :
          l.owner = Holder(k, c.networks[k], p) /\ l.port = PortMap(c)[k][p]
    BY <1>11 DEF IsNamed
  <2>2. PICK p \in NamedPorts(k, c.networks[k]) :
          l.owner = Holder(k, c.networks[k], p) /\ l.port = PortMap(c)[k][p]
    BY <2>1
  <2>3. PICK j \in EnabledNetworks(c) : \E q \in NamedPorts(j, c.networks[j]) :
          m.owner = Holder(j, c.networks[j], q) /\ m.port = PortMap(c)[j][q]
    BY <1>11 DEF IsNamed
  <2>4. PICK q \in NamedPorts(j, c.networks[j]) :
          m.owner = Holder(j, c.networks[j], q) /\ m.port = PortMap(c)[j][q]
    BY <2>3
  <2>5. p \in DOMAIN PortMap(c)[k] /\ q \in DOMAIN PortMap(c)[j]
    <3>1. PortMap(c)[k] = NetworkPorts(k, c.networks[k])
          /\ PortMap(c)[j] = NetworkPorts(j, c.networks[j])
      BY DEF PortMap
    <3>2. QED
      BY <1>1, <3>1, PortsAre DEF KnownPorts
  <2>6. PortMap(c)[k][p] = PortMap(c)[j][q]
    BY <2>2, <2>4
  <2>7. \A a, b \in EnabledNetworks(c) :
          \A u \in DOMAIN PortMap(c)[a], v \in DOMAIN PortMap(c)[b] :
            PortMap(c)[a][u] = PortMap(c)[b][v] => a = b /\ u = v
    BY AllocatedApart, Zenon
  <2>8. k = j /\ p = q
    <3> DEFINE map(a) == PortMap(c)[a]
    <3>1. /\ p \in DOMAIN map(k) /\ q \in DOMAIN map(j)
          /\ map(k)[p] = map(j)[q]
      BY <2>5, <2>6
    <3>2. \A a, b \in EnabledNetworks(c) : \A u \in DOMAIN map(a), v \in DOMAIN map(b) :
            map(a)[u] = map(b)[v] => a = b /\ u = v
      BY <2>7
    <3> HIDE DEF map
    <3>3. \A u \in DOMAIN map(k), v \in DOMAIN map(j) :
            map(k)[u] = map(j)[v] => k = j /\ u = v
      BY <3>2
    <3>4. QED
      BY <3>1, <3>3
  <2>9. QED
    BY <2>2, <2>4, <2>8
<1>12. l.port \in ByHand(c)
  BY <1>6, <1>7, <1>8, <1>9, <1>10, <1>11
<1>13. l \in Unallocated(c) \/ m \in Unallocated(c)
  BY <1>6, <1>11
<1>14. QED
  BY <1>12, <1>13

\* ClashesAreByHand: in every accepted configuration, two sockets fight for a port of the
\* host only over a number the operator set by hand, and only where one of the two is a
\* socket the allocator compares with nothing: whatever networks, tools, indexers,
\* guardians and overrides there are, allocate keeps all the ports it names apart, and the
\* defaults of the others never meet one another or them.
THEOREM ClashesOnlyByHand ==
  ASSUME IndexersListed
  PROVE  Spec => []ClashesAreByHand
<1>1. Accepted => ClashesAreByHand
  <2> SUFFICES ASSUME Accepted, phase = "generated",
                      NEW l \in Listeners(cfg), NEW m \in Listeners(cfg), l.port = m.port,
                      l.owner # m.owner
               PROVE  l.port \in ByHand(cfg) /\ {l, m} \cap Unallocated(cfg) # {}
    BY DEF ClashesAreByHand
  <2>1. cfg \in Configs /\ Valid(cfg) /\ Allocatable(cfg)
    BY DEF Accepted
  <2>2. IsArgusConfig(cfg)
    BY <2>1, DeploymentAssumption DEF DeploymentAssumption
  <2>3. \A k \in EnabledNetworks(cfg) : IsNetworkCfg(cfg.networks[k])
    BY <2>2 DEF IsArgusConfig, EnabledNetworks
  <2>4. \A k \in EnabledNetworks(cfg) : Sound(cfg.global, k, cfg.networks[k])
    BY <2>1, <2>3 DEF Sound, IndexersListed, Valid
  <2>5. l.port \in ByHand(cfg) /\ (l \in Unallocated(cfg) \/ m \in Unallocated(cfg))
    BY <2>1, <2>2, <2>4, ClashesOf
  <2>6. QED
    BY <2>5
<1>2. QED
  BY <1>1, AcceptedAlways, PTL
=============================================================================
