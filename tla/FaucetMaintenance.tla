-------------------------- MODULE FaucetMaintenance --------------------------
(***************************************************************************)
(* The daily purge of the faucet's database: the maintenance thread of     *)
(* each gunicorn worker (argus/faucet/maintenance.py), the Maintenance     *)
(* table it claims the day on and that init_db seeds                       *)
(* (argus/faucet/store.py).                                                *)
(*                                                                         *)
(* Time is kept as ages, so that the clock can run for ever: age[w] is the *)
(* time since last_run of the row worker w seeded, up to Interval, where   *)
(* the row is due.                                                         *)
(***************************************************************************)
EXTENDS Integers, FiniteSets

CONSTANTS
  Workers,      \* gunicorn workers, each with a maintenance thread
  Interval,     \* DAY_SECONDS, in ticks
  MaxFaults,    \* bound of the model: how many faults happen
  Staggered     \* TRUE if no two workers ever start at the same time

ASSUME MaintenanceAssumption ==
  Interval \in Nat \ {0} /\ MaxFaults \in Nat /\ Staggered \in BOOLEAN

VARIABLES
  at,        \* at[w]: where the worker's start or its thread stands
  age,       \* table Maintenance, one possible row per worker, or NoRow
  expired,   \* the tables that hold rows past their retention
  sinceWin,  \* history: time since the last claim that returned True
  faults     \* history: faults so far

vars == <<at, age, expired, sinceWin, faults>>

NoRow == -1
Tables == {"nonces", "pow", "ip", "usage"}
Starting == {"select", "insert"}
Goto(w, to) == at' = [at EXCEPT ![w] = to]
Capped(t) == IF t < Interval THEN t + 1 ELSE Interval

Init ==
  /\ at = [w \in Workers |-> "down"]
  /\ age = [w \in Workers |-> NoRow]
  /\ expired = {}
  /\ sinceWin = Interval
  /\ faults = 0

\* gunicorn forks the worker, create_app calls init_db.
Start(w) ==
  /\ at[w] = "down"
  /\ Staggered => \A v \in Workers : at[v] \notin Starting
  /\ Goto(w, "select")
  /\ UNCHANGED <<age, expired, sinceWin, faults>>

\* init_db: does a Maintenance row exist?
SeedSelect(w) ==
  /\ at[w] = "select"
  /\ Goto(w, IF \E v \in Workers : age[v] # NoRow THEN "wake" ELSE "insert")
  /\ UNCHANGED <<age, expired, sinceWin, faults>>

\* init_db: it did not, so create one, due at once (last_run = 0).
SeedInsert(w) ==
  /\ at[w] = "insert"
  /\ age' = [age EXCEPT ![w] = Interval]
  /\ Goto(w, "wake")
  /\ UNCHANGED <<expired, sinceWin, faults>>

Due == {w \in Workers : age[w] = Interval}

MutantClaimUndated(w) ==
  /\ at[w] = "wake"
  /\ Goto(w, IF Due # {} THEN "nonces" ELSE "sleep")
  /\ sinceWin' = IF Due # {} THEN 0 ELSE sinceWin
  /\ UNCHANGED <<age, expired, faults>>

\* claim_maintenance_run: one UPDATE of every due row.  The claim is won if
\* it changed exactly one.
Claim(w) ==
  LET won == Cardinality(Due) = 1 IN
  /\ at[w] = "wake"
  /\ age' = [v \in Workers |-> IF v \in Due THEN 0 ELSE age[v]]
  /\ Goto(w, IF won THEN "nonces" ELSE "sleep")
  /\ sinceWin' = IF won THEN 0 ELSE sinceWin
  /\ UNCHANGED <<expired, faults>>

MutantAfter(table) ==
  CASE table = "nonces" -> "pow" [] table = "pow" -> "ip"
    [] table = "ip" -> "sleep" [] table = "usage" -> "sleep"

\* run_maintenance deletes from the tables in this order.
After(table) ==
  CASE table = "nonces" -> "pow" [] table = "pow" -> "ip"
    [] table = "ip" -> "usage" [] table = "usage" -> "sleep"

Purge(w) ==
  /\ at[w] \in Tables
  /\ expired' = expired \ {at[w]}
  /\ Goto(w, After(at[w]))
  /\ UNCHANGED <<age, sinceWin, faults>>

\* _loop sleeps for an hour and looks again.
Wake(w) ==
  /\ at[w] = "sleep"
  /\ Goto(w, "wake")
  /\ UNCHANGED <<age, expired, sinceWin, faults>>

\* A statement raises and _loop swallows it: the rest of a claimed purge is
\* gone until the next interval.
Hiccup(w) ==
  /\ faults < MaxFaults
  /\ at[w] \in Tables \cup {"wake"}
  /\ Goto(w, "sleep")
  /\ faults' = faults + 1
  /\ UNCHANGED <<age, expired, sinceWin>>

\* The worker dies at any point and gunicorn starts another.
Crash(w) ==
  /\ faults < MaxFaults
  /\ at[w] # "down"
  /\ Goto(w, "down")
  /\ faults' = faults + 1
  /\ UNCHANGED <<age, expired, sinceWin>>

\* Time passes and rows expire.
Tick ==
  /\ age' = [w \in Workers |-> IF age[w] = NoRow THEN NoRow ELSE Capped(age[w])]
  /\ sinceWin' = Capped(sinceWin)
  /\ expired' = Tables
  /\ UNCHANGED <<at, faults>>

Step(w) ==
  Start(w) \/ SeedSelect(w) \/ SeedInsert(w) \/ Claim(w) \/ Purge(w) \/ Wake(w)

Next ==
  \/ \E w \in Workers : Step(w) \/ Hiccup(w) \/ Crash(w)
  \/ Tick

\* Threads run and the clock does not stop; a start that must wait for
\* another's gets its turn.
Fairness ==
  /\ WF_vars(Tick)
  /\ \A w \in Workers : SF_vars(Step(w))

Spec == Init /\ [][Next]_vars /\ Fairness
-----------------------------------------------------------------------------
\* Every variable has its type.
TypeOK ==
  /\ at \in [Workers -> {"down", "wake", "sleep"} \cup Starting \cup Tables]
  /\ age \in [Workers -> {NoRow} \cup 0..Interval]
  /\ expired \subseteq Tables
  /\ sinceWin \in 0..Interval
  /\ faults \in 0..MaxFaults

\* claim_maintenance_run "returns True to exactly one caller per interval":
\* two claims are never won within one interval, whichever workers make them
\* and wherever they crash.
ClaimsSpaced == [][sinceWin' < sinceWin => sinceWin = Interval]_sinceWin

\* Expired rows do not stay for ever, in any table ("so the database doesn't
\* grow without bound"): a claim lost to a fault is made up for later.
PurgeRecurs == \A t \in Tables : []<>(t \notin expired)
=============================================================================
