------------------------------- MODULE Sampler -------------------------------
(***************************************************************************)
(* The metrics history: the sampler process (argus/web/sampler.py), the    *)
(* containers whose network counters it reads, and the three tiers of the  *)
(* SQLite table it writes (argus/web/history.py).  Every statement of a    *)
(* tick commits on its own; an exception or a death between two of them    *)
(* leaves the earlier ones in place.                                       *)
(*                                                                         *)
(* One service is enough, for rows of different services never meet; its   *)
(* containers add up.  Of the gauges only the received bytes are kept:     *)
(* they are the ones that are differenced, summed and summed again.  A     *)
(* tier maps the start of a bucket to its bytes.                           *)
(***************************************************************************)
EXTENDS Integers, FiniteSets, Functions

CONSTANTS
  Containers,   \* the containers of the service
  Hour, Day,    \* HOUR and DAY, in ticks of the clock
  RawHours, HourlyDays, DailyDays,  \* retention of the tiers
  MaxClock,     \* bound of the model: the clock stops here
  MaxTraffic,   \* bound of the model: bytes a container receives in all
  MaxFaults     \* bound of the model: faults that happen

ASSUME SamplerAssumption ==
  /\ IsFiniteSet(Containers)
  /\ Hour \in Nat \ {0} /\ Day \in Nat \ {0} /\ Day % Hour = 0
  /\ RawHours \in Nat \ {0} /\ HourlyDays \in Nat \ {0} /\ DailyDays \in Nat \ {0}
  /\ MaxClock \in Nat /\ MaxTraffic \in Nat /\ MaxFaults \in Nat

VARIABLES
  clock,     \* time.time()
  running,   \* the containers that run
  counter,   \* counter[c]: cumulative bytes, 0 when c starts
  at,        \* where the sampler stands in tick()
  ts, row,   \* the tick under way: its time and its bytes
  lastRx,    \* _last_rx, Unknown for a container that is not in it
  raw, hour, day,  \* the tiers
  moved,     \* history: bytes c has received since ever
  credited,  \* history: bytes of c the sampler has put into rows
  written,   \* history: every raw row ever written
  faults     \* history: faults so far

world == <<clock, running, counter, moved>>
tick == <<ts, row, lastRx, credited>>
tiers == <<raw, hour, day, written>>
vars == <<world, at, tick, tiers, faults>>

Unknown == -1
Floor(t, span) == (t \div span) * span

Init ==
  /\ clock = 0
  /\ running = Containers
  /\ counter = [c \in Containers |-> 0]
  /\ at = "idle"
  /\ ts = Unknown /\ row = 0
  /\ lastRx = [c \in Containers |-> Unknown]
  /\ raw = << >> /\ hour = << >> /\ day = << >>
  /\ moved = [c \in Containers |-> 0]
  /\ credited = [c \in Containers |-> 0]
  /\ written = << >>
  /\ faults = 0
-----------------------------------------------------------------------------
(* The containers: external.                                               *)

Receive(c) ==
  /\ c \in running
  /\ moved[c] < MaxTraffic
  /\ counter' = [counter EXCEPT ![c] = @ + 1]
  /\ moved' = [moved EXCEPT ![c] = @ + 1]
  /\ UNCHANGED <<clock, running, at, tick, tiers, faults>>

Stop(c) ==
  /\ c \in running /\ faults < MaxFaults
  /\ running' = running \ {c}
  /\ faults' = faults + 1
  /\ UNCHANGED <<clock, counter, moved, at, tick, tiers>>

\* Started again, or created again under its name.
StartAgain(c) ==
  /\ c \notin running
  /\ running' = running \cup {c}
  /\ counter' = [counter EXCEPT ![c] = 0]
  /\ UNCHANGED <<clock, moved, at, tick, tiers, faults>>

Tick ==
  /\ clock < MaxClock
  /\ clock' = clock + 1
  /\ UNCHANGED <<running, counter, moved, at, tick, tiers, faults>>
-----------------------------------------------------------------------------
(* The sampler.                                                            *)

MutantDelta(cur, last) ==
  IF last = Unknown \/ cur < last THEN cur ELSE cur - last

\* Sampler._delta: no baseline yet counts for nothing, and a counter that
\* went back for what it holds.
Delta(cur, last) ==
  IF last = Unknown THEN 0 ELSE IF cur < last THEN cur ELSE cur - last

\* tick() up to the first write: the counters of the containers seen are
\* turned into bytes and remembered; the others are forgotten.  A container
\* whose stats call fails is not seen.
Read(seen) ==
  LET delta == [c \in seen |-> Delta(counter[c], lastRx[c])] IN
  /\ at = "idle"
  /\ clock > ts
  /\ at' = "write"
  /\ ts' = clock
  /\ row' = SumFunction(delta)
  /\ lastRx' = [c \in Containers |-> IF c \in seen THEN counter[c] ELSE Unknown]
  /\ credited' = [c \in Containers |-> credited[c] + IF c \in seen THEN delta[c] ELSE 0]
  /\ UNCHANGED <<world, tiers, faults>>

\* INSERT OR REPLACE: the rows of new come in, and stand in for those of tier
\* that have their keys.
Replace(tier, new) ==
  [t \in DOMAIN new \cup DOMAIN tier |-> IF t \in DOMAIN new THEN new[t] ELSE tier[t]]

\* write_samples: the raw row of the tick.
WriteSample ==
  /\ at = "write"
  /\ at' = "hour"
  /\ raw' = Replace(raw, [t \in {ts} |-> row])
  /\ written' = Replace(written, [t \in {ts} |-> row])
  /\ UNCHANGED <<world, tick, hour, day, faults>>

MutantRollupAdds(src, dst, span, since) ==
  LET recent == {t \in DOMAIN src : t >= since}
      Old(b) == IF b \in DOMAIN dst THEN dst[b] ELSE 0
      totals == [b \in {Floor(t, span) : t \in recent} |->
                   Old(b) + SumFunctionOnSet(src, {t \in recent : Floor(t, span) = b})]
  IN Replace(dst, totals)

MutantRollupOne(src, dst, span, since) ==
  LET recent == {t \in DOMAIN src : t >= since + span}
      totals == [b \in {Floor(t, span) : t \in recent} |->
                   SumFunctionOnSet(src, {t \in recent : Floor(t, span) = b})]
  IN Replace(dst, totals)

\* _rollup_into: the source rows from since on, summed per bucket; each
\* bucket they fall into is replaced.
RollupInto(src, dst, span, since) ==
  LET recent == {t \in DOMAIN src : t >= since}
      totals == [b \in {Floor(t, span) : t \in recent} |->
                   SumFunctionOnSet(src, {t \in recent : Floor(t, span) = b})]
  IN Replace(dst, totals)

\* rollup commits the two tiers one after the other.
RollupHour ==
  /\ at = "hour"
  /\ at' = "day"
  /\ hour' = RollupInto(raw, hour, Hour, ts - 2 * Hour)
  /\ UNCHANGED <<world, tick, raw, day, written, faults>>

RollupDay ==
  /\ at = "day"
  /\ at' = "prune"
  /\ day' = RollupInto(hour, day, Day, ts - 2 * Day)
  /\ UNCHANGED <<world, tick, raw, hour, written, faults>>

From(tier, cutoff) == Restrict(tier, {t \in DOMAIN tier : t >= cutoff})

\* prune: one commit for the three tiers.
Prune ==
  /\ at = "prune"
  /\ at' = "idle"
  /\ raw' = From(raw, ts - RawHours * Hour)
  /\ hour' = From(hour, ts - HourlyDays * Day)
  /\ day' = From(day, ts - DailyDays * Day)
  /\ UNCHANGED <<world, tick, written, faults>>

\* A statement raises; run() swallows it, and the rest of the tick is lost.
TickError ==
  /\ at # "idle" /\ faults < MaxFaults
  /\ at' = "idle"
  /\ faults' = faults + 1
  /\ UNCHANGED <<world, tick, tiers>>

\* The sampler's process dies and starts with no baseline.
Crash ==
  /\ faults < MaxFaults
  /\ at' = "idle"
  /\ lastRx' = [c \in Containers |-> Unknown]
  /\ faults' = faults + 1
  /\ UNCHANGED <<world, ts, row, credited, tiers>>

Next ==
  \/ \E c \in Containers : Receive(c) \/ Stop(c) \/ StartAgain(c)
  \/ \E seen \in SUBSET running : Read(seen)
  \/ WriteSample \/ RollupHour \/ RollupDay \/ Prune
  \/ TickError \/ Crash
  \/ Tick

Spec == Init /\ [][Next]_vars
-----------------------------------------------------------------------------
(* Properties.                                                             *)

\* Every variable has its type.
TypeOK ==
  /\ clock \in 0..MaxClock
  /\ running \subseteq Containers
  /\ counter \in [Containers -> Nat]
  /\ at \in {"idle", "write", "hour", "day", "prune"}
  /\ ts \in {Unknown} \cup 0..MaxClock
  /\ row \in Nat
  /\ lastRx \in [Containers -> {Unknown} \cup Nat]
  /\ moved \in [Containers -> Nat]
  /\ credited \in [Containers -> Nat]
  /\ faults \in 0..MaxFaults

\* However containers and sampler restart, no byte is reported twice: the
\* rows never credit a container with more than it received (Sampler._delta
\* and the counters tick() forgets).
NeverOvercounts == \A c \in Containers : credited[c] <= moved[c]

\* The bytes of the raw rows ever written into the bucket of b.
Written(b, span) ==
  SumFunctionOnSet(written, {t \in DOMAIN written : Floor(t, span) = b})

\* Rolling up again and again counts no row twice, in neither tier, whatever
\* tick was interrupted where ("idempotent thanks to INSERT OR REPLACE").
RollupCountsOnce ==
  /\ \A b \in DOMAIN hour : hour[b] <= Written(b, Hour)
  /\ \A b \in DOMAIN day : day[b] <= Written(b, Day)

\* After a rollup the current bucket and the one just sealed hold all their
\* raw rows, those of interrupted ticks included.
RecentHoursExact ==
  (at \in {"day", "prune"} /\ RawHours >= 2) =>
    \A b \in DOMAIN hour :
      b >= Floor(ts, Hour) - Hour => hour[b] = Written(b, Hour)

\* What history.py says of the tiers: an hour's row holds the bytes moved
\* within that hour, so summing rows gives the total bandwidth.
SealedHoursExact ==
  (at \in {"day", "prune"} /\ RawHours >= 2) =>
    \A b \in DOMAIN hour : hour[b] = Written(b, Hour)
=============================================================================
