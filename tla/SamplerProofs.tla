---------------------------- MODULE SamplerProofs ----------------------------
(***************************************************************************)
(* Theorems about Sampler.tla, for every number of containers, every       *)
(* pattern of restarts and any retention.                                  *)
(***************************************************************************)
EXTENDS Sampler, Sums

CountersTyped ==
  /\ running \subseteq Containers
  /\ counter \in [Containers -> Nat]
  /\ lastRx \in [Containers -> {Unknown} \cup Nat]
  /\ moved \in [Containers -> Nat]
  /\ credited \in [Containers -> Nat]

(***************************************************************************)
(* What the next read would credit is already part of what the container   *)
(* has received and was not credited with: this is what the baseline, and  *)
(* forgetting it, are for.                                                 *)
(***************************************************************************)
RoomForDelta ==
  \A c \in Containers : credited[c] + Delta(counter[c], lastRx[c]) <= moved[c]

Credits == CountersTyped /\ RoomForDelta

LEMMA DeltaNat ==
  ASSUME NEW cur \in Nat, NEW last \in {Unknown} \cup Nat
  PROVE  Delta(cur, last) \in Nat
  BY DEF Delta

\* One more byte is at most one more byte to credit.
LEMMA DeltaGrows ==
  ASSUME NEW cur \in Nat, NEW last \in {Unknown} \cup Nat
  PROVE  Delta(cur + 1, last) <= Delta(cur, last) + 1
  BY DEF Delta, Unknown

\* A counter that starts again, and one just read, leave nothing to credit.
LEMMA DeltaZero ==
  ASSUME NEW cur \in Nat, NEW last \in {Unknown} \cup Nat
  PROVE  Delta(0, last) = 0 /\ Delta(cur, cur) = 0 /\ Delta(cur, Unknown) = 0
  BY DEF Delta, Unknown

LEMMA CreditsInit == Init => Credits
  BY DeltaZero DEF Init, Credits, CountersTyped, RoomForDelta

LEMMA CreditsNext == Credits /\ [Next]_vars => Credits'
<1> SUFFICES ASSUME Credits, [Next]_vars PROVE Credits'
  OBVIOUS
<1> USE DEF Credits, CountersTyped, world, tick, tiers
<1>1. ASSUME NEW c \in Containers, Receive(c) PROVE Credits'
<2>1. CountersTyped'
  BY <1>1 DEF Receive
<2>2. ASSUME NEW d \in Containers
      PROVE  (credited[d] + Delta(counter[d], lastRx[d]) <= moved[d])'
  <3>1. CASE d = c
    <4>1. counter'[c] = counter[c] + 1 /\ moved'[c] = moved[c] + 1
      BY <1>1 DEF Receive
    <4>2. Delta(counter[c] + 1, lastRx[c]) <= Delta(counter[c], lastRx[c]) + 1
      BY DeltaGrows
    <4>3. Delta(counter[c], lastRx[c]) \in Nat /\ Delta(counter[c] + 1, lastRx[c]) \in Nat
      BY DeltaNat
    <4> QED
      BY <1>1, <3>1, <4>1, <4>2, <4>3 DEF Receive, RoomForDelta
  <3>2. CASE d # c
    BY <1>1, <3>2 DEF Receive, RoomForDelta
  <3> QED
    BY <3>1, <3>2
<2> QED
  BY <2>1, <2>2 DEF RoomForDelta
<1>2. ASSUME NEW c \in Containers, Stop(c) PROVE Credits'
  BY <1>2 DEF Stop, RoomForDelta
<1>3. ASSUME NEW c \in Containers, StartAgain(c) PROVE Credits'
<2>1. CountersTyped'
  BY <1>3 DEF StartAgain
<2>2. RoomForDelta'
  BY <1>3, DeltaZero, DeltaNat DEF StartAgain, RoomForDelta
<2> QED
  BY <2>1, <2>2
<1>4. ASSUME NEW seen \in SUBSET running, Read(seen) PROVE Credits'
<2>1. \A c \in Containers : Delta(counter[c], lastRx[c]) \in Nat
  BY DeltaNat
<2>2. \A c \in Containers :
        credited'[c] = credited[c] + IF c \in seen THEN Delta(counter[c], lastRx[c]) ELSE 0
  BY <1>4 DEF Read
<2>3. CountersTyped'
  BY <1>4, <2>1 DEF Read
<2>4. \A c \in Containers : Delta(counter'[c], lastRx'[c]) = 0
  BY <1>4, DeltaZero DEF Read
<2>5. RoomForDelta'
  BY <1>4, <2>1, <2>2, <2>4 DEF Read, RoomForDelta
<2> QED
  BY <2>3, <2>5
<1>5. CASE WriteSample \/ RollupHour \/ RollupDay \/ Prune \/ TickError
  BY <1>5 DEF WriteSample, RollupHour, RollupDay, Prune, TickError, RoomForDelta
<1>6. CASE Crash
<2>1. CountersTyped'
  BY <1>6 DEF Crash
<2>2. \A c \in Containers : Delta(counter'[c], lastRx'[c]) = 0
  BY <1>6, DeltaZero DEF Crash
<2>3. RoomForDelta'
  BY <1>6, <2>2, DeltaNat DEF Crash, RoomForDelta
<2> QED
  BY <2>1, <2>3
<1>7. CASE Tick
  BY <1>7 DEF Tick, RoomForDelta
<1>8. CASE UNCHANGED vars
  BY <1>8 DEF vars, RoomForDelta
<1> QED
  BY <1>1, <1>2, <1>3, <1>4, <1>5, <1>6, <1>7, <1>8 DEF Next

\* No byte is reported twice, however containers and sampler restart and
\* whichever containers a tick sees.
THEOREM NoDoubleCounting == Spec => []NeverOvercounts
<1>1. Credits => NeverOvercounts
  BY DeltaNat DEF Credits, CountersTyped, RoomForDelta, NeverOvercounts
<1> QED
  BY <1>1, CreditsInit, CreditsNext, PTL DEF Spec
-----------------------------------------------------------------------------
(***************************************************************************)
(* The rollups.  A row that is rolled up twice stands in for itself; what  *)
(* keeps the two newest hours whole is that no row younger than two hours  *)
(* is pruned from the raw tier, whatever became of the tick that wrote it. *)
(***************************************************************************)
TickTyped ==
  /\ clock \in Nat
  /\ at \in {"idle", "write", "hour", "day", "prune"}
  /\ ts \in {Unknown} \cup Nat
  /\ ts <= clock
  /\ at # "idle" => ts \in Nat
  /\ row \in Nat

\* The rows of a tier lie in the past and hold bytes.
Rows(tier) == \A t \in DOMAIN tier : t \in Nat /\ t <= ts /\ tier[t] \in Nat

RawWritten == \A t \in DOMAIN raw : t \in DOMAIN written /\ raw[t] = written[t]

RawComplete ==
  RawHours >= 2 => \A t \in DOMAIN written : t >= ts - 2 * Hour => t \in DOMAIN raw

Rolls ==
  /\ TickTyped
  /\ Rows(written) /\ Rows(raw) /\ Rows(hour) /\ Rows(day)
  /\ at = "write" => ts \notin DOMAIN written
  /\ RawWritten /\ RawComplete
  /\ RollupCountsOnce
  /\ RecentHoursExact
-----------------------------------------------------------------------------
(* Buckets.                                                                *)

\* A bucket starts no later than what falls into it, and less than a span before.
LEMMA FloorBounds ==
  ASSUME NEW t \in Nat, NEW span \in Nat \ {0}
  PROVE  Floor(t, span) \in Nat /\ Floor(t, span) <= t /\ t < Floor(t, span) + span
<1> DEFINE q == t \div span
<1>1. q \in Nat /\ span * q <= t /\ t < span * q + span
  BY DivBounds
<1>2. Floor(t, span) = q * span
  BY DEF Floor
<1> HIDE DEF q
<1> QED
  BY <1>1, <1>2, ProductNat

\* The bucket of a day that an hour starts in is that of all its instants.
LEMMA FloorOfFloor ==
  ASSUME NEW t \in Nat, NEW small \in Nat \ {0}, NEW large \in Nat \ {0}, large % small = 0
  PROVE  Floor(Floor(t, small), large) = Floor(t, large)
<1> DEFINE q == t \div small
           d == t \div large
           m == large \div small
<1>1. q \in Nat /\ small * q <= t /\ t < small * q + small
  BY DivBounds
<1>2. d \in Nat /\ large * d <= t /\ t < large * d + large
  BY DivBounds
<1>3. m \in Nat /\ large = small * m
  OBVIOUS
<1>4. Floor(t, small) = small * q /\ small * q \in Nat
  BY <1>1, ProductNat DEF Floor
<1> HIDE DEF q, d, m
<1>5. m * d \in Nat /\ large * d = small * (m * d)
  BY <1>2, <1>3, ProductNat
<1>6. small * (q + 1) = small * q + small
  BY <1>1
<1>7. m * d <= q
  <2>1. CASE m * d >= q + 1
    <3>1. (q + 1) * small <= (m * d) * small
      BY <1>1, <1>5, <2>1, TimesKeeps
    <3> QED
      BY <1>1, <1>2, <1>5, <1>6, <3>1
  <2> QED
    BY <1>1, <1>5, <2>1
<1>8. large * d <= small * q
  BY <1>1, <1>5, <1>7, TimesKeeps
<1>9. d = (small * q) \div large
  BY <1>1, <1>2, <1>4, <1>8, DivUnique
<1> QED
  BY <1>4, <1>9 DEF Floor, d

Recent(src, since) == {t \in DOMAIN src : t >= since}
Buckets(src, span, since) == {Floor(t, span) : t \in Recent(src, since)}
Bucket(src, b, span, since) == {t \in Recent(src, since) : Floor(t, span) = b}

\* What _rollup_into makes of a tier: it replaces the buckets it touches and leaves the
\* others.
RolledUp(new, src, dst, span, since) ==
  /\ DOMAIN new = Buckets(src, span, since) \cup DOMAIN dst
  /\ \A b \in Buckets(src, span, since) :
       new[b] = SumFunctionOnSet(src, Bucket(src, b, span, since))
  /\ \A b \in DOMAIN dst \ Buckets(src, span, since) : new[b] = dst[b]

LEMMA RollupIs ==
  ASSUME NEW src, NEW dst, NEW span, NEW since
  PROVE  RolledUp(RollupInto(src, dst, span, since), src, dst, span, since)
<1> DEFINE recent == {t \in DOMAIN src : t >= since}
           totals == [b \in {Floor(t, span) : t \in recent} |->
                        SumFunctionOnSet(src, {t \in recent : Floor(t, span) = b})]
           new == RollupInto(src, dst, span, since)
<1>1. new = [b \in DOMAIN totals \cup DOMAIN dst |->
               IF b \in DOMAIN totals THEN totals[b] ELSE dst[b]]
  BY Zenon DEF RollupInto, Replace
<1>2. DOMAIN totals = Buckets(src, span, since)
  BY DEF Buckets, Recent
<1>3. \A b \in Buckets(src, span, since) :
        totals[b] = SumFunctionOnSet(src, Bucket(src, b, span, since))
  BY DEF Buckets, Bucket, Recent
<1> HIDE DEF totals, new
<1>4. /\ DOMAIN new = Buckets(src, span, since) \cup DOMAIN dst
      /\ \A b \in Buckets(src, span, since) : new[b] = totals[b]
      /\ \A b \in DOMAIN dst \ Buckets(src, span, since) : new[b] = dst[b]
  BY <1>1, <1>2
<1> QED
  BY <1>3, <1>4 DEF RolledUp, new

\* A tier has finitely many rows.
LEMMA RowsFinite ==
  ASSUME NEW tier, TickTyped, Rows(tier) PROVE IsFiniteSet(DOMAIN tier)
<1>1. IsFiniteSet(0..ts) /\ DOMAIN tier \subseteq 0..ts
  BY FS_Interval DEF TickTyped, Rows, Unknown
<1> QED
  BY <1>1, FS_Subset

\* The rows of a rolled up tier are rows again.
LEMMA RollupRows ==
  ASSUME NEW src, NEW dst, NEW span \in Nat \ {0}, NEW since,
         NEW new, RolledUp(new, src, dst, span, since),
         TickTyped, Rows(src), Rows(dst)
  PROVE  Rows(new)
<1> DEFINE B == Buckets(src, span, since)
<1>1. ASSUME NEW b \in B PROVE b \in Nat /\ b <= ts /\ new[b] \in Nat
  <2>1. PICK t \in DOMAIN src : b = Floor(t, span)
    BY <1>1 DEF Buckets, Recent
  <2>2. b \in Nat /\ b <= ts
    BY <2>1, FloorBounds DEF Rows, TickTyped, Unknown
  <2> DEFINE S == Bucket(src, b, span, since)
  <2>3. S \subseteq DOMAIN src
    BY DEF Bucket, Recent
  <2>4. new[b] = SumFunctionOnSet(src, S)
    BY <1>1 DEF RolledUp
  <2> HIDE DEF S, B
  <2>5. IsFiniteSet(S) /\ \A s \in S : src[s] \in Nat
    BY <2>3, RowsFinite, FS_Subset DEF Rows
  <2>6. SumFunctionOnSet(src, S) \in Nat
    BY <2>5, SumNat
  <2> QED
    BY <2>2, <2>4, <2>6
<1>2. /\ DOMAIN new = B \cup DOMAIN dst
      /\ \A b \in DOMAIN dst \ B : new[b] = dst[b]
  BY DEF RolledUp
<1> HIDE DEF B
<1>3. \A b \in DOMAIN dst \ B : b \in Nat /\ b <= ts /\ new[b] \in Nat
  BY <1>2 DEF Rows
<1>4. \A b \in DOMAIN new : b \in Nat /\ b <= ts /\ new[b] \in Nat
  BY <1>1, <1>2, <1>3
<1> QED
  BY <1>4 DEF Rows
-----------------------------------------------------------------------------
(* What was written.                                                       *)

Within(b, span) == {t \in DOMAIN written : Floor(t, span) = b}

LEMMA WrittenNat ==
  ASSUME TickTyped, Rows(written), NEW b, NEW span
  PROVE  /\ Written(b, span) \in Nat
         /\ IsFiniteSet(Within(b, span))
         /\ \A s \in Within(b, span) : written[s] \in Nat
         /\ \A A \in SUBSET Within(b, span) : SumFunctionOnSet(written, A) <= Written(b, span)
<1>1. IsFiniteSet(Within(b, span)) /\ \A s \in Within(b, span) : written[s] \in Nat
  BY RowsFinite, FS_Subset DEF Within, Rows
<1>2. Written(b, span) = SumFunctionOnSet(written, Within(b, span))
  BY DEF Written, Within
<1>3. /\ SumFunctionOnSet(written, Within(b, span)) \in Nat
      /\ \A A \in SUBSET Within(b, span) :
           SumFunctionOnSet(written, A) <= SumFunctionOnSet(written, Within(b, span))
  BY <1>1, SumNat
<1> QED
  BY <1>1, <1>2, <1>3

\* A row more is no byte less, in any bucket.
LEMMA WrittenGrows ==
  ASSUME Rolls, Rows(written)', WriteSample, NEW b, NEW span
  PROVE  Written(b, span) <= Written(b, span)' /\ Written(b, span)' \in Nat
<1>1. /\ DOMAIN written' = {ts} \cup DOMAIN written
      /\ \A t \in DOMAIN written : written'[t] = written[t]
  BY DEF WriteSample, Replace, Rolls
<1>2. Within(b, span) \subseteq Within(b, span)'
  BY <1>1 DEF Within
<1>3. SumFunctionOnSet(written, Within(b, span)) = SumFunctionOnSet(written', Within(b, span))
  <2>1. \A t \in Within(b, span) : written[t] = written'[t]
    BY <1>1 DEF Within
  <2> QED
    BY <2>1, WrittenNat, SumSame DEF Rolls
<1>4. /\ SumFunctionOnSet(written', Within(b, span)) <= SumFunctionOnSet(written', Within(b, span)')
      /\ SumFunctionOnSet(written', Within(b, span)') \in Nat
  <2>0. ts' = ts /\ ts \in Int
    BY DEF WriteSample, tick, Rolls, TickTyped, Unknown
  <2>1. IsFiniteSet(0..ts) /\ DOMAIN written' \subseteq 0..ts
    BY <2>0, FS_Interval DEF Rows
  <2>2. Within(b, span)' \subseteq DOMAIN written'
    BY DEF Within
  <2>3. IsFiniteSet(Within(b, span)')
    BY <2>1, <2>2, FS_Subset
  <2>4. \A t \in Within(b, span)' : written'[t] \in Nat
    BY <2>2 DEF Rows
  <2> QED
    BY <1>2, <2>3, <2>4, SumNat
<1> QED
  BY <1>3, <1>4 DEF Written, Within

\* The hours after a rollup: none holds more than was written, and the two newest hold all
\* of it.
LEMMA HourRolled ==
  ASSUME Rolls, RollupHour
  PROVE  /\ \A b \in DOMAIN hour' : hour'[b] <= Written(b, Hour)
         /\ RawHours >= 2 => \A b \in DOMAIN hour' :
                               b >= Floor(ts, Hour) - Hour => hour'[b] = Written(b, Hour)
<1> USE SamplerAssumption
<1> DEFINE since == ts - 2 * Hour
           B == Buckets(raw, Hour, since)
           Old(b) == Bucket(raw, b, Hour, since)
<1>0. ts \in Nat /\ since \in Int /\ Hour \in Nat \ {0}
  BY DEF RollupHour, Rolls, TickTyped
<1>1. RolledUp(hour', raw, hour, Hour, since)
  BY RollupIs DEF RollupHour
<1>2. ASSUME NEW b \in B
      PROVE  hour'[b] = SumFunctionOnSet(written, Old(b)) /\ Old(b) \in SUBSET Within(b, Hour)
  <2>1. hour'[b] = SumFunctionOnSet(raw, Old(b))
    BY <1>1 DEF RolledUp
  <2>2. Old(b) \in SUBSET Within(b, Hour) /\ \A t \in Old(b) : raw[t] = written[t]
    BY DEF Bucket, Recent, Within, Rolls, RawWritten
  <2>3. IsFiniteSet(Old(b))
    BY <2>2, WrittenNat, FS_Subset DEF Rolls
  <2> HIDE DEF Old
  <2>4. SumFunctionOnSet(raw, Old(b)) = SumFunctionOnSet(written, Old(b))
    BY <2>2, <2>3, SumSame
  <2> QED
    BY <2>1, <2>2, <2>4
<1>3. ASSUME NEW b \in DOMAIN hour', b \notin B
      PROVE  b \in DOMAIN hour /\ hour'[b] = hour[b]
  BY <1>1, <1>3 DEF RolledUp
<1>4. ASSUME NEW b \in DOMAIN hour' PROVE hour'[b] <= Written(b, Hour)
  <2>1. CASE b \in B
    BY <1>2, <2>1, WrittenNat DEF Rolls
  <2>2. CASE b \notin B
    BY <1>3, <2>2 DEF Rolls, RollupCountsOnce
  <2> QED
    BY <2>1, <2>2
<1>5. ASSUME RawHours >= 2, NEW b \in DOMAIN hour', b >= Floor(ts, Hour) - Hour
      PROVE  hour'[b] = Written(b, Hour)
  <2>1. Within(b, Hour) \subseteq Old(b)
    <3> SUFFICES ASSUME NEW t \in DOMAIN written, Floor(t, Hour) = b PROVE t \in Old(b)
      BY DEF Within
    <3>1. t \in Nat /\ b \in Nat /\ b <= t
      BY FloorBounds DEF Rolls, Rows
    <3>2. Floor(ts, Hour) \in Nat /\ ts < Floor(ts, Hour) + Hour
      BY <1>0, FloorBounds
    <3>3. t >= since
      BY <1>0, <1>5, <3>1, <3>2
    <3>4. t \in DOMAIN raw
      BY <1>5, <3>3 DEF Rolls, RawComplete
    <3> QED
      BY <3>3, <3>4 DEF Bucket, Recent
  <2>2. CASE b \in B
    <3>1. Old(b) = Within(b, Hour)
      BY <1>2, <2>1, <2>2
    <3> QED
      BY <1>2, <2>2, <3>1 DEF Written, Within
  <2>3. CASE b \notin B
    <3>1. Within(b, Hour) = {}
      BY <2>1, <2>3 DEF Buckets, Bucket
    <3>2. Written(b, Hour) = 0
      BY <3>1, SumEmpty DEF Written, Within
    <3>3. hour'[b] \in Nat /\ hour'[b] <= Written(b, Hour)
      BY <1>3, <1>4, <2>3 DEF Rolls, Rows
    <3> QED
      BY <3>2, <3>3
  <2> QED
    BY <2>2, <2>3
<1> QED
  BY <1>4, <1>5

\* Nor does a day.
LEMMA DayRolled ==
  ASSUME Rolls, RollupDay
  PROVE  \A b \in DOMAIN day' : day'[b] <= Written(b, Day)
<1> USE SamplerAssumption
<1> DEFINE since == ts - 2 * Day
           B == Buckets(hour, Day, since)
<1>1. RolledUp(day', hour, day, Day, since)
  BY RollupIs DEF RollupDay
<1>2. ASSUME NEW b \in B PROVE day'[b] <= Written(b, Day)
  <2> DEFINE H == Bucket(hour, b, Day, since)
             S == Within(b, Day)
             Part == [h \in H |-> Within(h, Hour)]
  <2>1. day'[b] = SumFunctionOnSet(hour, H)
    BY <1>1 DEF RolledUp
  <2>2. H \subseteq DOMAIN hour
    BY DEF Bucket, Recent
  <2>3. IsFiniteSet(H)
    BY <2>2, RowsFinite, FS_Subset DEF Rolls
  <2>4. IsFiniteSet(S) /\ \A s \in S : written[s] \in Nat
    BY WrittenNat DEF Rolls
  <2>5. ASSUME NEW h \in H PROVE Part[h] \in SUBSET S
    <3> SUFFICES ASSUME NEW t \in DOMAIN written, Floor(t, Hour) = h PROVE Floor(t, Day) = b
      BY DEF Within
    <3>1. Floor(h, Day) = b
      BY DEF Bucket
    <3>2. t \in Nat
      BY DEF Rolls, Rows
    <3> QED
      BY <3>1, <3>2, FloorOfFloor
  <2>6. ASSUME NEW h \in H
        PROVE  hour[h] \in Int /\ hour[h] <= SumFunctionOnSet(written, Part[h])
    BY <2>2 DEF Rolls, Rows, RollupCountsOnce, Written, Within
  <2>7. \A g, h \in H : g # h => Part[g] \cap Part[h] = {}
    BY DEF Within
  <2>8. SumFunctionOnSet(hour, H) <= SumFunctionOnSet(written, S)
    <3> HIDE DEF H, S, Part
    <3> QED
      BY <2>3, <2>4, <2>5, <2>6, <2>7, SumOfParts
  <2> QED
    BY <2>1, <2>8 DEF Written, Within
<1>3. ASSUME NEW b \in DOMAIN day', b \notin B PROVE day'[b] <= Written(b, Day)
  BY <1>1, <1>3 DEF RolledUp, Rolls, RollupCountsOnce
<1> QED
  BY <1>2, <1>3
-----------------------------------------------------------------------------
LEMMA RollsInit == Init => Rolls
<1> SUFFICES ASSUME Init PROVE Rolls
  OBVIOUS
<1>1. DOMAIN raw = {} /\ DOMAIN hour = {} /\ DOMAIN day = {} /\ DOMAIN written = {}
  BY DEF Init
<1>2. TickTyped /\ at = "idle"
  BY DEF Init, TickTyped, Unknown
<1> QED
  BY <1>1, <1>2 DEF Rolls, Rows, RawWritten, RawComplete, RollupCountsOnce, RecentHoursExact

LEMMA RollsRead ==
  ASSUME Rolls, Credits, NEW seen \in SUBSET running, Read(seen) PROVE Rolls'
<1> DEFINE delta == [c \in seen |-> Delta(counter[c], lastRx[c])]
<1>1. row' \in Nat
  <2>1. IsFiniteSet(seen)
    BY SamplerAssumption, FS_Subset DEF Credits, CountersTyped
  <2>2. \A c \in seen : delta[c] \in Nat
    BY DeltaNat DEF Credits, CountersTyped
  <2>3. row' = SumFunctionOnSet(delta, seen)
    BY DEF Read, SumFunction
  <2> HIDE DEF delta
  <2> QED
    BY <2>1, <2>2, <2>3, SumNat
<1>2. /\ ts' = clock /\ ts < clock /\ clock' = clock /\ at' = "write"
      /\ UNCHANGED <<raw, hour, day, written>>
  BY DEF Read, world, tiers
<1>3. ts \in Int /\ clock \in Nat
  BY DEF Rolls, TickTyped, Unknown
<1>4. TickTyped'
  BY <1>1, <1>2, <1>3 DEF TickTyped
<1>5. (Rows(written) /\ Rows(raw) /\ Rows(hour) /\ Rows(day))'
  BY <1>2, <1>3 DEF Rolls, Rows
<1>6. ts' \notin DOMAIN written'
  BY <1>2, <1>3 DEF Rolls, Rows
<1>7. RawWritten' /\ RollupCountsOnce'
  BY <1>2 DEF Rolls, RawWritten, RollupCountsOnce, Written
<1>8. RawComplete'
  BY <1>2, <1>3, SamplerAssumption DEF Rolls, RawComplete, Rows
<1>9. RecentHoursExact'
  BY <1>2 DEF RecentHoursExact
<1> QED
  BY <1>4, <1>5, <1>6, <1>7, <1>8, <1>9 DEF Rolls

LEMMA RollsWrite == ASSUME Rolls, WriteSample PROVE Rolls'
<1>1. /\ at = "write" /\ at' = "hour" /\ UNCHANGED <<clock, ts, row, hour, day>>
      /\ ts \in Nat /\ row \in Nat /\ ts \notin DOMAIN written
  BY DEF WriteSample, world, tick, Rolls, TickTyped
<1>2. /\ DOMAIN written' = {ts} \cup DOMAIN written
      /\ written'[ts] = row /\ \A t \in DOMAIN written : written'[t] = written[t]
  BY <1>1 DEF WriteSample, Replace
<1>3. /\ DOMAIN raw' = {ts} \cup DOMAIN raw
      /\ raw'[ts] = row /\ \A t \in DOMAIN raw \ {ts} : raw'[t] = raw[t]
  BY <1>1 DEF WriteSample, Replace
<1>4. TickTyped'
  BY <1>1 DEF Rolls, TickTyped
<1>5. (Rows(written) /\ Rows(hour) /\ Rows(day))'
  BY <1>1, <1>2 DEF Rolls, Rows
<1>6. Rows(raw)'
  BY <1>1, <1>3 DEF Rolls, Rows
<1>7. RawWritten'
  BY <1>1, <1>2, <1>3 DEF Rolls, RawWritten
<1>8. RawComplete'
  BY <1>1, <1>2, <1>3 DEF Rolls, RawComplete
<1>9. RollupCountsOnce'
  <2>1. ASSUME NEW b \in DOMAIN hour PROVE hour[b] <= Written(b, Hour)'
    <3>1. hour[b] \in Nat /\ hour[b] <= Written(b, Hour) /\ Written(b, Hour) \in Nat
      BY WrittenNat DEF Rolls, Rows, RollupCountsOnce
    <3>2. Written(b, Hour) <= Written(b, Hour)' /\ Written(b, Hour)' \in Nat
      BY <1>5, WrittenGrows
    <3> QED
      BY <3>1, <3>2
  <2>2. ASSUME NEW b \in DOMAIN day PROVE day[b] <= Written(b, Day)'
    <3>1. day[b] \in Nat /\ day[b] <= Written(b, Day) /\ Written(b, Day) \in Nat
      BY WrittenNat DEF Rolls, Rows, RollupCountsOnce
    <3>2. Written(b, Day) <= Written(b, Day)' /\ Written(b, Day)' \in Nat
      BY <1>5, WrittenGrows
    <3> QED
      BY <3>1, <3>2
  <2> QED
    BY <1>1, <2>1, <2>2 DEF RollupCountsOnce
<1>10. RecentHoursExact'
  BY <1>1 DEF RecentHoursExact
<1> QED
  BY <1>1, <1>4, <1>5, <1>6, <1>7, <1>8, <1>9, <1>10 DEF Rolls

LEMMA RollsHour == ASSUME Rolls, RollupHour PROVE Rolls'
<1>1. /\ at' = "day" /\ ts \in Nat
      /\ UNCHANGED <<clock, ts, row, raw, day, written>>
  BY DEF RollupHour, world, tick, Rolls, TickTyped
<1>2. RolledUp(hour', raw, hour, Hour, ts - 2 * Hour)
  BY RollupIs DEF RollupHour
<1>3. Rows(hour')
  <2>1. Hour \in Nat \ {0} /\ TickTyped /\ Rows(raw) /\ Rows(hour)
    BY SamplerAssumption DEF Rolls
  <2> QED
    BY <1>2, <2>1, RollupRows
<1>4. Rows(hour)'
  BY <1>1, <1>3 DEF Rows
<1>5. RollupCountsOnce' /\ RecentHoursExact'
  BY <1>1, HourRolled DEF Rolls, RollupCountsOnce, RecentHoursExact, Written
<1> QED
  BY <1>1, <1>4, <1>5 DEF Rolls, TickTyped, Rows, RawWritten, RawComplete

LEMMA RollsDay == ASSUME Rolls, RollupDay PROVE Rolls'
<1>1. /\ at = "day" /\ at' = "prune" /\ ts \in Nat
      /\ UNCHANGED <<clock, ts, row, raw, hour, written>>
  BY DEF RollupDay, world, tick, Rolls, TickTyped
<1>2. RolledUp(day', hour, day, Day, ts - 2 * Day)
  BY RollupIs DEF RollupDay
<1>3. Rows(day')
  <2>1. Day \in Nat \ {0} /\ TickTyped /\ Rows(hour) /\ Rows(day)
    BY SamplerAssumption DEF Rolls
  <2> QED
    BY <1>2, <2>1, RollupRows
<1>4. Rows(day)'
  BY <1>1, <1>3 DEF Rows
<1>5. RollupCountsOnce' /\ RecentHoursExact'
  BY <1>1, DayRolled DEF Rolls, RollupCountsOnce, RecentHoursExact, Written
<1> QED
  BY <1>1, <1>4, <1>5 DEF Rolls, TickTyped, Rows, RawWritten, RawComplete

\* What is pruned from the raw tier is older than two hours, if it keeps that many.
LEMMA RollsPrune == ASSUME Rolls, Prune PROVE Rolls'
<1>1. /\ at' = "idle" /\ ts \in Nat
      /\ UNCHANGED <<clock, ts, row, written>>
  BY DEF Prune, world, tick, Rolls, TickTyped
<1>2. \A tier, cutoff : /\ DOMAIN From(tier, cutoff) = {t \in DOMAIN tier : t >= cutoff}
                        /\ \A t \in DOMAIN From(tier, cutoff) :
                             From(tier, cutoff)[t] = tier[t]
  BY DEF From, Restrict
<1>3. /\ DOMAIN raw' = {t \in DOMAIN raw : t >= ts - RawHours * Hour}
      /\ \A t \in DOMAIN raw' : raw'[t] = raw[t]
      /\ DOMAIN hour' \subseteq DOMAIN hour /\ \A b \in DOMAIN hour' : hour'[b] = hour[b]
      /\ DOMAIN day' \subseteq DOMAIN day /\ \A b \in DOMAIN day' : day'[b] = day[b]
  BY <1>2 DEF Prune
<1>4. RawComplete'
  <2> SUFFICES ASSUME RawHours >= 2, NEW t \in DOMAIN written, t >= ts - 2 * Hour
               PROVE  t \in DOMAIN raw'
    BY <1>1 DEF RawComplete
  <2>1. 2 * Hour <= RawHours * Hour /\ RawHours * Hour \in Nat /\ Hour \in Nat
    BY SamplerAssumption, TimesKeeps, ProductNat
  <2>2. t \in Nat /\ t \in DOMAIN raw
    BY DEF Rolls, Rows, RawComplete
  <2> QED
    BY <1>1, <1>3, <2>1, <2>2
<1>5. (Rows(written) /\ Rows(raw) /\ Rows(hour) /\ Rows(day))'
  BY <1>1, <1>3 DEF Rolls, Rows
<1>6. RawWritten' /\ RollupCountsOnce' /\ RecentHoursExact'
  BY <1>1, <1>3 DEF Rolls, RawWritten, RollupCountsOnce, RecentHoursExact, Written
<1> QED
  BY <1>1, <1>4, <1>5, <1>6 DEF Rolls, TickTyped

\* A step that leaves the tiers and the tick under way alone.
LEMMA RollsQuiet ==
  ASSUME Rolls, UNCHANGED <<ts, row, tiers>>, at' \in {at, "idle"}, clock' \in Nat,
         clock <= clock'
  PROVE  Rolls'
<1>1. UNCHANGED <<ts, row, raw, hour, day, written>>
  BY DEF tiers
<1>2. TickTyped'
  BY <1>1 DEF Rolls, TickTyped, Unknown
<1> QED
  BY <1>1, <1>2 DEF Rolls, Rows, RawWritten, RawComplete, RollupCountsOnce, RecentHoursExact,
     Written

LEMMA RollsNext == Rolls /\ Credits /\ [Next]_vars => Rolls'
<1> SUFFICES ASSUME Rolls, Credits, [Next]_vars PROVE Rolls'
  OBVIOUS
<1>0. clock \in Nat
  BY DEF Rolls, TickTyped
<1>1. ASSUME NEW c \in Containers, Receive(c) \/ Stop(c) \/ StartAgain(c) PROVE Rolls'
  <2>1. UNCHANGED <<ts, row, tiers>> /\ at' = at /\ clock' = clock
    BY <1>1 DEF Receive, Stop, StartAgain, tick
  <2> QED
    BY <1>0, <2>1, RollsQuiet
<1>2. ASSUME NEW seen \in SUBSET running, Read(seen) PROVE Rolls'
  BY <1>2, RollsRead
<1>3. CASE TickError \/ Crash \/ UNCHANGED vars
  <2>1. UNCHANGED <<ts, row, tiers>> /\ at' \in {at, "idle"} /\ clock' = clock
    BY <1>3 DEF TickError, Crash, vars, world, tick
  <2> QED
    BY <1>0, <2>1, RollsQuiet
<1>4. CASE Tick
  <2>1. UNCHANGED <<ts, row, tiers>> /\ at' = at /\ clock' = clock + 1
    BY <1>4 DEF Tick, tick
  <2> QED
    BY <1>0, <2>1, RollsQuiet
<1> QED
  BY <1>1, <1>2, <1>3, <1>4, RollsWrite, RollsHour, RollsDay, RollsPrune DEF Next

\* Rolling up again and again counts no row twice, in neither tier, whatever tick was
\* interrupted where.
THEOREM NoRowCountedTwice == Spec => []RollupCountsOnce
<1>1. Rolls => RollupCountsOnce
  BY DEF Rolls
<1> QED
  BY <1>1, RollsInit, RollsNext, CreditsInit, CreditsNext, PTL DEF Spec

\* After a rollup the current hour and the one before hold all that was written for them,
\* as long as the raw tier is kept for two hours.
THEOREM NewestHoursExact == Spec => []RecentHoursExact
<1>1. Rolls => RecentHoursExact
  BY DEF Rolls
<1> QED
  BY <1>1, RollsInit, RollsNext, CreditsInit, CreditsNext, PTL DEF Spec
=============================================================================
