------------------------ MODULE BatteryEfficiencyProofs ------------------------
(***************************************************************************)
(* Theorems about BatteryEfficiency, for any recordings of the state of    *)
(* charge, any excluded hours, hour width and retention, any number of     *)
(* imports, purges and hours: what the persisted history holds is true,    *)
(* however it was put together, and what is calculated from it is true of  *)
(* the battery.                                                            *)
(***************************************************************************)
EXTENDS BatteryEfficiency, HistorySeriesProofs

-----------------------------------------------------------------------------
(* Hours. *)

\* The hour that a time closes or lies in.
LEMMA HourIndexIs ==
  ASSUME NEW t \in Int, NEW h \in Int
  PROVE  /\ t <= (h + 1) * Width => HourIndex(t) <= h
         /\ h * Width < t => h <= HourIndex(t)
         /\ HourIndex(t) \in Int
<1> DEFINE m == -t
           q == m \div Width
<1>1. Width \in Nat \ {0}
  BY WidthAssumption
<1>2. m \in Int /\ q \in Int /\ q * Width <= m /\ m < q * Width + Width
  BY <1>1, HourDivision
<1>3. HourIndex(t) = -q - 1
  BY DEF HourIndex, q, m
<1>4. ASSUME t <= (h + 1) * Width
      PROVE  HourIndex(t) <= h
  <2>1. -((h + 1) * Width) = (-(h + 1)) * Width
    BY <1>1
  <2>2. (h + 1) * Width \in Int
    BY <1>1, HourTimes
  <2>3. -((h + 1) * Width) <= m
    BY <1>4, <2>2
  <2>4. (q + 1) * Width = q * Width + Width /\ q * Width \in Int
    BY <1>1, <1>2, HourTimes
  <2> HIDE DEF q, m
  <2>5. (-(h + 1)) * Width < (q + 1) * Width
    BY <1>1, <1>2, <2>1, <2>2, <2>3, <2>4
  <2>6. -(h + 1) < q + 1
    <3>1. -(h + 1) \in Int /\ q + 1 \in Int
      BY <1>2
    <3>2. QED
      BY <1>1, <2>5, <3>1, HourTimes
  <2>7. QED
    BY <1>2, <1>3, <2>6
<1>5. ASSUME h * Width < t
      PROVE  h <= HourIndex(t)
  <2>1. -(h * Width) = (-h) * Width
    BY <1>1
  <2>2. h * Width \in Int /\ q * Width \in Int
    BY <1>1, <1>2, HourTimes
  <2>3. m < -(h * Width)
    BY <1>5, <2>2
  <2> HIDE DEF q, m
  <2>4. q * Width < (-h) * Width
    BY <1>2, <2>1, <2>2, <2>3
  <2>5. q < -h
    <3>1. -h \in Int
      OBVIOUS
    <3>2. QED
      BY <1>1, <1>2, <2>4, <3>1, HourTimes
  <2>6. QED
    BY <1>2, <1>3, <2>5
<1> HIDE DEF q, m
<1>6. QED
  BY <1>2, <1>3, <1>4, <1>5

\* The next full hour of a time is not before it.
LEMMA FullHourIs ==
  ASSUME NEW t \in Int
  PROVE  FullHour(t) \in Int /\ t <= FullHour(t) * Width
<1> DEFINE m == -t
           q == m \div Width
<1>1. Width \in Nat \ {0}
  BY WidthAssumption
<1>2. m \in Int /\ q \in Int /\ q * Width <= m
  BY <1>1, HourDivision
<1>3. FullHour(t) = -q
  BY DEF FullHour, q, m
<1> HIDE DEF q
<1>4. (-q) * Width = -(q * Width) /\ q * Width \in Int
  BY <1>1, <1>2
<1>5. -m = t
  OBVIOUS
<1> HIDE DEF m
<1>6. t <= -(q * Width)
  BY <1>2, <1>4, <1>5
<1>7. QED
  BY <1>2, <1>3, <1>4, <1>6

-----------------------------------------------------------------------------
(* What an import measures. *)

\* Between the boundaries it knows, the series of an import has the charge at each
\* boundary where it was usable, and excludes every hour in which it was not.
SocOk(soc, start, to) ==
  /\ DOMAIN soc.values = start..to
  /\ \A b \in start..to : Usable(b * Width) => soc.values[b] = Charge(b * Width)
  /\ \A h \in start..to - 1 : h \notin soc.excluded =>
       \A t \in h * Width..(h + 1) * Width : Usable(t)

\* _state_of_charge_series.
LEMMA SocSeriesIs ==
  ASSUME battery \in Batteries, kept \in Int, NEW from \in Int, NEW to \in Int, from < to,
         ~Failed(SocSeries(from, to))
  PROVE  \E start \in Int : start < to /\ SocOk(SocSeries(from, to), start, to)
<1> DEFINE held == [t \in DOMAIN battery |-> IF t < kept * Width THEN Silent ELSE battery[t]]
           low == from * Width
           high == to * Width
           samples == WholeWindow(held, low, high)
           start == FullHour(samples[1].at)
           At(b) == SampleAt(samples, b * Width).report
           Gap(i, h) ==
             /\ ~samples[i].report.usable
             /\ h \in Overlapping(start..to - 1, samples[i].at, InForceUntil(samples, i, high))
           Invalid(h) == \E i \in DOMAIN samples : Gap(i, h)
           values == [b \in start..to |-> IF At(b).usable THEN At(b).value ELSE None]
           excluded == {h \in start..to - 1 : Invalid(h)}
           soc == SocSeries(from, to)
<1>1. Width \in Nat \ {0}
  BY WidthAssumption
<1>2. low \in Int /\ high \in Int /\ low < high
  BY <1>1, HourTimes
<1>3. /\ IsRecording(held)
      /\ \A t \in Int : InForce(held, t) # Silent => InForce(held, t) = InForce(battery, t)
  <2>1. IsRecording(battery)
    BY BatteryAssumption DEF IsRecording
  <2>2. kept * Width \in Int
    BY <1>1, HourTimes
  <2> DEFINE first == kept * Width
  <2> HIDE DEF first
  <2>3. first \in Int
    BY <2>2 DEF first
  <2> DEFINE cut == [t \in DOMAIN battery |-> IF t < first THEN Silent ELSE battery[t]]
  <2>4. /\ IsRecording(cut)
        /\ \A t \in Int : InForce(cut, t) # Silent => InForce(cut, t) = InForce(battery, t)
    BY <2>1, <2>3, PurgedIs
  <2>5. cut = held
    BY DEF first
  <2>6. QED
    BY <2>4, <2>5
<1> HIDE DEF held
<1>4. \A why : Failed(Error(why))
  BY DEF Failed, Error
<1>5. samples # <<>> /\ ~(start >= to) /\ soc = [values |-> values, excluded |-> excluded]
  <2>1. soc = IF samples = <<>> THEN Error("no history")
              ELSE IF start >= to THEN Error("no complete hour")
              ELSE [values |-> Tabulated(values), excluded |-> excluded]
    BY DEF SocSeries, held, WholeWindow
  <2>2. Tabulated(values) = values
    BY TabulatedIs
  <2> HIDE DEF soc, samples, values, excluded, start
  <2>3. ~Failed(soc)
    BY DEF soc
  <2>4. QED
    BY <1>4, <2>1, <2>2, <2>3
<1>6. /\ samples \in Seq(Told(held))
      /\ \A i \in DOMAIN samples : low <= samples[i].at /\ samples[i].at <= high
      /\ \A i, j \in DOMAIN samples : i < j => samples[i].at < samples[j].at
  BY <1>2, <1>3, WholeWindowIs
<1> DEFINE n == Len(samples)
<1>7. ASSUME NEW t \in low..high, \E i \in DOMAIN samples : samples[i].at <= t
      PROVE  \E k \in DOMAIN samples :
               /\ samples[k].at <= t
               /\ \A l \in DOMAIN samples : samples[l].at <= t => l <= k
               /\ SampleAt(samples, t) = samples[k]
               /\ samples[k].report = InForce(battery, t)
               /\ InForce(battery, t) # Silent
  <2> HIDE DEF low, high
  <2>1. t \in Int
    BY <1>2
  <2>2. PICK k \in DOMAIN samples :
           /\ samples[k].at <= t
           /\ \A l \in DOMAIN samples : samples[l].at <= t => l <= k
           /\ SampleAt(samples, t) = samples[k]
           /\ samples[k].report = InForce(held, t)
           /\ samples[k].report # Silent
    <3>1. IsRecording(held)
      BY <1>3
    <3>2. \E i \in DOMAIN samples : samples[i].at <= t
      BY <1>7
    <3> HIDE DEF held
    <3>3. QED
      BY <1>2, <3>1, <3>2, SampleOfWhole
  <2> HIDE DEF samples
  <2>3. samples[k].report = InForce(battery, t)
    BY <1>3, <2>1, <2>2
  <2>4. QED
    BY <2>2, <2>3
<1> HIDE DEF samples
<1>8. n \in Nat /\ DOMAIN samples = 1..n /\ 1 \in DOMAIN samples
  BY <1>5, <1>6, EmptySeq
<1>9. \A i \in DOMAIN samples : samples[i].at \in Int
  BY <1>6, <1>8, ToldIs
<1> DEFINE first == samples[1].at
<1>10. start \in Int /\ start < to /\ first <= start * Width
  <2>1. first \in Int
    BY <1>8, <1>9
  <2>2. start \in Int /\ first <= start * Width
    BY <2>1, FullHourIs
  <2> HIDE DEF start
  <2>3. QED
    BY <1>5, <2>2
<1> HIDE DEF start
\* Every time in a covered hour has a sample, and one of the period.
<1>11. ASSUME NEW t \in Int, start * Width <= t, t <= high
       PROVE  t \in low..high /\ \E i \in DOMAIN samples : samples[i].at <= t
  <2>1. first \in Int /\ low <= first
    BY <1>6, <1>8, <1>9
  <2>2. start * Width \in Int
    BY <1>1, <1>10, HourTimes
  <2>3. first <= t
    BY <1>10, <1>11, <2>1, <2>2
  <2> HIDE DEF low, high
  <2>4. t \in low..high
    BY <1>2, <1>11, <2>1, <2>3
  <2>5. QED
    BY <1>8, <2>3, <2>4
<1>12. ASSUME NEW b \in start..to, Usable(b * Width)
       PROVE  values[b] = Charge(b * Width)
  <2> DEFINE t == b * Width
  <2>1. b \in Int /\ start <= b /\ b <= to
    BY <1>10
  <2>2. t \in Int /\ start * Width <= t /\ t <= high
    BY <1>1, <1>10, <2>1, HourTimes
  <2>3. At(b) = InForce(battery, t)
    <3> HIDE DEF t
    <3>1. SampleAt(samples, t).report = InForce(battery, t)
      BY <1>7, <1>11, <2>2
    <3>2. QED
      BY <3>1 DEF t
  <2> HIDE DEF At
  <2>4. QED
    BY <1>12, <2>3 DEF Usable, Charge
<1>13. ASSUME NEW h \in start..to - 1, h \notin excluded,
              NEW t \in h * Width..(h + 1) * Width
       PROVE  Usable(t)
  <2>1. h \in Int /\ start <= h /\ h + 1 \in Int /\ h + 1 <= to
    BY <1>10
  <2>2. /\ h * Width \in Int /\ (h + 1) * Width \in Int /\ h * Width < (h + 1) * Width
        /\ start * Width \in Int /\ start * Width <= h * Width /\ (h + 1) * Width <= high
    <3>1. h < h + 1
      BY <2>1
    <3>2. QED
      BY <1>1, <1>10, <2>1, <3>1, HourTimes
  <2>3. /\ t \in Int /\ start * Width <= t /\ t <= high
        /\ h * Width <= t /\ t <= (h + 1) * Width
    <3> DEFINE l == h * Width
               u == (h + 1) * Width
               s == start * Width
    <3>1. l \in Int /\ u \in Int /\ s \in Int /\ s <= l /\ u <= high /\ t \in l..u
      BY <2>2
    <3> HIDE DEF l, u, s, high
    <3>2. t \in Int /\ s <= t /\ t <= high /\ l <= t /\ t <= u
      BY <1>2, <3>1
    <3>3. QED
      BY <3>2 DEF l, u, s
  <2>4. PICK k \in DOMAIN samples :
           /\ samples[k].at <= t
           /\ \A l \in DOMAIN samples : samples[l].at <= t => l <= k
           /\ samples[k].report = InForce(battery, t)
           /\ InForce(battery, t) # Silent
    BY <1>7, <1>11, <2>3
  <2>5. k \in 1..n
    BY <1>8
  <2> SUFFICES ASSUME ~samples[k].report.usable
               PROVE  FALSE
    BY <2>4 DEF Usable
  <2> DEFINE U == {j \in DOMAIN samples : j > k /\ samples[j].report.usable}
             ends == {samples[j].at : j \in U}
             until == InForceUntil(samples, k, high)
  <2>6. until = Min(ends \cup {high})
    BY DEF InForceUntil
  <2>7. \A j \in U : samples[j].at \in Int /\ t < samples[j].at
    <3>1. TAKE j \in U
    <3>2. j \in Int /\ j > k /\ j \in DOMAIN samples /\ k \in Int
      BY <1>8, <2>5
    <3>3. ~(samples[j].at <= t)
      BY <2>4, <3>2
    <3>4. samples[j].at \in Int
      BY <1>9, <3>2
    <3>5. QED
      BY <2>3, <3>3, <3>4
  <2>8. IsFiniteSet(ends)
    <3>1. IsFiniteSet(U)
      <4>1. U \in SUBSET (1..n)
        BY <1>8
      <4>2. QED
        BY <1>8, <4>1, PlacesFinite
    <3> DEFINE f == [j \in U |-> samples[j].at]
    <3>2. f \in Surjection(U, ends)
      BY DEF Surjection
    <3>3. QED
      BY <3>1, <3>2, FS_Surjection
  <2>9. until \in Int /\ h * Width < until
    <3> DEFINE E == ends \cup {high}
    <3>1. E \in SUBSET Int /\ E # {}
      BY <1>2, <2>7
    <3>2. IsFiniteSet(E)
      BY <2>8, FS_AddElement
    <3>3. Min(E) \in E
      BY <3>1, <3>2, MinIs
    <3>4. \A x \in E : h * Width < x
      <4>1. h * Width < high
        <5> DEFINE l == h * Width
                   u == (h + 1) * Width
        <5> HIDE DEF l, u, high
        <5>1. l \in Int /\ u \in Int /\ l < u /\ u <= high
          BY <2>2 DEF l, u
        <5>2. l < high
          BY <1>2, <5>1
        <5>3. QED
          BY <5>2 DEF l
      <4>2. ASSUME NEW j \in U
            PROVE  h * Width < samples[j].at
        <5> DEFINE l == h * Width
        <5> HIDE DEF l, U
        <5>1. l \in Int /\ l <= t
          BY <2>2, <2>3 DEF l
        <5>2. l < samples[j].at
          BY <2>3, <2>7, <5>1
        <5>3. QED
          BY <5>2 DEF l
      <4>3. QED
        BY <4>1, <4>2
    <3> HIDE DEF E
    <3>5. until \in E
      BY <2>6, <3>3 DEF E
    <3>6. QED
      BY <3>1, <3>4, <3>5
  <2> HIDE DEF U, ends, until
  <2>10. h <= HourIndex(until)
    BY <2>1, <2>9, HourIndexIs
  <2>11. HourIndex(samples[k].at) <= h
    <3> DEFINE v == samples[k].at
               u == (h + 1) * Width
    <3>1. v \in Int /\ v <= t /\ u \in Int /\ t <= u
      BY <1>9, <2>2, <2>3, <2>4
    <3> HIDE DEF v, u
    <3>2. v <= u
      BY <2>3, <3>1
    <3>3. QED
      BY <2>1, <3>1, <3>2, HourIndexIs DEF v, u
  <2>12. h \in Overlapping(start..to - 1, samples[k].at, until)
    BY <2>10, <2>11 DEF Overlapping
  <2>13. Gap(k, h)
    BY <2>12 DEF until
  <2> HIDE DEF Gap
  <2>14. QED
    BY <1>13, <2>13
<1>14. SocOk(soc, start, to)
  <2>1. soc.values = values /\ soc.excluded = excluded
    BY <1>5
  <2> HIDE DEF soc, excluded
  <2>2. DOMAIN values = start..to
    OBVIOUS
  <2> HIDE DEF values
  <2>3. QED
    BY <1>12, <1>13, <2>1, <2>2 DEF SocOk
<1>15. QED
  BY <1>10, <1>14

-----------------------------------------------------------------------------
(* Histories. *)

\* The hours from lo to hi and their boundaries.
Reaches(history, lo, hi) ==
  /\ lo \in Int /\ hi \in Int /\ lo <= hi
  /\ Hours(history) = lo..hi /\ DOMAIN history.soc = lo..hi + 1

\* Energy only where every leg and the state of charge were usable.
Measured(history) ==
  \A h \in Hours(history) : history.energy[h] # None =>
    /\ h \notin broken
    /\ history.energy[h] = [in |-> In(h), out |-> Out(h)]
    /\ \A t \in h * Width..(h + 1) * Width : Usable(t)

\* Boundaries between hours with energy carry the charge, those next to an hour without
\* carry none; at the boundaries of open the charge may be missing.
Charges(history, open) ==
  \A b \in DOMAIN history.soc :
    LET whole == \A h \in {b - 1, b} \cap Hours(history) : history.energy[h] # None
    IN /\ whole => \/ history.soc[b] = Charge(b * Width)
                   \/ history.soc[b] = None /\ b \in open
       /\ ~whole => history.soc[b] = None

HistoryOk(history, lo, hi, open) ==
  Reaches(history, lo, hi) /\ Measured(history) /\ Charges(history, open)

\* The greatest of a range, and the least.
LEMMA RangeEnds ==
  ASSUME NEW lo \in Int, NEW hi \in Int, lo <= hi
  PROVE  Max(lo..hi) = hi /\ Min(lo..hi) = lo
<1>1. IsFiniteSet(lo..hi) /\ lo..hi \in SUBSET Int /\ lo..hi # {}
  <2>1. IsFiniteSet(lo..hi)
    BY FS_Interval
  <2>2. lo \in lo..hi /\ \A x \in lo..hi : x \in Int
    OBVIOUS
  <2>3. QED
    BY <2>1, <2>2
<1>2. /\ Max(lo..hi) \in lo..hi /\ \A x \in lo..hi : x <= Max(lo..hi)
      /\ Min(lo..hi) \in lo..hi /\ \A x \in lo..hi : Min(lo..hi) <= x
  BY <1>1, MaxIs, MinIs
<1> DEFINE M == Max(lo..hi)
           m == Min(lo..hi)
<1>3. /\ M \in lo..hi /\ hi <= M
      /\ m \in lo..hi /\ m <= lo
  BY <1>2
<1> HIDE DEF M, m
<1>4. M = hi /\ m = lo
  BY <1>3
<1>5. QED
  BY <1>4 DEF M, m

\* What is blanked keeps its other values.
LEMMA BlankedIs ==
  ASSUME NEW values, NEW at
  PROVE  /\ DOMAIN Blanked(values, at) = DOMAIN values
         /\ \A x \in DOMAIN values :
              Blanked(values, at)[x] = IF x \in at THEN None ELSE values[x]
BY TabulatedIs DEF Blanked

\* A part of a function.
LEMMA RestrictIs ==
  ASSUME NEW f, NEW S \in SUBSET DOMAIN f
  PROVE  DOMAIN Restrict(f, S) = S /\ \A x \in S : Restrict(f, S)[x] = f[x]
BY DEF Restrict

\* The boundaries of a range of hours.
LEMMA ShiftIs ==
  ASSUME NEW lo \in Int, NEW hi \in Int, lo <= hi
  PROVE  (lo..hi) \cup {h + 1 : h \in lo..hi} = lo..hi + 1
<1>1. ASSUME NEW x \in lo..hi + 1, x \notin lo..hi
      PROVE  x - 1 \in lo..hi /\ x = (x - 1) + 1
  BY <1>1
<1>2. \A x \in lo..hi : x \in lo..hi + 1 /\ x + 1 \in lo..hi + 1
  OBVIOUS
<1>3. QED
  BY <1>1, <1>2

\* The energy of an import.
LEMMA LegsIs ==
  ASSUME kept \in Int, NEW from \in Int, NEW to \in Int
  PROVE  LET legs == Legs(from, to)
         IN /\ \E first \in Int : DOMAIN legs = first..to - 1
            /\ \A h \in DOMAIN legs : legs[h] # None =>
                 h \notin broken /\ legs[h] = [in |-> In(h), out |-> Out(h)]
<1> DEFINE first == Max({from, kept})
           f == [h \in first..to - 1 |->
                   IF h \in broken THEN None ELSE [in |-> In(h), out |-> Out(h)]]
<1>1. first \in Int
  <2>1. IsFiniteSet({from, kept}) /\ {from, kept} \in SUBSET Int /\ {from, kept} # {}
    <3>1. IsFiniteSet({from}) /\ IsFiniteSet({kept})
      BY FS_Singleton
    <3>2. IsFiniteSet({from} \cup {kept})
      BY <3>1, FS_Union
    <3>3. {from, kept} = {from} \cup {kept}
      OBVIOUS
    <3>4. QED
      BY <3>2, <3>3
  <2>2. QED
    BY <2>1, MaxIs
<1>2. Legs(from, to) = f
  BY TabulatedIs DEF Legs
<1> HIDE DEF first
<1>3. QED
  BY <1>1, <1>2

\* An import that succeeds aligns its legs and its state of charge: an excluded hour
\* has no energy and drops both its boundaries.
LEMMA AlignedIs ==
  ASSUME NEW legs, NEW soc, NEW first \in Int, NEW start \in Int, NEW to \in Int,
         DOMAIN legs = first..to - 1, start < to, SocOk(soc, start, to),
         \A h \in DOMAIN legs : legs[h] # None =>
           h \notin broken /\ legs[h] = [in |-> In(h), out |-> Out(h)],
         ~Failed(Aligned(legs, soc))
  PROVE  \E lo \in Int : HistoryOk(Aligned(legs, soc), lo, to - 1, {})
<1> DEFINE hours == {h \in DOMAIN legs : h \in DOMAIN soc.values}
           excluded == {h \in hours : legs[h] = None \/ h \in soc.excluded}
           lo == IF first < start THEN start ELSE first
           hi == to - 1
           kw == Blanked(Restrict(legs, hours), excluded)
           values == Blanked(Restrict(soc.values, hours \cup {h + 1 : h \in hours}),
                             Adjacent(excluded))
           A == Aligned(legs, soc)
<1>1. \A why : Failed(Error(why))
  BY DEF Failed, Error
<1>2. hours # {} /\ A = [energy |-> kw, soc |-> values]
  <2>1. A = IF Failed(soc) THEN soc ELSE IF hours = {} THEN Error("no aligned intervals")
            ELSE [energy |-> kw, soc |-> values]
    BY DEF Aligned
  <2> HIDE DEF A, hours, kw, values
  <2>2. ~Failed(A)
    BY DEF A
  <2>3. QED
    BY <1>1, <2>1, <2>2
<1> HIDE DEF A
<1>3. /\ DOMAIN soc.values = start..to
      /\ \A b \in start..to : Usable(b * Width) => soc.values[b] = Charge(b * Width)
      /\ \A h \in start..to - 1 : h \notin soc.excluded =>
           \A t \in h * Width..(h + 1) * Width : Usable(t)
  BY DEF SocOk
<1>4. lo \in Int /\ hi \in Int /\ first <= lo /\ start <= lo /\ (lo = first \/ lo = start)
      /\ hi + 1 = to
  OBVIOUS
<1>5. hours = lo..hi
  <2>1. \A h : h \in hours <=> h \in first..to - 1 /\ h \in start..to
    BY <1>3
  <2>2. \A h : h \in first..to - 1 /\ h \in start..to <=> h \in lo..hi
    <3> HIDE DEF lo, hi
    <3>1. hi = to - 1
      BY DEF hi
    <3>2. QED
      BY <1>4, <3>1
  <2> HIDE DEF lo, hi, hours
  <2>3. QED
    BY <2>1, <2>2
<1> HIDE DEF lo, hi, hours
<1>6. lo <= hi
  BY <1>2, <1>4, <1>5
<1>7. hours \cup {h + 1 : h \in hours} = lo..hi + 1
  BY <1>4, <1>5, <1>6, ShiftIs
<1>8. /\ DOMAIN kw = lo..hi
      /\ \A h \in lo..hi : kw[h] = IF h \in excluded THEN None ELSE legs[h]
  <2>1. hours \in SUBSET DOMAIN legs
    BY DEF hours
  <2> DEFINE r == Restrict(legs, hours)
  <2>2. DOMAIN r = hours /\ \A h \in hours : r[h] = legs[h]
    BY <2>1, RestrictIs
  <2> HIDE DEF r, excluded
  <2>3. /\ DOMAIN Blanked(r, excluded) = DOMAIN r
        /\ \A x \in DOMAIN r : Blanked(r, excluded)[x] = IF x \in excluded THEN None ELSE r[x]
    BY BlankedIs
  <2>4. QED
    BY <1>5, <2>2, <2>3 DEF r
<1>9. /\ DOMAIN values = lo..hi + 1
      /\ \A b \in lo..hi + 1 :
           values[b] = IF b \in Adjacent(excluded) THEN None ELSE soc.values[b]
  <2>1. lo..hi + 1 \in SUBSET DOMAIN soc.values
    <3>1. \A b \in lo..hi + 1 : b \in start..to
      BY <1>4
    <3>2. QED
      BY <1>3, <3>1
  <2> DEFINE r == Restrict(soc.values, lo..hi + 1)
  <2>2. DOMAIN r = lo..hi + 1 /\ \A b \in lo..hi + 1 : r[b] = soc.values[b]
    BY <2>1, RestrictIs
  <2> HIDE DEF r, excluded
  <2>3. /\ DOMAIN Blanked(r, Adjacent(excluded)) = DOMAIN r
        /\ \A x \in DOMAIN r : Blanked(r, Adjacent(excluded))[x]
                                 = IF x \in Adjacent(excluded) THEN None ELSE r[x]
    BY BlankedIs
  <2>4. values = Blanked(r, Adjacent(excluded))
    BY <1>7 DEF r
  <2>5. QED
    BY <2>2, <2>3, <2>4
<1> HIDE DEF kw, values
<1>10. A.energy = kw /\ A.soc = values /\ Hours(A) = lo..hi
  BY <1>2, <1>8 DEF Hours
<1>11. ASSUME NEW h \in lo..hi
       PROVE  /\ A.energy[h] # None <=> h \notin excluded
              /\ h \notin excluded =>
                   /\ A.energy[h] = legs[h] /\ legs[h] # None
                   /\ h \in DOMAIN legs /\ h \in start..to - 1 /\ h \notin soc.excluded
  <2>1. h \in hours /\ h \in DOMAIN legs /\ h \in start..to - 1
    <3>1. h \in hours
      BY <1>5
    <3>2. h \in start..to - 1
      BY <1>4
    <3>3. QED
      BY <3>1, <3>2 DEF hours
  <2>2. A.energy[h] = IF h \in excluded THEN None ELSE legs[h]
    BY <1>8, <1>10
  <2>3. h \notin excluded => legs[h] # None /\ h \notin soc.excluded
    BY <2>1
  <2> HIDE DEF excluded
  <2>4. QED
    BY <2>1, <2>2, <2>3
<1>12. excluded \subseteq lo..hi
  BY <1>5
<1> HIDE DEF excluded
<1>13. Measured(A)
  <2>1. ASSUME NEW h \in lo..hi, A.energy[h] # None
        PROVE  /\ h \notin broken /\ A.energy[h] = [in |-> In(h), out |-> Out(h)]
               /\ \A t \in h * Width..(h + 1) * Width : Usable(t)
    BY <1>3, <1>11, <2>1
  <2>2. QED
    BY <1>10, <2>1 DEF Measured
<1>14. ASSUME NEW b \in lo..hi + 1
       PROVE  LET whole == \A h \in {b - 1, b} \cap (lo..hi) : A.energy[h] # None
              IN /\ whole => A.soc[b] = Charge(b * Width)
                 /\ ~whole => A.soc[b] = None
  <2>1. b \in Int /\ b - 1 \in Int /\ (b \in lo..hi \/ b - 1 \in lo..hi) /\ (b - 1) + 1 = b
    BY <1>4, <1>6
  <2>2. A.soc[b] = IF b \in Adjacent(excluded) THEN None ELSE soc.values[b]
    BY <1>9, <1>10
  <2>3. b \in Adjacent(excluded) <=> b \in excluded \/ b - 1 \in excluded
    <3>1. \A h \in excluded : h \in Int
      BY <1>4, <1>12
    <3>2. b \in {h + 1 : h \in excluded} <=> b - 1 \in excluded
      BY <2>1, <3>1
    <3>3. QED
      BY <3>2 DEF Adjacent
  <2>4. ASSUME \A h \in {b - 1, b} \cap (lo..hi) : A.energy[h] # None
        PROVE  A.soc[b] = Charge(b * Width)
    <3>1. \A h \in {b - 1, b} \cap (lo..hi) : h \notin excluded
      BY <1>11, <2>4
    <3>2. b \notin Adjacent(excluded)
      BY <1>12, <2>3, <3>1
    <3>3. PICK h \in {b - 1, b} : h \in lo..hi
      BY <2>1
    <3>4. \A t \in h * Width..(h + 1) * Width : Usable(t)
      BY <1>3, <1>11, <3>1, <3>3
    <3>5. b * Width \in h * Width..(h + 1) * Width
      <4>1. Width \in Nat \ {0} /\ h \in Int /\ h + 1 \in Int /\ h <= b /\ b <= h + 1
        BY <2>1, <3>3, WidthAssumption
      <4>2. /\ h * Width \in Int /\ (h + 1) * Width \in Int /\ b * Width \in Int
            /\ h * Width <= b * Width /\ b * Width <= (h + 1) * Width
        BY <2>1, <4>1, HourTimes
      <4> DEFINE l == h * Width
                 u == (h + 1) * Width
                 x == b * Width
      <4>3. l \in Int /\ u \in Int /\ x \in Int /\ l <= x /\ x <= u
        BY <4>2
      <4> HIDE DEF l, u, x
      <4>4. x \in l..u
        BY <4>3
      <4>5. QED
        BY <4>4 DEF l, u, x
    <3>6. b \in start..to
      BY <1>4
    <3>7. QED
      BY <1>3, <2>2, <3>2, <3>4, <3>5, <3>6
  <2>5. ASSUME NEW h \in {b - 1, b} \cap (lo..hi), ~(A.energy[h] # None)
        PROVE  A.soc[b] = None
    <3>1. h \in excluded
      BY <1>11, <2>5
    <3>2. QED
      BY <2>2, <2>3, <3>1
  <2>6. QED
    BY <2>4, <2>5
<1>15. Charges(A, {})
  <2>1. DOMAIN A.soc = lo..hi + 1
    BY <1>9, <1>10
  <2>2. QED
    BY <1>10, <1>14, <2>1 DEF Charges
<1>16. Reaches(A, lo, hi)
  BY <1>4, <1>6, <1>9, <1>10 DEF Reaches
<1>17. HistoryOk(A, lo, to - 1, {})
  BY <1>13, <1>15, <1>16 DEF HistoryOk, hi
<1>18. QED
  BY <1>4, <1>17 DEF A

-----------------------------------------------------------------------------
(* Keeping histories. *)

\* Retention keeps the newest hours; the hour before the first one may be gone.
LEMMA BoundedIs ==
  ASSUME NEW history, NEW lo, NEW hi, NEW open \in SUBSET {lo}, NEW count \in Nat \ {0},
         HistoryOk(history, lo, hi, open)
  PROVE  \E l \in Int : hi - l < count /\ HistoryOk(Bounded(history, count), l, hi, {l})
<1> DEFINE B == Bounded(history, count)
           first == hi - count + 1
           l == IF first < lo THEN lo ELSE first
           hours == {h \in lo..hi : h >= first}
           bounds == {b \in lo..hi + 1 : b >= first}
           kw == Restrict(history.energy, hours)
           charges == Restrict(history.soc, bounds)
<1>1. /\ lo \in Int /\ hi \in Int /\ lo <= hi
      /\ Hours(history) = lo..hi /\ DOMAIN history.energy = lo..hi
      /\ DOMAIN history.soc = lo..hi + 1
  BY DEF HistoryOk, Reaches, Hours
<1>2. Max(Hours(history)) = hi
  BY <1>1, RangeEnds
<1>3. B = [energy |-> kw, soc |-> charges]
  BY <1>1, <1>2 DEF Bounded
<1>4. /\ l \in Int /\ lo <= l /\ l <= hi /\ hours = l..hi /\ bounds = l..hi + 1
      /\ first <= l /\ (l = lo \/ l = first)
  <2>1. l \in Int /\ lo <= l /\ l <= hi /\ first <= l /\ (l = lo \/ l = first)
    BY <1>1
  <2>2. \A h \in lo..hi + 1 : h >= first <=> l <= h
    BY <1>1
  <2> HIDE DEF l, first
  <2>3. hours = l..hi /\ bounds = l..hi + 1
    BY <1>1, <2>1, <2>2
  <2>4. QED
    BY <2>1, <2>3
<1>5. hours \in SUBSET DOMAIN history.energy /\ bounds \in SUBSET DOMAIN history.soc
  BY <1>1
<1> HIDE DEF B, l, first, hours, bounds
<1>6. /\ DOMAIN kw = l..hi /\ \A h \in l..hi : kw[h] = history.energy[h]
      /\ DOMAIN charges = l..hi + 1 /\ \A b \in l..hi + 1 : charges[b] = history.soc[b]
  BY <1>4, <1>5, RestrictIs
<1> HIDE DEF kw, charges
<1>7. B.energy = kw /\ B.soc = charges /\ Hours(B) = l..hi
  BY <1>3, <1>6 DEF Hours
<1>8. l..hi \in SUBSET (lo..hi)
  BY <1>1, <1>4
<1>9. Reaches(B, l, hi)
  BY <1>1, <1>4, <1>6, <1>7 DEF Reaches
<1>10. Measured(B)
  <2>1. \A h \in l..hi : B.energy[h] = history.energy[h] /\ h \in Hours(history)
    BY <1>1, <1>6, <1>7, <1>8
  <2>2. QED
    BY <1>7, <2>1 DEF Measured, HistoryOk
<1>11. Charges(B, {l})
  <2>1. SUFFICES ASSUME NEW b \in l..hi + 1
                 PROVE  LET whole == \A h \in {b - 1, b} \cap (l..hi) : B.energy[h] # None
                        IN /\ whole => \/ B.soc[b] = Charge(b * Width)
                                       \/ B.soc[b] = None /\ b \in {l}
                           /\ ~whole => B.soc[b] = None
    <3>1. DOMAIN B.soc = l..hi + 1
      BY <1>6, <1>7
    <3>2. QED
      BY <1>7, <2>1, <3>1 DEF Charges
  <2> DEFINE Kept == \A h \in {b - 1, b} \cap (l..hi) : B.energy[h] # None
             Whole == \A h \in {b - 1, b} \cap (lo..hi) : history.energy[h] # None
  <2>2. /\ Whole => \/ history.soc[b] = Charge(b * Width)
                    \/ history.soc[b] = None /\ b \in open
        /\ ~Whole => history.soc[b] = None
    <3>1. b \in DOMAIN history.soc
      BY <1>1, <1>4, <2>1
    <3>2. QED
      BY <1>1, <3>1 DEF HistoryOk, Charges
  <2>3. B.soc[b] = history.soc[b]
    BY <1>6, <1>7
  <2>4. Whole => Kept
    <3>1. \A h \in l..hi : B.energy[h] = history.energy[h]
      BY <1>6, <1>7
    <3>2. QED
      BY <1>8, <3>1
  <2>5. Kept => Whole \/ b = l
    <3>1. b # l => {b - 1, b} \cap (lo..hi) \subseteq l..hi
      BY <1>1, <1>4
    <3>2. \A h \in l..hi : B.energy[h] = history.energy[h]
      BY <1>6, <1>7
    <3>3. QED
      BY <3>1, <3>2
  <2>6. b \in open => b = l
    BY <1>1, <1>4
  <2> HIDE DEF Kept, Whole
  <2>7. /\ Kept => \/ B.soc[b] = Charge(b * Width)
                   \/ B.soc[b] = None /\ b \in {l}
        /\ ~Kept => B.soc[b] = None
    BY <2>2, <2>3, <2>4, <2>5, <2>6
  <2>8. QED
    BY <2>7 DEF Kept
<1>12. HistoryOk(B, l, hi, {l})
  BY <1>9, <1>10, <1>11 DEF HistoryOk
<1>13. hi - l < count
  BY <1>1, <1>4 DEF first
<1>14. QED
  BY <1>4, <1>12, <1>13 DEF B

\* A history and one that begins after it, joined, before retention.
LEMMA JoinedHistoryIs ==
  ASSUME NEW existing, NEW incoming, NEW lo, NEW hi, NEW from, NEW to,
         HistoryOk(existing, lo, hi, {lo}), HistoryOk(incoming, from, to, {}), hi < from
  PROVE  LET next == hi + 1
             gap == Blank(next, from - 1)
             unknown == IF from > next THEN Blank(next, from) ELSE << >>
         IN HistoryOk([energy |-> Over(existing.energy, Over(gap, incoming.energy)),
                       soc |-> Blanked(Over(unknown, Over(incoming.soc, existing.soc)),
                                       SharedBoundary(existing))], lo, to, {lo})
<1> DEFINE next == hi + 1
           gap == Blank(next, from - 1)
           unknown == IF from > next THEN Blank(next, from) ELSE << >>
           E == existing.energy
           I == incoming.energy
           S == existing.soc
           J == incoming.soc
           kw == Over(E, Over(gap, I))
           base == Over(unknown, Over(J, S))
           charges == Blanked(base, SharedBoundary(existing))
           U == [energy |-> kw, soc |-> charges]
<1>1. /\ lo \in Int /\ hi \in Int /\ lo <= hi /\ Hours(existing) = lo..hi
      /\ DOMAIN E = lo..hi /\ DOMAIN S = lo..hi + 1
      /\ from \in Int /\ to \in Int /\ from <= to /\ Hours(incoming) = from..to
      /\ DOMAIN I = from..to /\ DOMAIN J = from..to + 1
  BY DEF HistoryOk, Reaches, Hours
<1>2. next \in Int /\ hi < next /\ next <= from /\ lo < next
  BY <1>1
<1>3. DOMAIN gap = next..from - 1 /\ \A h \in next..from - 1 : gap[h] = None
  BY DEF Blank
<1>4. /\ from > next => DOMAIN unknown = next..from /\ \A b \in next..from : unknown[b] = None
      /\ ~(from > next) => DOMAIN unknown = {}
  BY DEF Blank
<1>5. SharedBoundary(existing) = IF E[hi] = None THEN {next} ELSE {}
  <2>1. Max(Hours(existing)) = hi
    BY <1>1, RangeEnds
  <2>2. QED
    BY <2>1 DEF SharedBoundary
<1> HIDE DEF gap, unknown, E, I, S, J
<1>6. /\ DOMAIN kw = lo..to
      /\ \A h \in lo..hi : kw[h] = E[h]
      /\ \A h \in next..from - 1 : kw[h] = None
      /\ \A h \in from..to : kw[h] = I[h]
  <2> DEFINE G == Over(gap, I)
  <2>1. /\ DOMAIN G = DOMAIN gap \cup DOMAIN I
        /\ \A h \in DOMAIN gap : G[h] = gap[h]
        /\ \A h \in DOMAIN I \ DOMAIN gap : G[h] = I[h]
    BY OverIs
  <2> HIDE DEF G
  <2>2. /\ DOMAIN Over(E, G) = DOMAIN E \cup DOMAIN G
        /\ \A h \in DOMAIN E : Over(E, G)[h] = E[h]
        /\ \A h \in DOMAIN G \ DOMAIN E : Over(E, G)[h] = G[h]
    BY OverIs
  <2>3. kw = Over(E, G)
    BY DEF G
  <2> HIDE DEF kw, next
  <2>4. (lo..hi) \cup (next..from - 1) \cup (from..to) = lo..to
    <3>1. next = hi + 1
      BY DEF next
    <3>2. \A h : h \in lo..to <=> h \in lo..hi \/ h \in next..from - 1 \/ h \in from..to
      BY <1>1, <1>2, <3>1
    <3>3. QED
      BY <3>2
  <2>5. /\ \A h \in next..from - 1 : h \notin lo..hi
        /\ \A h \in from..to : h \notin lo..hi /\ h \notin next..from - 1
    BY <1>1, <1>2
  <2>6. DOMAIN kw = lo..to
    BY <1>1, <1>3, <2>1, <2>2, <2>3, <2>4
  <2>7. \A h \in lo..hi : kw[h] = E[h]
    BY <1>1, <2>2, <2>3
  <2>8. \A h \in next..from - 1 : kw[h] = None
    BY <1>1, <1>3, <2>1, <2>2, <2>3, <2>5
  <2>9. \A h \in from..to : kw[h] = I[h]
    BY <1>1, <1>3, <2>1, <2>2, <2>3, <2>5
  <2>10. QED
    BY <2>6, <2>7, <2>8, <2>9
<1>7. /\ DOMAIN base = lo..to + 1
      /\ \A b \in lo..hi : base[b] = S[b]
      /\ from > next => \A b \in next..from : base[b] = None
      /\ ~(from > next) => base[from] = J[from]
      /\ \A b \in from + 1..to + 1 : base[b] = J[b]
  <2> DEFINE K == Over(J, S)
  <2>1. /\ DOMAIN K = DOMAIN J \cup DOMAIN S
        /\ \A b \in DOMAIN J : K[b] = J[b]
        /\ \A b \in DOMAIN S \ DOMAIN J : K[b] = S[b]
    BY OverIs
  <2> HIDE DEF K
  <2>2. /\ DOMAIN Over(unknown, K) = DOMAIN unknown \cup DOMAIN K
        /\ \A b \in DOMAIN unknown : Over(unknown, K)[b] = unknown[b]
        /\ \A b \in DOMAIN K \ DOMAIN unknown : Over(unknown, K)[b] = K[b]
    BY OverIs
  <2>3. base = Over(unknown, K)
    BY DEF K
  <2> HIDE DEF base, next
  <2>4. next = hi + 1
    BY DEF next
  <2>5. /\ \A b \in lo..hi : b \notin from..to + 1 /\ b \notin next..from /\ b \in lo..hi + 1
        /\ \A b \in from + 1..to + 1 : b \in from..to + 1 /\ b \notin next..from
        /\ from \in from..to + 1
    BY <1>1, <1>2
  <2>6. DOMAIN base = lo..to + 1
    <3>1. CASE from > next
      <4>1. \A b : b \in lo..to + 1 <=>
                     b \in next..from \/ b \in from..to + 1 \/ b \in lo..hi + 1
        BY <1>1, <1>2, <2>4
      <4>2. QED
        BY <1>1, <1>4, <2>1, <2>2, <2>3, <3>1, <4>1
    <3>2. CASE ~(from > next)
      <4>1. \A b : b \in lo..to + 1 <=> b \in from..to + 1 \/ b \in lo..hi + 1
        BY <1>1, <1>2, <2>4, <3>2
      <4>2. QED
        BY <1>1, <1>4, <2>1, <2>2, <2>3, <3>2, <4>1
    <3>3. QED
      BY <3>1, <3>2
  <2>7. \A b \in lo..hi : base[b] = S[b]
    BY <1>1, <1>4, <2>1, <2>2, <2>3, <2>5
  <2>8. from > next => \A b \in next..from : base[b] = None
    BY <1>4, <2>2, <2>3
  <2>9. ~(from > next) => base[from] = J[from]
    BY <1>1, <1>4, <2>1, <2>2, <2>3, <2>5
  <2>10. \A b \in from + 1..to + 1 : base[b] = J[b]
    BY <1>1, <1>4, <2>1, <2>2, <2>3, <2>5
  <2>11. QED
    BY <2>6, <2>7, <2>8, <2>9, <2>10
<1> HIDE DEF kw, base
<1>8. /\ DOMAIN charges = lo..to + 1
      /\ \A b \in lo..to + 1 :
           charges[b] = IF b \in SharedBoundary(existing) THEN None ELSE base[b]
  <2>1. DOMAIN base = lo..to + 1
    BY <1>7
  <2> DEFINE shared == SharedBoundary(existing)
  <2> HIDE DEF shared
  <2>2. /\ DOMAIN Blanked(base, shared) = DOMAIN base
        /\ \A b \in DOMAIN base :
             Blanked(base, shared)[b] = IF b \in shared THEN None ELSE base[b]
    BY BlankedIs
  <2>3. QED
    BY <2>1, <2>2 DEF shared
<1> HIDE DEF charges
<1>9. U.energy = kw /\ U.soc = charges /\ Hours(U) = lo..to
  BY <1>6 DEF Hours
<1> HIDE DEF U
<1>10. \A h \in lo..to : h \in lo..hi \/ h \in next..from - 1 \/ h \in from..to
  BY <1>1, <1>2
<1>11. Reaches(U, lo, to)
  <2>1. lo <= to
    BY <1>1, <1>2
  <2>2. QED
    BY <1>1, <1>8, <1>9, <2>1 DEF Reaches
<1>12. Measured(U)
  <2>1. \A h \in lo..hi : kw[h] = existing.energy[h] /\ h \in Hours(existing)
    BY <1>1, <1>6 DEF E
  <2>2. \A h \in from..to : kw[h] = incoming.energy[h] /\ h \in Hours(incoming)
    BY <1>1, <1>6 DEF I
  <2>3. ASSUME NEW h \in lo..to, U.energy[h] # None
        PROVE  /\ h \notin broken /\ U.energy[h] = [in |-> In(h), out |-> Out(h)]
               /\ \A t \in h * Width..(h + 1) * Width : Usable(t)
    <3>1. CASE h \in lo..hi
      BY <1>9, <2>1, <2>3, <3>1 DEF HistoryOk, Measured
    <3>2. CASE h \in next..from - 1
      BY <1>6, <1>9, <2>3, <3>2
    <3>3. CASE h \in from..to
      BY <1>9, <2>2, <2>3, <3>3 DEF HistoryOk, Measured
    <3>4. QED
      BY <1>10, <3>1, <3>2, <3>3
  <2>4. QED
    BY <1>9, <2>3 DEF Measured
\* What the boundaries of the two parts say.
<1>13. ASSUME NEW b \in lo..hi + 1
       PROVE  LET whole == \A h \in {b - 1, b} \cap (lo..hi) : E[h] # None
              IN /\ whole => S[b] = Charge(b * Width) \/ (S[b] = None /\ b = lo)
                 /\ ~whole => S[b] = None
  BY <1>1 DEF HistoryOk, Charges, E, S
<1>14. ASSUME NEW b \in from..to + 1
       PROVE  LET whole == \A h \in {b - 1, b} \cap (from..to) : I[h] # None
              IN /\ whole => J[b] = Charge(b * Width)
                 /\ ~whole => J[b] = None
  BY <1>1 DEF HistoryOk, Charges, I, J
<1>15. ASSUME NEW b \in lo..to + 1
       PROVE  LET whole == \A h \in {b - 1, b} \cap (lo..to) : U.energy[h] # None
              IN /\ whole => \/ U.soc[b] = Charge(b * Width)
                             \/ U.soc[b] = None /\ b \in {lo}
                 /\ ~whole => U.soc[b] = None
  <2> DEFINE Whole == \A h \in {b - 1, b} \cap (lo..to) : kw[h] # None
  <2>1. b \in Int /\ next = hi + 1
    BY <1>1
  <2> HIDE DEF next
  <2>2. U.soc[b] = IF E[hi] = None /\ b = next THEN None ELSE base[b]
    BY <1>5, <1>8, <1>9
  <2>3. CASE b \in lo..hi
    <3> DEFINE Old == \A h \in {b - 1, b} \cap (lo..hi) : E[h] # None
    <3>1. U.soc[b] = S[b] /\ b \in lo..hi + 1
      <4>1. b # next /\ b \in lo..hi + 1
        BY <1>1, <2>1, <2>3
      <4>2. QED
        BY <1>7, <2>2, <2>3, <4>1
    <3>2. {b - 1, b} \cap (lo..to) = {b - 1, b} \cap (lo..hi)
      <4>1. \A h \in {b - 1, b} : h \in lo..to <=> h \in lo..hi
        BY <1>1, <1>2, <2>1, <2>3
      <4>2. QED
        BY <4>1
    <3>3. Whole <=> Old
      <4>1. \A h \in {b - 1, b} \cap (lo..hi) : kw[h] = E[h]
        BY <1>6
      <4>2. QED
        BY <3>2, <4>1
    <3>4. /\ Old => S[b] = Charge(b * Width) \/ (S[b] = None /\ b = lo)
          /\ ~Old => S[b] = None
      BY <1>13, <3>1
    <3> HIDE DEF Whole, Old
    <3>5. /\ Whole => U.soc[b] = Charge(b * Width) \/ (U.soc[b] = None /\ b \in {lo})
          /\ ~Whole => U.soc[b] = None
      BY <3>1, <3>3, <3>4
    <3>6. QED
      BY <1>9, <3>5 DEF Whole
  <2>4. CASE from > next /\ b \in next..from
    <3>1. U.soc[b] = None
      BY <1>7, <2>2, <2>4
    <3>2. PICK h \in {b - 1, b} : h \in next..from - 1 /\ h \in lo..to
      <4>1. CASE b < from
        <5>1. b \in next..from - 1 /\ b \in lo..to
          BY <1>1, <1>2, <2>1, <2>4, <4>1
        <5>2. QED
          BY <5>1
      <4>2. CASE ~(b < from)
        <5>1. b - 1 \in next..from - 1 /\ b - 1 \in lo..to
          BY <1>1, <1>2, <2>1, <2>4, <4>2
        <5>2. QED
          BY <5>1
      <4>3. QED
        BY <4>1, <4>2
    <3>3. ~Whole
      BY <1>6, <3>2
    <3>4. QED
      BY <1>9, <3>1, <3>3
  <2>5. CASE from = next /\ b = next
    <3>1. U.soc[b] = IF E[hi] = None THEN None ELSE J[from]
      BY <1>1, <1>7, <2>2, <2>5
    <3>2. /\ I[from] # None => J[from] = Charge(from * Width)
          /\ ~(I[from] # None) => J[from] = None
      <4>1. from \in from..to + 1 /\ {from - 1, from} \cap (from..to) = {from}
        BY <1>1
      <4>2. QED
        BY <1>14, <4>1
    <3>3. {b - 1, b} \cap (lo..to) = {hi, from}
      BY <1>1, <1>2, <2>1, <2>5
    <3>4. kw[hi] = E[hi] /\ kw[from] = I[from]
      BY <1>1, <1>6
    <3>5. Whole <=> E[hi] # None /\ I[from] # None
      BY <3>3, <3>4
    <3> HIDE DEF Whole
    <3>6. /\ Whole => U.soc[b] = Charge(b * Width)
          /\ ~Whole => U.soc[b] = None
      BY <2>5, <3>1, <3>2, <3>5
    <3>7. QED
      BY <1>9, <3>6 DEF Whole
  <2>6. CASE b \in from + 1..to + 1
    <3> DEFINE New == \A h \in {b - 1, b} \cap (from..to) : I[h] # None
    <3>1. U.soc[b] = J[b] /\ b \in from..to + 1
      <4>1. b # next /\ b \in from..to + 1
        BY <1>1, <1>2, <2>6
      <4>2. QED
        BY <1>7, <2>2, <2>6, <4>1
    <3>2. {b - 1, b} \cap (lo..to) = {b - 1, b} \cap (from..to)
      <4>1. \A h \in {b - 1, b} : h \in lo..to <=> h \in from..to
        BY <1>1, <1>2, <2>1, <2>6
      <4>2. QED
        BY <4>1
    <3>3. Whole <=> New
      <4>1. \A h \in {b - 1, b} \cap (from..to) : kw[h] = I[h]
        BY <1>6
      <4>2. QED
        BY <3>2, <4>1
    <3>4. /\ New => J[b] = Charge(b * Width)
          /\ ~New => J[b] = None
      BY <1>14, <3>1
    <3> HIDE DEF Whole, New
    <3>5. /\ Whole => U.soc[b] = Charge(b * Width)
          /\ ~Whole => U.soc[b] = None
      BY <3>1, <3>3, <3>4
    <3>6. QED
      BY <1>9, <3>5 DEF Whole
  <2>7. \/ b \in lo..hi
        \/ from > next /\ b \in next..from
        \/ from = next /\ b = next
        \/ b \in from + 1..to + 1
    BY <1>1, <1>2, <2>1
  <2>8. QED
    BY <2>3, <2>4, <2>5, <2>6, <2>7
<1>16. Charges(U, {lo})
  <2>1. DOMAIN U.soc = lo..to + 1
    BY <1>8, <1>9
  <2>2. QED
    BY <1>9, <1>15, <2>1 DEF Charges
<1>17. HistoryOk(U, lo, to, {lo})
  BY <1>11, <1>12, <1>16 DEF HistoryOk
<1>18. QED
  BY <1>17 DEF U, kw, charges, base, E, I, S, J, gap, unknown

\* What merging an import into the persisted history leaves.
LEMMA MergedHistoryIs ==
  ASSUME NEW existing, NEW incoming, NEW from, NEW to,
         existing # None => \E lo, hi \in Int : HistoryOk(existing, lo, hi, {lo}),
         HistoryOk(incoming, from, to, {}),
         ~Failed(MergedHistory(existing, incoming))
  PROVE  \E lo \in Int : /\ to - lo < Retention
                         /\ HistoryOk(MergedHistory(existing, incoming), lo, to, {lo})
<1> DEFINE M == MergedHistory(existing, incoming)
<1>1. Retention \in Nat \ {0}
  BY WidthAssumption
<1>2. CASE existing = None
  <2>1. M = Bounded(incoming, Retention)
    BY <1>2 DEF MergedHistory
  <2>2. QED
    BY <1>1, <2>1, BoundedIs
<1>3. CASE existing # None
  <2>1. PICK lo \in Int, hi \in Int : HistoryOk(existing, lo, hi, {lo})
    BY <1>3
  <2> DEFINE next == hi + 1
             gap == Blank(next, from - 1)
             unknown == IF from > next THEN Blank(next, from) ELSE << >>
             U == [energy |-> Over(existing.energy, Over(gap, incoming.energy)),
                   soc |-> Blanked(Over(unknown, Over(incoming.soc, existing.soc)),
                                   SharedBoundary(existing))]
  <2>2. Max(Hours(existing)) = hi /\ Min(Hours(incoming)) = from /\ from \in Int
    BY <2>1, RangeEnds DEF HistoryOk, Reaches
  <2>3. M = IF from < next THEN Error("not contiguous") ELSE Bounded(U, Retention)
    BY <1>3, <2>2 DEF MergedHistory
  <2> HIDE DEF U
  <2>4. ~(from < next) /\ M = Bounded(U, Retention)
    <3>1. Failed(Error("not contiguous"))
      BY DEF Failed, Error
    <3>2. QED
      BY <2>3, <3>1
  <2>5. hi < from
    BY <2>1, <2>2, <2>4
  <2>6. HistoryOk(U, lo, to, {lo})
    BY <2>1, <2>5, JoinedHistoryIs DEF U
  <2>7. QED
    BY <1>1, <2>4, <2>6, BoundedIs
<1>4. QED
  BY <1>2, <1>3

-----------------------------------------------------------------------------
(* The source. *)

\* A history within retention of hours before some hour, and what it holds is true.
Persisted(history, lo, hi, end) ==
  HistoryOk(history, lo, hi, {lo}) /\ hi - lo < Retention /\ hi < end

\* The persisted history covers its hours without a hole, and what it holds is true.
BatteryInv ==
  /\ battery \in Batteries /\ clock \in Int /\ kept \in Int
  /\ stored # None => \E lo, hi \in Int : Persisted(stored, lo, hi, clock)

\* What a run leaves.
LEMMA RunKeeps ==
  ASSUME BatteryInv, NEW from \in HistoryStarts, NEW known, Run(from, known)
  PROVE  /\ \E lo, hi \in Int : Persisted(stored', lo, hi, clock)
         /\ result' = Calculated(stored', from, known)
<1> SUFFICES ASSUME stored' # stored \/ stored = None
             PROVE  \E lo, hi \in Int : Persisted(stored', lo, hi, clock)
  BY DEF Run, Evaluate, BatteryInv
<1> DEFINE start == Start(from)
           legs == Legs(start, clock)
           soc == SocSeries(start, clock)
           incoming == Aligned(legs, soc)
           merged == MergedHistory(stored, incoming)
<1>1. /\ battery \in Batteries /\ clock \in Int /\ kept \in Int
      /\ stored # None => \E lo, hi \in Int : Persisted(stored, lo, hi, clock)
  BY DEF BatteryInv
<1>2. start < clock /\ ~Failed(incoming) /\ ~Failed(merged) /\ stored' = merged
  BY DEF Run, Evaluate
<1>3. start \in Int
  <2>1. CASE stored # None
    <3>1. PICK lo \in Int, hi \in Int : Persisted(stored, lo, hi, clock)
      BY <1>1, <2>1
    <3>2. Max(Hours(stored)) = hi
      BY <3>1, RangeEnds DEF Persisted, HistoryOk, Reaches
    <3>3. QED
      BY <2>1, <3>1, <3>2 DEF Start
  <2>2. CASE stored = None
    <3>1. from \in Int \/ from = None
      BY StartAssumption
    <3>2. clock - Retention \in Int
      BY <1>1, WidthAssumption
    <3>3. QED
      BY <2>2, <3>1, <3>2 DEF Start
  <2>3. QED
    BY <2>1, <2>2
<1> HIDE DEF start
<1>4. ~Failed(soc)
  BY <1>2 DEF Aligned
<1>5. PICK first \in Int : /\ first < clock
                           /\ SocOk(soc, first, clock)
  BY <1>1, <1>2, <1>3, <1>4, SocSeriesIs
<1>6. PICK begin \in Int : DOMAIN legs = begin..clock - 1
  BY <1>1, <1>3, LegsIs
<1>7. \A h \in DOMAIN legs : legs[h] # None =>
        h \notin broken /\ legs[h] = [in |-> In(h), out |-> Out(h)]
  BY <1>1, <1>3, LegsIs
<1> HIDE DEF soc, legs
<1>8. PICK lo \in Int : HistoryOk(incoming, lo, clock - 1, {})
  BY <1>1, <1>2, <1>5, <1>6, <1>7, AlignedIs
<1> HIDE DEF incoming
<1>9. stored # None => \E l, hi \in Int : HistoryOk(stored, l, hi, {l})
  BY <1>1 DEF Persisted
<1>10. PICK l \in Int : clock - 1 - l < Retention /\ HistoryOk(merged, l, clock - 1, {l})
  BY <1>2, <1>8, <1>9, MergedHistoryIs
<1>11. clock - 1 \in Int /\ clock - 1 < clock
  BY <1>1
<1>12. Persisted(merged, l, clock - 1, clock)
  BY <1>10, <1>11 DEF Persisted
<1>13. QED
  BY <1>2, <1>10, <1>11, <1>12

\* Nothing but a run changes what is persisted, and nothing the measurements.
LEMMA OthersKeep ==
  ASSUME [Next]_vars
  PROVE  /\ battery' = battery /\ broken' = broken
         /\ stored' = stored \/ \E from \in HistoryStarts, known \in BOOLEAN :
                                  Run(from, known)
         /\ clock' = clock \/ clock' = clock + 1
         /\ kept' = kept \/ kept' \in kept + 1..clock
BY DEF Next, Run, Tick, Purge, vars, inputs

\* What was persisted within the hours that have passed still is.
LEMMA StillPersisted ==
  ASSUME BatteryInv, [Next]_vars, NEW lo \in Int, NEW hi \in Int,
         Persisted(stored', lo, hi, clock)
  PROVE  Persisted(stored, lo, hi, clock)'
<1>1. battery' = battery /\ broken' = broken
  BY OthersKeep
<1>2. HistoryOk(stored, lo, hi, {lo})'
  BY <1>1 DEF Persisted, HistoryOk, Reaches, Measured, Charges, Hours, Usable, Charge, In, Out,
              Moves
<1>3. hi < clock'
  BY OthersKeep DEF BatteryInv, Persisted
<1>4. QED
  BY <1>2, <1>3 DEF Persisted

\* Nothing is persisted at first.
LEMMA BatteryInit == Init => BatteryInv
BY DEF Init, BatteryInv

\* Every step keeps the invariant.
LEMMA BatteryStep ==
  ASSUME BatteryInv, [Next]_vars
  PROVE  BatteryInv'
<1>1. /\ battery \in Batteries /\ clock \in Int /\ kept \in Int
      /\ stored # None => \E lo, hi \in Int : Persisted(stored, lo, hi, clock)
  BY DEF BatteryInv
<1>2. battery' \in Batteries /\ clock' \in Int /\ kept' \in Int
  <2>1. \A k \in kept + 1..clock : k \in Int
    BY <1>1
  <2>2. QED
    BY <1>1, <2>1, OthersKeep
<1>3. stored' # None => \E lo, hi \in Int : Persisted(stored', lo, hi, clock)
  <2>1. CASE stored' = stored
    BY <1>1, <2>1
  <2>2. CASE stored' # stored
    BY <2>2, OthersKeep, RunKeeps
  <2>3. QED
    BY <2>1, <2>2
<1>4. QED
  BY <1>2, <1>3, StillPersisted DEF BatteryInv

\* The invariant of the persisted history.
LEMMA BatteryInvariant == Spec => []BatteryInv
<1>1. BatteryInv /\ [Next]_vars => BatteryInv'
  BY BatteryStep
<1>2. QED
  BY <1>1, BatteryInit, PTL DEF Spec

\* The persisted history covers consecutive hours before the full hour, at most as many
\* as retention allows, with the boundaries of these hours and no others
\* (bound_battery_efficiency_history, merge_battery_efficiency_history).
THEOREM HistoryStaysAligned ==
  Spec => [](stored # None => \E lo, hi \in Int : /\ Reaches(stored, lo, hi)
                                                 /\ hi - lo < Retention /\ hi < clock)
<1>1. BatteryInv => (stored # None => \E lo, hi \in Int : /\ Reaches(stored, lo, hi)
                                                         /\ hi - lo < Retention
                                                         /\ hi < clock)
  BY DEF BatteryInv, Persisted, HistoryOk
<1>2. QED
  BY <1>1, BatteryInvariant, PTL

\* However the history was cut into imports, whatever was excluded and whatever Home
\* Assistant had purged between them, each boundary between hours with energy carries
\* the charge recorded at that moment, and one next to an hour without energy carries
\* none (_align_history, merge_battery_efficiency_history).
THEOREM BoundariesStayTrue == Spec => []BoundariesTrue
<1>1. ASSUME BatteryInv
      PROVE  BoundariesTrue
  <2>1. SUFFICES ASSUME stored # None PROVE BoundariesTrue
    BY DEF BoundariesTrue
  <2>2. PICK lo \in Int, hi \in Int : HistoryOk(stored, lo, hi, {lo})
    BY <1>1, <2>1 DEF BatteryInv, Persisted
  <2>3. Min(Hours(stored)) = lo
    BY <2>2, RangeEnds DEF HistoryOk, Reaches
  <2>4. Charges(stored, {lo})
    BY <2>2 DEF HistoryOk
  <2>5. QED
    BY <2>3, <2>4 DEF BoundariesTrue, Charges
<1>2. QED
  BY <1>1, BatteryInvariant, PTL

\* An hour has energy on all legs or on none, and only while every leg and the state of
\* charge were usable in all of it (_align_history, _state_of_charge_series).
THEOREM EnergyStaysWhole == Spec => []EnergyIsWhole
<1>1. ASSUME BatteryInv
      PROVE  EnergyIsWhole
  <2>1. stored # None => Measured(stored)
    BY <1>1 DEF BatteryInv, Persisted, HistoryOk
  <2>2. QED
    BY <2>1 DEF EnergyIsWhole, Measured
<1>2. QED
  BY <1>1, BatteryInvariant, PTL

-----------------------------------------------------------------------------
(* The calculation. *)

\* The greater of two numbers.
LEMMA MaxOfTwo ==
  ASSUME NEW a \in Int, NEW b \in Int
  PROVE  Max({a, b}) = IF a >= b THEN a ELSE b
<1>1. IsFiniteSet({a, b})
  <2>1. IsFiniteSet({a}) /\ IsFiniteSet({b})
    BY FS_Singleton
  <2>2. IsFiniteSet({a} \cup {b}) /\ {a, b} = {a} \cup {b}
    BY <2>1, FS_Union
  <2>3. QED
    BY <2>2
<1>2. Max({a, b}) \in {a, b} /\ \A x \in {a, b} : x <= Max({a, b})
  BY <1>1, MaxIs
<1> DEFINE m == Max({a, b})
<1>3. (m = a \/ m = b) /\ a <= m /\ b <= m
  BY <1>2
<1> HIDE DEF m
<1>4. m = IF a >= b THEN a ELSE b
  BY <1>3
<1>5. QED
  BY <1>4 DEF m

\* A usable charge is a percentage.
LEMMA UsableCharge ==
  ASSUME battery \in Batteries, NEW t \in Int, Usable(t)
  PROVE  Charge(t) \in 0..100
<1>1. IsRecording(battery)
  BY BatteryAssumption DEF IsRecording
<1> DEFINE earlier == {u \in Reported(battery) : u <= t}
<1>2. InForce(battery, t) # Silent /\ InForce(battery, t).usable
  BY DEF Usable
<1>3. Max(earlier) \in earlier /\ InForce(battery, t) = battery[Max(earlier)]
  BY <1>1, <1>2, InForceIs
<1> HIDE DEF earlier
<1>4. Max(earlier) \in DOMAIN battery
  BY <1>3 DEF earlier, Reported
<1>5. QED
  BY <1>2, <1>3, <1>4, BatteryAssumption DEF Charge

\* What a battery without losses takes in and gives out in an hour in which its charge is
\* known is the change of its charge.
LEMMA HourBalances ==
  ASSUME battery \in Batteries, NEW h \in Int,
         \A t \in h * Width..(h + 1) * Width : Usable(t)
  PROVE  /\ In(h) \in Int /\ Out(h) \in Int
         /\ In(h) - Out(h) = Charge((h + 1) * Width) - Charge(h * Width)
<1> DEFINE from == h * Width + 1
           to == (h + 1) * Width
           f == [t \in DOMAIN Moves(h) |-> Max({0, Moves(h)[t]})]
           g == [t \in DOMAIN Moves(h) |-> Max({0, -Moves(h)[t]})]
           v == [t \in from..to + 1 |-> Charge(t - 1)]
<1>1. Width \in Nat \ {0}
  BY WidthAssumption
<1>2. h * Width \in Int /\ to \in Int /\ h * Width < to
  <2>1. h + 1 \in Int /\ h < h + 1
    OBVIOUS
  <2>2. QED
    BY <1>1, <2>1, HourTimes
<1>3. from \in Int /\ from <= to + 1 /\ from - 1 = h * Width /\ to + 1 - 1 = to
  BY <1>2
<1>4. DOMAIN Moves(h) = from..to
  BY DEF Moves
<1> HIDE DEF to
<1>5. ASSUME NEW t \in Int, from - 1 <= t, t <= to
      PROVE  Charge(t) \in Int
  <2>1. t \in h * Width..to
    BY <1>2, <1>3, <1>5
  <2>2. Charge(t) \in 0..100
    BY <2>1, UsableCharge DEF to
  <2>3. QED
    BY <2>2
<1>6. ASSUME NEW t \in from..to
      PROVE  /\ f[t] \in Int /\ g[t] \in Int /\ f[t] - g[t] = v[t + 1] - v[t]
  <2>1. /\ t \in Int /\ from - 1 <= t - 1 /\ t - 1 <= to /\ from - 1 <= t /\ t <= to
        /\ t - 1 \in Int /\ t \in from..to + 1 /\ t + 1 \in from..to + 1 /\ t + 1 - 1 = t
    BY <1>2, <1>3
  <2>2. Charge(t) \in Int /\ Charge(t - 1) \in Int
    BY <1>5, <2>1
  <2>3. Moves(h)[t] = Charge(t) - Charge(t - 1)
    BY DEF Moves, to
  <2> DEFINE m == Charge(t) - Charge(t - 1)
  <2>4. v[t + 1] = Charge(t) /\ v[t] = Charge(t - 1)
    BY <2>1
  <2>5. f[t] = Max({0, m}) /\ g[t] = Max({0, -m})
    BY <1>4, <2>3
  <2>6. m \in Int /\ -m \in Int /\ m = Charge(t) - Charge(t - 1)
    BY <2>2
  <2> HIDE DEF m, f, g, v
  <2>7. /\ f[t] = IF 0 >= m THEN 0 ELSE m
        /\ g[t] = IF 0 >= -m THEN 0 ELSE -m
    BY <2>5, <2>6, MaxOfTwo
  <2>8. QED
    BY <2>2, <2>4, <2>6, <2>7
<1>7. \A t \in from..to + 1 : v[t] \in Int
  <2>1. TAKE t \in from..to + 1
  <2>2. t - 1 \in Int /\ from - 1 <= t - 1 /\ t - 1 <= to
    BY <1>2, <1>3
  <2>3. QED
    BY <1>5, <2>2
<1>8. v[to + 1] = Charge(to) /\ v[from] = Charge(h * Width)
  <2>1. ASSUME NEW t \in Int, from - 1 <= t, t <= to
        PROVE  v[t + 1] = Charge(t)
    <3>1. t + 1 \in from..to + 1 /\ t + 1 - 1 = t
      BY <1>2, <1>3, <2>1
    <3>2. QED
      BY <3>1
  <2> HIDE DEF v, f, g
  <2>2. v[to + 1] = Charge(to)
    BY <1>2, <1>3, <2>1
  <2>3. v[h * Width + 1] = Charge(h * Width)
    BY <1>2, <1>3, <2>1
  <2>4. QED
    BY <2>2, <2>3
<1>9. In(h) = SumFunctionOnSet(f, from..to) /\ Out(h) = SumFunctionOnSet(g, from..to)
  BY <1>4 DEF In, Out, SumFunction
<1> HIDE DEF f, g, v, from
<1>10. SumFunctionOnSet(f, from..to) - SumFunctionOnSet(g, from..to) = v[to + 1] - v[from]
  <2>1. ChangesOf(f, g, v, from, to)
    BY <1>6, <1>7 DEF ChangesOf
  <2>2. QED
    BY <1>2, <1>3, <2>1, SumTelescopes
<1>11. SumFunctionOnSet(f, from..to) \in Int /\ SumFunctionOnSet(g, from..to) \in Int
  <2>1. IsFiniteSet(from..to)
    BY <1>2, <1>3, FS_Interval
  <2>2. QED
    BY <1>6, <2>1, SumType
<1>12. QED
  BY <1>8, <1>9, <1>10, <1>11 DEF to

\* A boundary that carries a charge carries the true one, and that is a percentage.
LEMMA KnownBoundary ==
  ASSUME battery \in Batteries, NEW history, NEW lo, NEW hi, NEW open,
         HistoryOk(history, lo, hi, open),
         NEW b \in DOMAIN history.soc, history.soc[b] # None
  PROVE  /\ b \in Int /\ lo <= b /\ b <= hi + 1
         /\ history.soc[b] = Charge(b * Width) /\ history.soc[b] \in 0..100
<1>1. /\ lo \in Int /\ hi \in Int /\ lo <= hi
      /\ Hours(history) = lo..hi /\ DOMAIN history.soc = lo..hi + 1
  BY DEF HistoryOk, Reaches
<1>2. b \in Int /\ lo <= b /\ b <= hi + 1
  BY <1>1
<1>3. /\ \A h \in {b - 1, b} \cap Hours(history) : history.energy[h] # None
      /\ history.soc[b] = Charge(b * Width)
  BY DEF HistoryOk, Charges
<1>4. PICK h \in {b - 1, b} : h \in Hours(history)
  BY <1>1, <1>2
<1>5. h \in Int /\ (b = h \/ b = h + 1)
  BY <1>2, <1>4
<1>6. \A t \in h * Width..(h + 1) * Width : Usable(t)
  BY <1>3, <1>4 DEF HistoryOk, Measured
<1>7. b * Width \in Int /\ b * Width \in h * Width..(h + 1) * Width
  <2>1. Width \in Nat \ {0}
    BY WidthAssumption
  <2>2. h + 1 \in Int /\ h < h + 1
    BY <1>5
  <2>3. h * Width \in Int /\ (h + 1) * Width \in Int /\ h * Width < (h + 1) * Width
    BY <1>5, <2>1, <2>2, HourTimes
  <2>4. QED
    BY <1>5, <2>3
<1>8. QED
  BY <1>2, <1>3, <1>6, <1>7, UsableCharge

\* Over hours that all have energy, what a battery without losses took in and gave out is
\* the difference of the charges at the ends.
LEMMA CycleBalances ==
  ASSUME battery \in Batteries, NEW history, NEW lo, NEW hi, NEW open,
         HistoryOk(history, lo, hi, open),
         NEW l \in DOMAIN history.soc, NEW r \in DOMAIN history.soc, l < r,
         history.soc[l] # None, history.soc[r] # None,
         \A h \in CycleHours(l, r) \cap Hours(history) : history.energy[h] # None
  PROVE  /\ Total(history, CycleHours(l, r), Charged) \in Int
         /\ Total(history, CycleHours(l, r), Discharged) \in Int
         /\ Total(history, CycleHours(l, r), Charged)
              - Total(history, CycleHours(l, r), Discharged) = history.soc[r] - history.soc[l]
<1> DEFINE S == l..r - 1
           f == [h \in S |-> Charged(history.energy[h])]
           g == [h \in S |-> Discharged(history.energy[h])]
           v == [b \in l..r |-> Charge(b * Width)]
           in == Total(history, CycleHours(l, r), Charged)
           out == Total(history, CycleHours(l, r), Discharged)
<1>1. /\ lo \in Int /\ hi \in Int /\ lo <= hi /\ Hours(history) = lo..hi
      /\ l \in Int /\ lo <= l /\ r \in Int /\ r <= hi + 1 /\ l <= r - 1
      /\ history.soc[l] = Charge(l * Width) /\ history.soc[r] = Charge(r * Width)
  <2>1. /\ lo \in Int /\ hi \in Int /\ lo <= hi /\ Hours(history) = lo..hi
    BY DEF HistoryOk, Reaches
  <2>2. /\ l \in Int /\ lo <= l /\ r \in Int /\ r <= hi + 1
        /\ history.soc[l] = Charge(l * Width) /\ history.soc[r] = Charge(r * Width)
    BY KnownBoundary
  <2>3. QED
    BY <2>1, <2>2
<1>2. S \subseteq Hours(history) /\ S \subseteq Int
  BY <1>1
<1>3. {h \in CycleHours(l, r) \cap Hours(history) : history.energy[h] # None} = S
  BY <1>2 DEF CycleHours
<1>4. in = SumFunctionOnSet(f, S) /\ out = SumFunctionOnSet(g, S)
  <2>1. DOMAIN f = S /\ DOMAIN g = S
    OBVIOUS
  <2>2. in = SumFunction(f) /\ out = SumFunction(g)
    <3> HIDE DEF S
    <3>1. QED
      BY <1>3 DEF Total
  <2> HIDE DEF f, g, S
  <2>3. QED
    BY <2>1, <2>2 DEF SumFunction
<1>5. ASSUME NEW h \in S
      PROVE  /\ f[h] = In(h) /\ g[h] = Out(h) /\ In(h) \in Int /\ Out(h) \in Int
             /\ In(h) - Out(h) = Charge((h + 1) * Width) - Charge(h * Width)
             /\ \A t \in h * Width..(h + 1) * Width : Usable(t)
  <2>1. h \in Int /\ h \in Hours(history) /\ history.energy[h] # None
    BY <1>2, <1>3, <1>5
  <2>2. /\ history.energy[h] = [in |-> In(h), out |-> Out(h)]
        /\ \A t \in h * Width..(h + 1) * Width : Usable(t)
    BY <2>1 DEF HistoryOk, Measured
  <2>3. f[h] = In(h) /\ g[h] = Out(h)
    <3> HIDE DEF S
    <3>1. QED
      BY <1>5, <2>2 DEF Charged, Discharged
  <2> HIDE DEF f, g, v, in, out
  <2>4. /\ In(h) \in Int /\ Out(h) \in Int
        /\ In(h) - Out(h) = Charge((h + 1) * Width) - Charge(h * Width)
    BY <2>1, <2>2, HourBalances
  <2>5. QED
    BY <2>2, <2>3, <2>4
<1>6. ASSUME NEW b \in l..r
      PROVE  v[b] = Charge(b * Width) /\ v[b] \in Int
  <2>1. PICK h \in S : b = h \/ b = h + 1
    BY <1>1, <1>6
  <2>2. \A t \in h * Width..(h + 1) * Width : Usable(t)
    BY <1>5
  <2>3. h \in Int
    BY <1>1
  <2>4. b * Width \in Int /\ b * Width \in h * Width..(h + 1) * Width
    <3>1. Width \in Nat \ {0}
      BY WidthAssumption
    <3>2. h + 1 \in Int /\ h < h + 1
      BY <2>3
    <3>3. h * Width \in Int /\ (h + 1) * Width \in Int /\ h * Width < (h + 1) * Width
      BY <2>3, <3>1, <3>2, HourTimes
    <3>4. QED
      BY <2>1, <3>3
  <2>5. Charge(b * Width) \in 0..100
    BY <2>2, <2>4, UsableCharge
  <2>6. v[b] = Charge(b * Width)
    OBVIOUS
  <2>7. QED
    BY <2>5, <2>6
<1> HIDE DEF f, g, v, in, out
<1>7. ChangesOf(f, g, v, l, r - 1)
  <2>1. ASSUME NEW h \in l..r - 1
        PROVE  f[h] \in Int /\ g[h] \in Int /\ f[h] - g[h] = v[h + 1] - v[h]
    <3>1. h \in l..r /\ h + 1 \in l..r
      BY <1>1
    <3>2. v[h + 1] = Charge((h + 1) * Width) /\ v[h] = Charge(h * Width)
      BY <1>6, <3>1
    <3>3. QED
      BY <1>5, <3>2
  <2>2. l..r - 1 + 1 = l..r
    BY <1>1
  <2>3. \A b \in l..r - 1 + 1 : v[b] \in Int
    BY <1>6, <2>2
  <2>4. QED
    BY <2>1, <2>3 DEF ChangesOf
<1>8. in - out = v[r] - v[l]
  <2>1. r - 1 \in Int /\ l <= r - 1 + 1 /\ r - 1 + 1 = r
    BY <1>1
  <2>2. SumFunctionOnSet(f, l..r - 1) - SumFunctionOnSet(g, l..r - 1) = v[r - 1 + 1] - v[l]
    BY ONLY <1>1, <1>7, <2>1, SumTelescopes
  <2>3. QED
    BY <1>4, <2>1, <2>2
<1>9. v[r] = history.soc[r] /\ v[l] = history.soc[l]
  <2>1. l \in l..r /\ r \in l..r
    BY <1>1
  <2>2. QED
    BY <1>1, <1>6, <2>1
<1>10. in \in Int /\ out \in Int
  <2>1. IsFiniteSet(S)
    BY <1>1, FS_Interval
  <2>2. (\A h \in S : f[h] \in Int) /\ (\A h \in S : g[h] \in Int)
    BY <1>5
  <2> HIDE DEF S
  <2>3. SumFunctionOnSet(f, S) \in Int /\ SumFunctionOnSet(g, S) \in Int
    BY <2>1, <2>2, SumType
  <2>4. QED
    BY <1>4, <2>3
<1>11. QED
  BY <1>8, <1>9, <1>10 DEF in, out

\* No hour of a history that is true looks impossible.
LEMMA NothingImpossible ==
  ASSUME battery \in Batteries, NEW history, NEW lo, NEW hi, NEW open,
         HistoryOk(history, lo, hi, open)
  PROVE  Impossible(history) = {}
<1>1. SUFFICES ASSUME NEW h \in Hours(history), history.energy[h] # None,
                      history.soc[h] # None, history.soc[h + 1] # None
               PROVE  LET e == history.energy[h]
                          change == history.soc[h + 1] - history.soc[h]
                      IN ~(\/ e.in > 0 /\ e.out = 0 /\ change > e.in
                           \/ e.out > 0 /\ e.in = 0 /\ e.out + change > 0)
  BY DEF Impossible
<1>2. h \in Int /\ h \in DOMAIN history.soc /\ h + 1 \in DOMAIN history.soc
  BY DEF HistoryOk, Reaches
<1>3. history.soc[h] = Charge(h * Width) /\ history.soc[h + 1] = Charge((h + 1) * Width)
  BY <1>1, <1>2, KnownBoundary
<1>4. /\ history.energy[h] = [in |-> In(h), out |-> Out(h)]
      /\ \A t \in h * Width..(h + 1) * Width : Usable(t)
  BY <1>1 DEF HistoryOk, Measured
<1>5. /\ In(h) \in Int /\ Out(h) \in Int
      /\ In(h) - Out(h) = Charge((h + 1) * Width) - Charge(h * Width)
  BY <1>2, <1>4, HourBalances
<1>6. history.soc[h] \in 0..100 /\ history.soc[h + 1] \in 0..100
  BY <1>1, <1>2, KnownBoundary
<1>7. history.energy[h].in = In(h) /\ history.energy[h].out = Out(h)
  BY <1>4
<1>8. QED
  BY <1>3, <1>5, <1>6, <1>7

\* What the counted cycles took in and gave out differs by what full states differ.
LEMMA CyclesBalance ==
  ASSUME battery \in Batteries, NEW history, NEW lo, NEW hi, NEW open,
         HistoryOk(history, lo, hi, open)
  PROVE  InCycles(history, Charged) - InCycles(history, Discharged)
           \in -((100 - Full) * Cardinality(Cycles(history)))
               ..(100 - Full) * Cardinality(Cycles(history))
<1> DEFINE full == FullBoundaries(history)
           C == Cycles(history)
           K == 100 - Full
           f == [c \in C |-> Total(history, CycleHours(c[1], c[2]), Charged)]
           g == [c \in C |-> Total(history, CycleHours(c[1], c[2]), Discharged)]
<1>1. full \subseteq DOMAIN history.soc
  BY DEF FullBoundaries
<1>2. /\ Full \in Int /\ 1 <= Full /\ Full <= 100 /\ K \in Nat
  BY EfficiencyAssumption
<1>3. ASSUME NEW b \in full
      PROVE  history.soc[b] # None /\ history.soc[b] \in Full..100
  <2>1. b \in DOMAIN history.soc /\ history.soc[b] # None /\ history.soc[b] >= Full
    BY <1>3 DEF FullBoundaries
  <2>2. history.soc[b] \in 0..100
    BY <2>1, KnownBoundary
  <2>3. QED
    BY <1>2, <2>1, <2>2
<1>4. IsFiniteSet(C)
  <2>1. lo \in Int /\ hi \in Int /\ DOMAIN history.soc = lo..hi + 1
    BY DEF HistoryOk, Reaches
  <2>2. IsFiniteSet(DOMAIN history.soc)
    BY <2>1, FS_Interval
  <2>3. IsFiniteSet(full)
    BY <1>1, <2>2, FS_Subset
  <2> HIDE DEF full
  <2>4. IsFiniteSet(full \X full)
    BY <2>3, FS_Product
  <2>5. C \subseteq full \X full
    BY DEF Cycles, full
  <2>6. QED
    BY <2>4, <2>5, FS_Subset
<1>5. ASSUME NEW c \in C
      PROVE  f[c] \in Int /\ g[c] \in Int /\ f[c] - g[c] \in -K..K
  <2>1. /\ c[1] \in full /\ c[2] \in full /\ c[1] < c[2]
        /\ \A h \in CycleHours(c[1], c[2]) \cap Hours(history) : history.energy[h] # None
    BY <1>5 DEF Cycles, full
  <2> HIDE DEF full
  <2>2. /\ c[1] \in DOMAIN history.soc /\ c[2] \in DOMAIN history.soc
        /\ history.soc[c[1]] # None /\ history.soc[c[2]] # None
        /\ history.soc[c[1]] \in Full..100 /\ history.soc[c[2]] \in Full..100
    BY <1>1, <1>3, <2>1
  <2> DEFINE in == Total(history, CycleHours(c[1], c[2]), Charged)
             out == Total(history, CycleHours(c[1], c[2]), Discharged)
  <2>3. f[c] = in /\ g[c] = out
    OBVIOUS
  <2> HIDE DEF f, g, C
  <2>4. in \in Int /\ out \in Int /\ in - out = history.soc[c[2]] - history.soc[c[1]]
    BY <2>1, <2>2, CycleBalances
  <2> HIDE DEF in, out
  <2>5. QED
    BY <1>2, <2>2, <2>3, <2>4
<1>6. InCycles(history, Charged) = SumFunctionOnSet(f, C)
      /\ InCycles(history, Discharged) = SumFunctionOnSet(g, C)
  BY DEF InCycles, SumFunction
<1> HIDE DEF f, g, C, K
<1>7. SumFunctionOnSet(f, C) - SumFunctionOnSet(g, C)
        \in -(K * Cardinality(C))..K * Cardinality(C)
  BY ONLY <1>2, <1>4, <1>5, SumsDiffer
<1>8. QED
  BY <1>6, <1>7 DEF C, K

\* What history_start selects of a history is true as well.
LEMMA SelectedIs ==
  ASSUME NEW history, NEW lo \in Int, NEW hi \in Int, HistoryOk(history, lo, hi, {lo}),
         NEW from \in HistoryStarts
  PROVE  \/ Selected(history, from) = None
         \/ \E l \in Int : HistoryOk(Selected(history, from), l, hi, {l})
<1> DEFINE first == Max({lo, from})
           count == hi + 1 - first
<1>1. CASE from = None
  BY <1>1 DEF Selected
<1>2. CASE from # None
  <2>1. from \in Int
    BY <1>2, StartAssumption
  <2>2. Max(Hours(history)) = hi /\ Min(Hours(history)) = lo
    BY RangeEnds DEF HistoryOk, Reaches
  <2>3. Selected(history, from) = IF count <= 0 THEN None ELSE Bounded(history, count)
    BY <1>2, <2>2 DEF Selected
  <2>4. first \in Int
    BY <2>1, MaxOfTwo
  <2> HIDE DEF first
  <2>5. count \in Int
    BY <2>4
  <2> HIDE DEF count
  <2>6. CASE count <= 0
    BY <2>3, <2>6
  <2>7. CASE ~(count <= 0)
    <3>1. count \in Nat \ {0}
      BY <2>5, <2>7
    <3>2. \E l \in Int : hi - l < count /\ HistoryOk(Bounded(history, count), l, hi, {l})
      BY <3>1, BoundedIs
    <3>3. QED
      BY <2>3, <2>7, <3>2
  <2>8. QED
    BY <2>6, <2>7
<1>3. QED
  BY <1>1, <1>2

\* What is calculated from a history that is true of a battery without losses shows none.
LEMMA CalculatedIs ==
  ASSUME battery \in Batteries, NEW whole, NEW lo \in Int, NEW hi \in Int,
         HistoryOk(whole, lo, hi, {lo}), NEW from \in HistoryStarts, NEW known \in BOOLEAN,
         "cycles" \in DOMAIN Calculated(whole, from, known)
  PROVE  LET calculated == Calculated(whole, from, known)
         IN /\ calculated.in - calculated.out
                 \in -((100 - Full) * calculated.cycles)..(100 - Full) * calculated.cycles
            /\ calculated.impossible = {}
<1> DEFINE history == Selected(whole, from)
           calculated == Calculated(whole, from, known)
           n == Cardinality(Cycles(history))
           in == InCycles(history, Charged)
           out == InCycles(history, Discharged)
<1>1. history # None
  <2>1. SUFFICES ASSUME history = None PROVE FALSE
    OBVIOUS
  <2>2. Calculated(whole, from, known) = [status |-> "invalid"]
    BY <2>1 DEF Calculated
  <2>3. DOMAIN Calculated(whole, from, known) = {"status"}
    BY <2>2
  <2>4. QED
    BY <2>3
<1>2. PICK l \in Int : HistoryOk(history, l, hi, {l})
  BY <1>1, SelectedIs
<1>3. /\ calculated.in = in /\ calculated.out = out /\ calculated.cycles = n
      /\ calculated.impossible = IF known THEN Impossible(history) ELSE {}
  <2> HIDE DEF history
  <2>1. QED
    BY <1>1 DEF Calculated, history
<1> HIDE DEF history, calculated
<1>4. in - out \in -((100 - Full) * n)..(100 - Full) * n
  BY <1>2, CyclesBalance
<1>5. Impossible(history) = {}
  BY <1>2, NothingImpossible
<1> HIDE DEF in, out, n
<1>6. QED
  BY <1>3, <1>4, <1>5 DEF calculated

\* A result was calculated from what is persisted.
ResultInv ==
  result # None =>
    /\ \E lo, hi \in Int : Persisted(stored, lo, hi, clock)
    /\ \E from \in HistoryStarts, known \in BOOLEAN : result = Calculated(stored, from, known)

\* Every step keeps that.
LEMMA ResultStep ==
  ASSUME BatteryInv, ResultInv, [Next]_vars
  PROVE  ResultInv'
<1>1. CASE \E from \in HistoryStarts, known \in BOOLEAN : Run(from, known)
  <2>1. PICK from \in HistoryStarts, known \in BOOLEAN : Run(from, known)
    BY <1>1
  <2>2. /\ \E lo, hi \in Int : Persisted(stored', lo, hi, clock)
        /\ result' = Calculated(stored', from, known)
    BY <2>1, RunKeeps
  <2>3. QED
    BY <2>2, StillPersisted DEF ResultInv
<1>2. CASE UNCHANGED <<stored, result>>
  <2>1. SUFFICES ASSUME result # None
                 PROVE  /\ \E lo, hi \in Int : Persisted(stored', lo, hi, clock)
                        /\ \E from \in HistoryStarts, known \in BOOLEAN :
                             result' = Calculated(stored', from, known)
    BY <1>2, StillPersisted DEF ResultInv
  <2>2. QED
    BY <1>2, <2>1 DEF ResultInv
<1>3. QED
  BY <1>1, <1>2 DEF Next, Tick, Purge, vars

\* Nothing is calculated at first.
LEMMA ResultInvariant == Spec => []ResultInv
<1>1. Init => ResultInv
  BY DEF Init, ResultInv
<1>2. BatteryInv /\ ResultInv /\ [Next]_vars => ResultInv'
  BY ResultStep
<1>3. QED
  BY <1>1, <1>2, BatteryInvariant, PTL DEF Spec

\* A battery without losses shows none, whatever was imported, excluded, purged and
\* selected: what the counted cycles put in and took out differs by no more than full
\* states differ, and no hour looks impossible (_select_history, the full boundaries and
\* cycles of calculate_battery_efficiency, _check_state_of_charge_balance).
THEOREM LosslessBatteryShowsNoLoss == Spec => []LosslessShowsNoLoss
<1>1. ASSUME BatteryInv, ResultInv
      PROVE  LosslessShowsNoLoss
  <2>1. SUFFICES ASSUME result # None, "cycles" \in DOMAIN result
                 PROVE  /\ result.in - result.out
                             \in -((100 - Full) * result.cycles)..(100 - Full) * result.cycles
                        /\ result.impossible = {}
    BY DEF LosslessShowsNoLoss
  <2>2. PICK lo \in Int, hi \in Int : HistoryOk(stored, lo, hi, {lo})
    BY <1>1, <2>1 DEF ResultInv, Persisted
  <2>3. PICK from \in HistoryStarts, known \in BOOLEAN : result = Calculated(stored, from, known)
    BY <1>1, <2>1 DEF ResultInv
  <2>4. battery \in Batteries
    BY <1>1 DEF BatteryInv
  <2>5. QED
    BY <2>1, <2>2, <2>3, <2>4, CalculatedIs
<1>2. QED
  BY <1>1, BatteryInvariant, ResultInvariant, PTL
=============================================================================
