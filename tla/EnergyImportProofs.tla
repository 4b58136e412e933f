-------------------------- MODULE EnergyImportProofs --------------------------
(***************************************************************************)
(* Theorems about EnergyImport, for any recordings with finitely many      *)
(* reports of any counters, any channels, retention, hour width, maximum   *)
(* and lookback, and any number of hours and purges: a stored history is   *)
(* always one that can be loaded, its hours hold what the counters gained, *)
(* no later import changes an hour of it, and a source whose counters are  *)
(* all usable is current.                                                  *)
(***************************************************************************)
EXTENDS EnergyImport, HistorySeriesProofs

-----------------------------------------------------------------------------
(* Hours. *)

\* The next full hour of a time at or after a boundary is not before it.
LEMMA FullHourIs ==
  ASSUME NEW t \in Int, NEW a \in Int, a * Width <= t
  PROVE  FullHour(t) \in Int /\ a <= FullHour(t)
<1> DEFINE m == -t
           q == m \div Width
<1>1. Width \in Nat \ {0}
  BY WidthAssumption
<1>2. m \in Int /\ q \in Int /\ q * Width <= m
  BY <1>1, HourDivision
<1>3. a * Width \in Int
  BY <1>1, HourTimes
<1>4. q * Width \in Int /\ q * Width <= -(a * Width)
  BY <1>1, <1>2, <1>3, HourTimes
<1>5. -(a * Width) = (-a) * Width
  BY <1>1
<1> HIDE DEF q, m
<1>6. q <= -a
  <2>1. -a \in Int /\ q * Width <= (-a) * Width
    BY <1>4, <1>5
  <2>2. QED
    BY <1>1, <1>2, <2>1, HourTimes
<1>7. FullHour(t) = -q
  BY DEF FullHour, q, m
<1>8. QED
  BY <1>2, <1>6, <1>7

\* The hour of a time is at most h if it is not after its end, and at least h if it is
\* after its start.
LEMMA HourIndexIs ==
  ASSUME NEW t \in Int, NEW h \in Int
  PROVE  /\ t <= (h + 1) * Width <=> HourIndex(t) <= h
         /\ h * Width < t <=> h <= HourIndex(t)
         /\ HourIndex(t) \in Int
<1> DEFINE m == -t
           q == m \div Width
           u == (h + 1) * Width
           l == h * Width
           x == q * Width
<1>1. Width \in Nat \ {0}
  BY WidthAssumption
<1>2. m \in Int /\ q \in Int /\ x <= m /\ m < x + Width
  BY <1>1, HourDivision
<1>3. HourIndex(t) = -q - 1
  BY DEF HourIndex, q, m
<1> HIDE DEF q
<1>4. /\ u \in Int /\ l \in Int /\ x \in Int /\ (q + 1) * Width = x + Width
      /\ -u = (-(h + 1)) * Width /\ -l = (-h) * Width
  BY <1>1, <1>2
<1>5. /\ -(h + 1) < q + 1 <=> (-(h + 1)) * Width < (q + 1) * Width
      /\ q < -h <=> q * Width < (-h) * Width
      /\ -(h + 1) <= q <=> (-(h + 1)) * Width <= q * Width
      /\ q + 1 <= -h <=> (q + 1) * Width <= (-h) * Width
  <2>1. -(h + 1) \in Int /\ q + 1 \in Int /\ -h \in Int
    BY <1>2
  <2> DEFINE a == -(h + 1)
             b == -h
             c == q + 1
  <2>2. a \in Int /\ b \in Int /\ c \in Int
    BY <2>1
  <2> HIDE DEF a, b, c
  <2>3. /\ a < c <=> a * Width < c * Width
        /\ q < b <=> q * Width < b * Width
        /\ a <= q <=> a * Width <= q * Width
        /\ c <= b <=> c * Width <= b * Width
    BY <1>1, <1>2, <2>2, HourTimes
  <2>4. QED
    BY <2>3 DEF a, b, c
<1>9. t \in Int /\ m = -t
  OBVIOUS
<1> HIDE DEF u, l, x, m
<1>6. t <= u <=> HourIndex(t) <= h
  <2>1. t <= u => -u < x + Width
    BY <1>1, <1>2, <1>4, <1>9
  <2>2. t <= u => -(h + 1) < q + 1
    BY <1>4, <1>5, <2>1
  <2>3. t <= u => HourIndex(t) <= h
    BY <1>2, <1>3, <2>2
  <2>4. HourIndex(t) <= h => -(h + 1) <= q
    BY <1>2, <1>3
  <2>5. HourIndex(t) <= h => -u <= x
    BY <1>4, <1>5, <2>4 DEF x
  <2>6. HourIndex(t) <= h => t <= u
    BY <1>1, <1>2, <1>4, <1>9, <2>5
  <2>7. QED
    BY <2>3, <2>6
<1>7. l < t <=> h <= HourIndex(t)
  <2>1. l < t => x < -l
    BY <1>1, <1>2, <1>4, <1>9
  <2>2. l < t => q < -h
    BY <1>4, <1>5, <2>1 DEF x
  <2>3. l < t => h <= HourIndex(t)
    BY <1>2, <1>3, <2>2
  <2>4. h <= HourIndex(t) => q + 1 <= -h
    BY <1>2, <1>3
  <2>5. h <= HourIndex(t) => x + Width <= -l
    BY <1>4, <1>5, <2>4
  <2>6. h <= HourIndex(t) => l < t
    BY <1>1, <1>2, <1>4, <1>9, <2>5
  <2>7. QED
    BY <2>3, <2>6
<1>8. QED
  BY <1>2, <1>3, <1>6, <1>7 DEF u, l

\* The first hour of a series begins at or after its first sample.
LEMMA StartIs ==
  ASSUME NEW t \in Int, NEW a \in Int
  PROVE  LET start == IF t <= a * Width THEN a * Width ELSE FullHour(t) * Width
         IN /\ start \in Int /\ t <= start
            /\ start \div Width \in Int /\ (start \div Width) * Width = start
<1> DEFINE from == a * Width
           start == IF t <= from THEN from ELSE FullHour(t) * Width
           m == -t
           q == m \div Width
<1>1. Width \in Nat \ {0}
  BY WidthAssumption
<1>2. from \in Int
  BY <1>1, HourTimes
<1>3. m \in Int /\ q \in Int /\ q * Width <= m
  BY <1>1, HourDivision
<1>4. FullHour(t) = -q
  BY DEF FullHour
<1> HIDE DEF q
<1>5. /\ FullHour(t) \in Int /\ q * Width \in Int
      /\ FullHour(t) * Width = -(q * Width)
  BY <1>1, <1>3, <1>4
<1>6. t <= FullHour(t) * Width /\ FullHour(t) * Width \in Int
  <2> DEFINE x == q * Width
  <2>1. x \in Int /\ x <= -t /\ FullHour(t) * Width = -x
    BY <1>3, <1>5
  <2> HIDE DEF x
  <2>2. QED
    BY <2>1
<1>7. CASE t <= from
  <2>1. start = a * Width
    BY <1>7
  <2>2. (a * Width) \div Width = a
    BY <1>1, HourOfBoundary
  <2>3. start \in Int /\ t <= start
    BY <1>2, <1>7, <2>1
  <2> HIDE DEF start
  <2>4. QED
    BY <2>1, <2>2, <2>3 DEF start
<1>8. CASE ~(t <= from)
  <2>1. start = FullHour(t) * Width
    BY <1>8
  <2>2. (FullHour(t) * Width) \div Width = FullHour(t)
    BY <1>1, <1>5, HourOfBoundary
  <2>3. start \in Int /\ t <= start
    BY <1>6, <2>1
  <2> HIDE DEF start
  <2>4. QED
    BY <1>5, <2>1, <2>2, <2>3 DEF start
<1>9. QED
  BY <1>7, <1>8

-----------------------------------------------------------------------------
(* One entity. *)

\* Every hour asked for is counted.
LEMMA CountedIs ==
  ASSUME NEW walked, NEW hours
  PROVE  DOMAIN Counted(walked, hours) = hours
BY TabulatedIs DEF Counted

\* What a source reads of one entity.
LEMMA SamplesAre ==
  ASSUME NEW recording, IsRecording(recording), NEW from \in Int, NEW to \in Int, from < to
  PROVE  LET samples == Samples(recording, from, to)
         IN /\ samples \in Seq(Told(recording))
            /\ \A i \in DOMAIN samples : /\ from - Lookback <= samples[i].at
                                         /\ samples[i].at <= to
                                         /\ samples[i].report # Silent
            /\ \A i, j \in DOMAIN samples : i < j => samples[i].at < samples[j].at
            /\ \A t \in Reported(recording) :
                 from - Lookback <= t /\ t <= to => t \in Times(samples)
<1> DEFINE low == from - Lookback
<1>1. low \in Int /\ low < to
  BY BoundAssumption
<1>2. Samples(recording, from, to) = WholeWindow(recording, low, to)
  BY DEF Samples, WholeWindow
<1> HIDE DEF low
<1>3. LET samples == Samples(recording, from, to)
      IN /\ samples \in Seq(Told(recording))
         /\ \A i \in DOMAIN samples : /\ low <= samples[i].at /\ samples[i].at <= to
                                      /\ samples[i].report # Silent
         /\ \A i, j \in DOMAIN samples : i < j => samples[i].at < samples[j].at
         /\ \A t \in Reported(recording) : low <= t /\ t <= to => t \in Times(samples)
  BY <1>1, <1>2, WholeWindowIs
<1>4. QED
  BY <1>3 DEF low

\* The walk of normalize_counter_history ends with the last sample.
LEMMA WalkedIs ==
  ASSUME NEW T, NEW s \in Seq(T), s # <<>>, NEW start, NEW to \in Int,
         \A i \in DOMAIN s : s[i].at \in Int /\ s[i].at <= to
  PROVE  LET walked == Walked(s, start, to)
         IN /\ DOMAIN walked = 1..Len(walked) /\ Len(walked) \in Nat \ {0}
            /\ \A k \in DOMAIN walked : walked[k].at \in Int /\ walked[k].at <= to
            /\ Last(walked) = s[Len(s)]
<1> DEFINE n == Len(s)
           upTo == Cardinality({i \in DOMAIN s : s[i].at <= start})
           low == Max({upTo, 1})
           I == {i \in DOMAIN s : i >= low /\ s[i].at <= to}
           walked == Walked(s, start, to)
           m == Cardinality(I)
           p == Ascending(I)
<1>1. n \in Nat /\ n \in 1..n /\ DOMAIN s = 1..n /\ 1 <= n
  BY EmptySeq
<1>2. upTo \in Nat /\ upTo <= n
  <2> DEFINE U == {i \in DOMAIN s : s[i].at <= start}
  <2>1. U \in SUBSET (1..n)
    BY <1>1
  <2>2. IsFiniteSet(1..n) /\ Cardinality(1..n) = IF 1 > n THEN 0 ELSE n - 1 + 1
    BY <1>1, FS_Interval
  <2>3. IsFiniteSet(U) /\ Cardinality(U) <= Cardinality(1..n)
    BY <2>1, <2>2, FS_Subset
  <2>4. Cardinality(U) \in Nat
    BY <2>3, FS_CardinalityType
  <2>5. QED
    BY <1>1, <2>2, <2>3, <2>4
<1> HIDE DEF upTo
<1>3. low \in Int /\ low <= n
  <2> DEFINE J == {upTo, 1}
  <2>1. J \in SUBSET Int /\ J # {}
    BY <1>2
  <2>2. IsFiniteSet({upTo}) /\ IsFiniteSet({1})
    BY FS_Singleton
  <2>3. IsFiniteSet(J)
    <3>1. J = {upTo} \cup {1}
      OBVIOUS
    <3>2. QED
      BY <2>2, <3>1, FS_Union
  <2>4. Max(J) \in J
    BY <2>1, <2>3, MaxIs
  <2>5. Max(J) = upTo \/ Max(J) = 1
    BY <2>4
  <2>6. QED
    BY <1>1, <1>2, <2>5
<1>4. walked = Picked(s, I)
  BY DEF Walked, upTo
<1> HIDE DEF low, walked
<1>5. I \in SUBSET (1..n) /\ n \in I
  BY <1>1, <1>3
<1>6. I \in SUBSET Int /\ IsFiniteSet(I) /\ \A i \in I : i <= n
  <2>1. \A i \in 1..n : i <= n
    BY <1>1
  <2>2. \A i \in I : i \in 1..n
    BY <1>5
  <2>3. I \in SUBSET Int /\ IsFiniteSet(I)
    BY <1>1, <1>5, PlacesFinite
  <2>4. QED
    BY <2>1, <2>2, <2>3
<1>7. \A i \in I : s[i].at \in Int /\ s[i].at <= to /\ s[i] \in T
  BY <1>1
<1> HIDE DEF I
<1>8. /\ m \in Nat /\ p \in [1..m -> I]
      /\ \A x \in I : \E k \in 1..m : p[k] = x
      /\ \A j, k \in 1..m : j < k => p[j] < p[k]
  BY <1>6, AscendingIs
<1>9. /\ DOMAIN walked = 1..m
      /\ \A k \in 1..m : walked[k] = s[p[k]]
      /\ (\A i \in I : s[i] \in T) => walked \in Seq(T)
  BY <1>4, <1>6, PickedIs
<1> HIDE DEF p, m
<1>10. PICK k \in 1..m : p[k] = n
  BY <1>5, <1>8
<1>11. k = m /\ m \in 1..m
  <2>1. k < m => FALSE
    <3>1. SUFFICES ASSUME k < m PROVE FALSE
      OBVIOUS
    <3>2. m \in 1..m /\ p[k] < p[m] /\ p[m] \in I
      BY <1>8, <1>10, <3>1
    <3>3. p[m] <= n /\ p[m] \in Int
      BY <1>6, <3>2
    <3>4. QED
      BY <1>1, <1>10, <3>2, <3>3
  <2>2. QED
    BY <1>8, <1>10, <2>1
<1>12. walked \in Seq(T) /\ Len(walked) = m
  BY <1>7, <1>8, <1>9
<1>13. \A j \in DOMAIN walked : walked[j].at \in Int /\ walked[j].at <= to
  BY <1>7, <1>8, <1>9
<1>14. Last(walked) = s[n]
  BY <1>9, <1>10, <1>11, <1>12 DEF Last
<1>15. m \in Nat \ {0}
  BY <1>8, <1>11
<1>16. QED
  BY <1>9, <1>12, <1>13, <1>14, <1>15 DEF walked

\* The time a series is current up to is not after the period, and is its end if the
\* last state is usable.
LEMMA LatestIs ==
  ASSUME NEW walked, NEW to \in Int,
         DOMAIN walked = 1..Len(walked), Len(walked) \in Nat \ {0},
         \A k \in DOMAIN walked : walked[k].at \in Int /\ walked[k].at <= to
  PROVE  /\ Latest(walked, to) \in Int /\ Latest(walked, to) <= to
         /\ Last(walked).report.usable => Latest(walked, to) = to
<1> DEFINE U == {i \in DOMAIN walked : walked[i].report.usable}
           usable == {walked[i].at : i \in U}
<1>1. Latest(walked, to) = IF Last(walked).report.usable THEN to
                           ELSE IF usable = {} THEN walked[1].at ELSE Max(usable)
  BY DEF Latest
<1>2. 1 \in DOMAIN walked
  OBVIOUS
<1>3. usable \in SUBSET Int /\ IsFiniteSet(usable)
  <2> DEFINE f == [i \in U |-> walked[i].at]
  <2>1. U \in SUBSET (1..Len(walked))
    OBVIOUS
  <2>2. IsFiniteSet(U)
    BY <2>1, PlacesFinite
  <2>3. f \in Surjection(U, usable)
    BY DEF Surjection
  <2>4. IsFiniteSet(usable)
    BY <2>2, <2>3, FS_Surjection
  <2>5. QED
    BY <2>4
<1>4. \A u \in usable : u \in Int /\ u <= to
  OBVIOUS
<1> HIDE DEF usable
<1>5. usable # {} => Max(usable) \in usable
  BY <1>3, MaxIs
<1>6. QED
  BY <1>1, <1>2, <1>4, <1>5

\* A series holds hours of the period only, at least one.
LEMMA NormalizedIs ==
  ASSUME NEW recording, IsRecording(recording), NEW a \in Int, NEW b \in Int, a < b
  PROVE  LET from == a * Width
             to == b * Width
             series == Normalized(Samples(recording, from, to), from, to)
         IN ~Failed(series) =>
              /\ Covered(series) # {} /\ Covered(series) \in SUBSET (a..b - 1)
              /\ series.latest \in Int /\ series.latest <= to
              /\ InForce(recording, to) # Silent
              /\ InForce(recording, to).usable => series.latest = to
<1> DEFINE from == a * Width
           to == b * Width
           samples == Samples(recording, from, to)
           series == Normalized(samples, from, to)
           start == IF samples[1].at <= from THEN from ELSE FullHour(samples[1].at) * Width
           hours == start \div Width..(to \div Width) - 1
           walked == Walked(samples, start, to)
           T == Told(recording)
<1>1. Width \in Nat \ {0}
  BY WidthAssumption
<1>2. from \in Int /\ to \in Int /\ from < to
  BY <1>1, HourTimes
<1>3. to \div Width = b
  BY <1>1, HourOfBoundary
<1>4. /\ samples \in Seq(T)
      /\ \A i \in DOMAIN samples : /\ from - Lookback <= samples[i].at
                                   /\ samples[i].at <= to /\ samples[i].report # Silent
      /\ \A i, j \in DOMAIN samples : i < j => samples[i].at < samples[j].at
      /\ \A t \in Reported(recording) :
           from - Lookback <= t /\ t <= to => t \in Times(samples)
  BY <1>2, SamplesAre
<1> SUFFICES ASSUME ~Failed(series)
             PROVE  /\ Covered(series) # {} /\ Covered(series) \in SUBSET (a..b - 1)
                    /\ series.latest \in Int /\ series.latest <= to
                    /\ InForce(recording, to) # Silent
                    /\ InForce(recording, to).usable => series.latest = to
  OBVIOUS
<1>5. \A why : Failed(Error(why))
  BY DEF Failed, Error
<1>6. /\ samples # <<>> /\ hours # {}
      /\ series = [hours |-> Counted(walked, hours), latest |-> Latest(walked, to)]
  BY <1>5 DEF Normalized
<1>7. Covered(series) = hours /\ series.latest = Latest(walked, to)
  BY <1>6, CountedIs DEF Covered
<1> HIDE DEF samples, series, from, to
<1>8. Len(samples) \in Nat /\ DOMAIN samples = 1..Len(samples) /\ Len(samples) # 0
  BY <1>4, <1>6, EmptySeq
<1>9. \A i \in DOMAIN samples : /\ samples[i].at \in Int
                                /\ samples[i].report = InForce(recording, samples[i].at)
  BY <1>4, <1>8, ToldIs
<1>10. hours \in SUBSET (a..b - 1)
  <2>1. 1 \in DOMAIN samples /\ samples[1].at \in Int
    BY <1>8, <1>9
  <2>2. start \div Width \in Int /\ a <= start \div Width
    <3>1. CASE samples[1].at <= from
      <4>1. start \div Width = a
        BY <1>1, <3>1, HourOfBoundary DEF from
      <4>2. QED
        BY <4>1
    <3>2. CASE ~(samples[1].at <= from)
      <4>1. from <= samples[1].at
        BY <1>2, <2>1, <3>2
      <4>2. FullHour(samples[1].at) \in Int /\ a <= FullHour(samples[1].at)
        BY <2>1, <4>1, FullHourIs DEF from
      <4>3. start \div Width = FullHour(samples[1].at)
        BY <1>1, <3>2, <4>2, HourOfBoundary
      <4>4. QED
        BY <4>2, <4>3
    <3>3. QED
      BY <3>1, <3>2
  <2> DEFINE l == start \div Width
  <2> HIDE DEF l
  <2>3. hours = l..b - 1
    BY <1>3 DEF l
  <2>4. l \in Int /\ a <= l
    BY <2>2 DEF l
  <2>5. ASSUME NEW h \in l..b - 1
        PROVE  h \in a..b - 1
    BY <2>4
  <2>6. QED
    BY <2>3, <2>5
<1>11. /\ DOMAIN walked = 1..Len(walked) /\ Len(walked) \in Nat \ {0}
       /\ \A k \in DOMAIN walked : walked[k].at \in Int /\ walked[k].at <= to
       /\ Last(walked) = samples[Len(samples)]
  BY <1>2, <1>4, <1>6, <1>9, WalkedIs
<1> HIDE DEF walked, hours, start
<1>12. /\ Latest(walked, to) \in Int /\ Latest(walked, to) <= to
       /\ Last(walked).report.usable => Latest(walked, to) = to
  BY <1>2, <1>11, LatestIs
<1> DEFINE n == Len(samples)
           v == samples[n].at
<1>13. /\ n \in DOMAIN samples /\ v \in Int /\ v <= to
       /\ samples[n].report = InForce(recording, v) /\ samples[n].report # Silent
  <2>1. n \in DOMAIN samples
    BY <1>8
  <2>2. QED
    BY <1>4, <1>9, <2>1
<1>14. InForce(recording, to) = samples[n].report
  <2>1. ASSUME NEW u \in Reported(recording)
        PROVE  u <= v \/ to < u
    <3>1. u \in Int
      BY ReportedInForce
    <3>2. from - Lookback \in Int /\ from - Lookback <= v
      <4>1. from - Lookback \in Int
        BY <1>2, BoundAssumption
      <4>2. QED
        BY <1>4, <1>13, <4>1
    <3>3. CASE from - Lookback <= u /\ u <= to
      <4>1. PICK i \in DOMAIN samples : samples[i].at = u
        BY <1>4, <3>3 DEF Times
      <4>2. i = n \/ i < n
        BY <1>8
      <4>3. i < n => samples[i].at < samples[n].at
        BY <1>4, <1>13
      <4>4. QED
        BY <1>13, <3>1, <4>1, <4>2, <4>3
    <3>4. CASE u < from - Lookback
      BY <1>13, <3>1, <3>2, <3>4
    <3>5. QED
      BY <1>2, <3>1, <3>2, <3>3, <3>4
  <2>2. QED
    BY <1>2, <1>13, <2>1, InForceStays
<1>15. QED
  BY <1>6, <1>7, <1>10, <1>12, <1>11, <1>13, <1>14

-----------------------------------------------------------------------------
(* What an hour of an entity counts. *)

\* The counters of a recording.
Counts(recording) ==
  \A t \in Reported(recording) : recording[t].usable => recording[t].value \in Int

LEMMA CountsInForce ==
  ASSUME NEW recording, IsRecording(recording), Counts(recording), NEW t \in Int,
         InForce(recording, t) # Silent
  PROVE  InForce(recording, t).usable => InForce(recording, t).value \in Int
<1> DEFINE earlier == {u \in Reported(recording) : u <= t}
<1>1. /\ Max(earlier) \in earlier
      /\ InForce(recording, t) = recording[Max(earlier)]
  BY InForceIs
<1>2. Max(earlier) \in Reported(recording)
  BY <1>1
<1>3. QED
  BY <1>1, <1>2 DEF Counts

\* The last sample up to a time tells the state in force then, if none is missing
\* between the two.
LEMMA InForceAtSample ==
  ASSUME NEW recording, IsRecording(recording), NEW s \in Seq(Told(recording)),
         NEW t \in Int, NEW k \in DOMAIN s, s[k].at <= t,
         \A l \in DOMAIN s : s[l].at <= t => s[l].at <= s[k].at,
         \A u \in Reported(recording) : s[k].at < u /\ u <= t => u \in Times(s)
  PROVE  s[k].report = InForce(recording, t)
<1> DEFINE v == s[k].at
<1>1. v \in Int /\ s[k].report = InForce(recording, v) /\ v <= t
  BY ToldIs
<1>2. ASSUME NEW u \in Reported(recording)
      PROVE  u <= v \/ t < u
  <2>1. u \in Int
    BY ReportedInForce
  <2>2. CASE v < u /\ u <= t
    <3>1. PICK i \in DOMAIN s : s[i].at = u
      BY <2>2 DEF Times
    <3>2. QED
      BY <2>2, <3>1
  <2>3. QED
    BY <1>1, <2>1, <2>2
<1> HIDE DEF v
<1>3. QED
  BY <1>1, <1>2, InForceStays

\* The walk of normalize_counter_history begins with the sample in force at its start.
LEMMA WalkIs ==
  ASSUME NEW recording, IsRecording(recording), NEW s \in Seq(Told(recording)),
         NEW start \in Int, NEW to \in Int, s # <<>>, s[1].at <= start,
         \A i \in DOMAIN s : s[i].at <= to,
         \A i, j \in DOMAIN s : i < j => s[i].at < s[j].at
  PROVE  LET walked == Walked(s, start, to)
         IN /\ walked \in Seq(Told(recording)) /\ Len(walked) \in Nat \ {0}
            /\ walked[1].at <= start
            /\ \A i, j \in DOMAIN walked : i < j => walked[i].at < walked[j].at
            /\ \A u \in Times(s) : walked[1].at < u => u \in Times(walked)
            /\ \A k \in DOMAIN walked : \E i \in DOMAIN s : walked[k] = s[i]
<1> DEFINE n == Len(s)
           U == {i \in DOMAIN s : s[i].at <= start}
           upTo == Cardinality(U)
           low == Max({upTo, 1})
           I == {i \in DOMAIN s : i >= low /\ s[i].at <= to}
           w == Walked(s, start, to)
           m == Cardinality(I)
           p == Ascending(I)
<1>1. n \in Nat \ {0} /\ DOMAIN s = 1..n /\ 1 \in 1..n
  <2>1. n \in Nat /\ DOMAIN s = 1..n
    OBVIOUS
  <2>2. n # 0
    BY EmptySeq
  <2>3. QED
    BY <2>1, <2>2
<1>2. \A i \in 1..n : s[i].at \in Int
  BY <1>1, ToldIs
<1> DEFINE x == Max(U)
<1>3. x \in 1..n /\ s[x].at <= start /\ \A i \in 1..n : s[i].at <= start => i <= x
  <2>1. U \in SUBSET (1..n) /\ 1 \in U
    BY <1>1
  <2>2. U \in SUBSET Int /\ IsFiniteSet(U)
    BY <1>1, <2>1, PlacesFinite
  <2>3. x \in U /\ \A i \in U : i <= x
    BY <2>1, <2>2, MaxIs
  <2> HIDE DEF x
  <2>4. QED
    BY <1>1, <2>3
<1> HIDE DEF x
<1>4. U = 1..x
  <2>1. ASSUME NEW i \in 1..x
        PROVE  i \in U
    <3>1. i \in 1..n /\ (i = x \/ i < x)
      BY <1>1, <1>3
    <3>2. i < x => s[i].at < s[x].at
      BY <1>1, <1>3, <3>1
    <3>3. QED
      BY <1>1, <1>2, <1>3, <3>1, <3>2
  <2>2. ASSUME NEW i \in U
        PROVE  i \in 1..x
    BY <1>1, <1>3
  <2>3. QED
    BY <2>1, <2>2
<1>5. low = x
  <2>1. Cardinality(1..x) = IF 1 > x THEN 0 ELSE x - 1 + 1
    BY <1>1, <1>3, FS_Interval
  <2>2. upTo = x /\ x \in Int /\ 1 <= x
    <3>1. x \in Int /\ 1 <= x
      BY <1>1, <1>3
    <3>2. upTo = Cardinality(1..x)
      BY <1>4
    <3> HIDE DEF upTo
    <3>3. QED
      BY <2>1, <3>1, <3>2
  <2>3. IsFiniteSet({x, 1})
    <3>1. IsFiniteSet({x}) /\ IsFiniteSet({1})
      BY FS_Singleton
    <3>2. IsFiniteSet({x} \cup {1})
      BY <3>1, FS_Union
    <3>3. {x, 1} = {x} \cup {1}
      OBVIOUS
    <3>4. QED
      BY <3>2, <3>3
  <2>4. Max({x, 1}) \in {x, 1} /\ \A i \in {x, 1} : i <= Max({x, 1})
    <3>1. {x, 1} \in SUBSET Int /\ {x, 1} # {}
      BY <2>2
    <3>2. QED
      BY <2>3, <3>1, MaxIs
  <2> DEFINE y == Max({x, 1})
  <2>5. (y = x \/ y = 1) /\ x <= y /\ 1 <= y
    BY <2>4
  <2> HIDE DEF y
  <2>6. y = x
    BY <2>2, <2>5
  <2>7. low = y
    BY <2>2 DEF y
  <2>8. QED
    BY <2>6, <2>7
<1>6. w = Picked(s, I)
  BY DEF Walked
<1> HIDE DEF low, U, w
<1>7. I = x..n
  BY <1>1, <1>3, <1>5
<1>8. I \in SUBSET (1..n) /\ x \in I /\ n \in I /\ I \in SUBSET Int /\ IsFiniteSet(I)
  <2>1. I \in SUBSET (1..n)
    BY <1>1
  <2>2. I \in SUBSET Int /\ IsFiniteSet(I)
    BY <1>1, <2>1, PlacesFinite
  <2>3. x \in x..n /\ n \in x..n
    BY <1>1, <1>3
  <2>4. QED
    BY <1>7, <2>1, <2>2, <2>3
<1> HIDE DEF I
<1>9. /\ m \in Nat /\ p \in [1..m -> I]
      /\ \A i \in I : \E k \in 1..m : p[k] = i
      /\ \A j, k \in 1..m : j < k => p[j] < p[k]
  BY <1>8, AscendingIs
<1>10. /\ DOMAIN w = 1..m /\ \A k \in 1..m : w[k] = s[p[k]]
       /\ w \in Seq(Told(recording))
  <2>1. \A i \in I : s[i] \in Told(recording)
    BY <1>1, <1>8
  <2>2. QED
    BY <1>6, <1>8, <2>1, PickedIs
<1> HIDE DEF p, m
<1>11. \A k \in 1..m : p[k] \in 1..n /\ x <= p[k]
  <2>1. \A i \in x..n : x <= i
    BY <1>3
  <2>2. \A i \in I : i \in 1..n /\ x <= i
    BY <1>7, <1>8, <2>1
  <2>3. QED
    BY <1>9, <2>2
<1>12. m \in Nat \ {0} /\ 1 \in 1..m /\ p[1] = x
  <2>1. PICK k \in 1..m : p[k] = x
    BY <1>8, <1>9
  <2>2. m # 0 /\ 1 \in 1..m
    BY <1>9, <2>1
  <2>3. k = 1 \/ 1 < k
    BY <1>9, <2>1
  <2>4. 1 < k => p[1] < x
    BY <1>9, <2>1, <2>2
  <2>5. x <= p[1] /\ p[1] \in Int /\ x \in Int
    BY <1>3, <1>11, <2>2
  <2>6. QED
    BY <1>9, <2>1, <2>2, <2>3, <2>4, <2>5
<1>13. w[1].at <= start
  BY <1>3, <1>10, <1>12
<1>14. \A i, j \in 1..m : i < j => w[i].at < w[j].at
  <2>1. TAKE i, j \in 1..m
  <2>2. HAVE i < j
  <2>3. p[i] < p[j] /\ p[i] \in 1..n /\ p[j] \in 1..n
    BY <1>9, <1>11, <2>2
  <2>4. s[p[i]].at < s[p[j]].at
    BY <1>1, <2>3
  <2>5. QED
    BY <1>10, <2>4
<1>15. ASSUME NEW u \in Times(s), w[1].at < u
       PROVE  u \in Times(w)
  <2>1. PICK i \in 1..n : s[i].at = u
    BY <1>1, <1>15 DEF Times
  <2>2. u \in Int /\ ~(i <= x)
    <3>1. u \in Int
      BY <1>2, <2>1
    <3>2. i < x => s[i].at < s[x].at
      BY <1>1, <1>3
    <3>3. w[1].at = s[x].at /\ s[x].at \in Int
      BY <1>2, <1>3, <1>10, <1>12
    <3>4. ~(i < x) /\ i # x
      BY <1>15, <2>1, <3>1, <3>2, <3>3
    <3>5. QED
      BY <1>3, <3>1, <3>4
  <2>3. i \in I
    BY <1>3, <1>7, <2>1, <2>2
  <2>4. PICK k \in 1..m : p[k] = i
    BY <1>9, <2>3
  <2>5. k \in DOMAIN w /\ w[k].at = u
    BY <1>10, <2>1, <2>4
  <2>6. QED
    BY <2>5 DEF Times
<1>16. Len(w) = m
  BY <1>9, <1>10
<1>17. QED
  BY <1>1, <1>10, <1>11, <1>12, <1>13, <1>14, <1>15, <1>16 DEF w

\* What a run of consecutive steps gains is what lies between its ends.
LEMMA EnergyOfRun ==
  ASSUME NEW walked, NEW n \in Nat, Len(walked) = n, NEW p \in 1..n, NEW q \in p..n,
         \A i \in p..q : walked[i].report.value \in Int
  PROVE  EnergyOf(walked, p + 1..q) = walked[q].report.value - walked[p].report.value
<1> DEFINE v(i) == walked[i].report.value
           Step(i) == IF i \in p + 1..q THEN v(i) - v(i - 1) ELSE 0
           Is(s) == s = [i \in 0..n |-> IF i = 0 THEN 0 ELSE s[i - 1] + Step(i)]
           f == CHOOSE s : Is(s)
           g == [i \in 0..n |-> IF i <= p THEN 0
                                ELSE IF i <= q THEN v(i) - v(p) ELSE v(q) - v(p)]
<1>1. EnergyOf(walked, p + 1..q) = f[n]
  BY DEF EnergyOf
<1>2. \A i \in p..q : v(i) \in Int
  OBVIOUS
<1> HIDE DEF v
<1>3. Is(g)
  <2>1. ASSUME NEW i \in 0..n
        PROVE  g[i] = IF i = 0 THEN 0 ELSE g[i - 1] + Step(i)
    <3>1. CASE i <= p
      <4>1. i # 0 => i - 1 \in 0..n /\ i - 1 <= p /\ i \notin p + 1..q
        BY <3>1
      <4>2. g[i] = 0 /\ (i # 0 => g[i - 1] = 0)
        BY <3>1, <4>1
      <4>3. i # 0 => Step(i) = 0
        BY <4>1
      <4> HIDE DEF g, Step
      <4>4. QED
        BY <4>2, <4>3
    <3>2. CASE i > p /\ i <= q
      <4>1. i \in p..q /\ i - 1 \in p..q /\ i - 1 \in 0..n /\ i \in p + 1..q /\ i # 0
        BY <3>2
      <4>2. g[i] = v(i) - v(p)
        BY <3>2
      <4>3. Step(i) = v(i) - v(i - 1)
        BY <4>1
      <4>4. g[i - 1] = IF i - 1 <= p THEN 0 ELSE v(i - 1) - v(p)
        BY <4>1
      <4>5. v(i) \in Int /\ v(i - 1) \in Int /\ v(p) \in Int
        BY <1>2, <4>1
      <4>6. i - 1 <= p => i - 1 = p
        BY <3>2
      <4> HIDE DEF g, Step
      <4>7. QED
        BY <4>1, <4>2, <4>3, <4>4, <4>5, <4>6
    <3>3. CASE i > q
      <4>1. i # 0 /\ i - 1 \in 0..n /\ i \notin p + 1..q /\ i - 1 >= q /\ i > p
        BY <3>3
      <4>2. g[i] = v(q) - v(p)
        BY <3>3, <4>1
      <4>3. Step(i) = 0
        BY <4>1
      <4>4. g[i - 1] = v(q) - v(p)
        <5>1. CASE i - 1 > q
          <6>1. ~(i - 1 <= q) /\ ~(i - 1 <= p)
            BY <5>1
          <6>2. QED
            BY <4>1, <6>1
        <5>2. CASE i - 1 = q /\ q > p
          BY <4>1, <5>2
        <5>3. CASE i - 1 = q /\ q = p
          <6>1. v(q) - v(p) = 0
            BY <1>2, <5>3
          <6>2. g[i - 1] = 0
            BY <4>1, <5>3
          <6>3. QED
            BY <6>1, <6>2
        <5>4. QED
          BY <4>1, <5>1, <5>2, <5>3
      <4>5. v(q) - v(p) \in Int
        BY <1>2
      <4> HIDE DEF g, Step
      <4>6. QED
        BY <4>1, <4>2, <4>3, <4>4, <4>5
    <3>4. QED
      BY <3>1, <3>2, <3>3
  <2> DEFINE G == [i \in 0..n |-> IF i = 0 THEN 0 ELSE g[i - 1] + Step(i)]
  <2>2. DOMAIN g = 0..n /\ DOMAIN G = 0..n /\ g = [i \in 0..n |-> g[i]]
    OBVIOUS
  <2>3. g = G
    <3> HIDE DEF g, Step
    <3>1. QED
      BY <2>1, <2>2
  <2>4. QED
    BY <2>3
<1> HIDE DEF g, Step
<1>4. Is(f)
  BY <1>3
<1> HIDE DEF f
<1>5. \A i \in 0..n : f[i] = g[i]
  <2> DEFINE bad == {i \in 0..n : f[i] # g[i]}
  <2>1. SUFFICES ASSUME bad # {} PROVE FALSE
    OBVIOUS
  <2>2. bad \in SUBSET Nat
    OBVIOUS
  <2>3. PICK m \in bad : \A i \in bad : m <= i
    BY <2>1, <2>2, LeastNat
  <2>4. m \in 0..n /\ f[m] # g[m]
    OBVIOUS
  <2>5. f[m] = IF m = 0 THEN 0 ELSE f[m - 1] + Step(m)
    BY <1>4, <2>4
  <2>6. g[m] = IF m = 0 THEN 0 ELSE g[m - 1] + Step(m)
    BY <1>3, <2>4
  <2>7. m # 0 => m - 1 \in 0..n /\ m - 1 \notin bad
    BY <2>3, <2>4
  <2>8. QED
    BY <2>4, <2>5, <2>6, <2>7
<1>6. g[n] = v(q) - v(p)
  <2>1. n \in 0..n /\ p <= n /\ q <= n
    OBVIOUS
  <2>2. CASE n <= p
    <3>1. p = n /\ q = n
      BY <2>2
    <3>2. v(q) - v(p) = 0
      BY <1>2, <3>1
    <3>3. QED
      BY <2>1, <2>2, <3>2 DEF g
  <2>3. CASE n > p
    <3>1. n <= q => q = n
      OBVIOUS
    <3>2. ~(n <= p)
      BY <2>3
    <3>3. QED
      BY <2>1, <3>1, <3>2 DEF g
  <2>4. QED
    BY <2>2, <2>3
<1>7. f[n] = v(q) - v(p)
  <2>1. n \in 0..n
    OBVIOUS
  <2>2. QED
    BY <1>5, <1>6, <2>1
<1>8. QED
  BY <1>1, <1>7 DEF v, f, Step

\* The steps of a walk between usable samples, each named by its later one.
Steps(w) == {i \in 2..Len(w) : w[i - 1].report.usable /\ w[i].report.usable}
StepsIn(w, h) == {i \in Steps(w) : HourIndex(w[i].at) = h}
CausesOf(w, i) ==
  StepCauses(w, i, i - 1 \in Steps(w) /\ w[i - 1].report.value < w[i - 1 - 1].report.value)

\* What an hour of a walk counts, and some of what excludes it.
LEMMA CountedRow ==
  ASSUME NEW w, NEW hours, NEW h \in hours
  PROVE  LET row == Counted(w, hours)[h]
         IN /\ row.kw = EnergyOf(w, {i \in StepsIn(w, h) : CausesOf(w, i) = {}})
            /\ \A i \in StepsIn(w, h) : CausesOf(w, i) \subseteq row.causes
            /\ \A i \in DOMAIN w :
                 /\ ~w[i].report.usable
                 /\ h \in Overlapping(hours, w[i].at,
                                      InForceUntil(w, i, (Max(hours) + 1) * Width))
                 => "invalid" \in row.causes
<1> DEFINE Energy(x) == EnergyOf(w, {i \in StepsIn(w, x) : CausesOf(w, i) = {}})
           end == (Max(hours) + 1) * Width
           gaps == {i \in DOMAIN w : ~w[i].report.usable}
           All(x) == UNION {CausesOf(w, i) : i \in StepsIn(w, x)}
           Some(x) == UNION {CausesOf(w, i) \ {"step_above_maximum"} :
                               i \in {i \in Steps(w) : HourIndex(w[i - 1].at) = x}}
           Invalid(x) == IF \E i \in gaps : x \in Overlapping(hours, w[i].at,
                                                            InForceUntil(w, i, end))
                         THEN {"invalid"} ELSE {}
           Above(x) == IF Energy(x) > Maximum THEN {"hour_above_maximum"} ELSE {}
           f == [x \in hours |->
                   [kw |-> Energy(x),
                    causes |-> All(x) \cup Some(x) \cup Invalid(x) \cup Above(x)]]
<1>1. Counted(w, hours) = Tabulated(f)
  BY DEF Counted, Steps, StepsIn, CausesOf
<1>2. Counted(w, hours)[h] = f[h]
  BY <1>1, TabulatedIs
<1>3. /\ f[h].kw = Energy(h)
      /\ f[h].causes = All(h) \cup Some(h) \cup Invalid(h) \cup Above(h)
  <2> HIDE DEF Energy, All, Some, Invalid, Above
  <2>1. QED
    OBVIOUS
<1>4. \A i \in StepsIn(w, h) : CausesOf(w, i) \subseteq All(h)
  OBVIOUS
<1>5. \A i \in gaps : h \in Overlapping(hours, w[i].at, InForceUntil(w, i, end)) =>
                        "invalid" \in Invalid(h)
  OBVIOUS
<1>6. \A i \in DOMAIN w : ~w[i].report.usable => i \in gaps
  OBVIOUS
<1> HIDE DEF All, Some, Invalid, Above, f, gaps, Energy
<1>7. QED
  BY <1>2, <1>3, <1>4, <1>5, <1>6 DEF Energy

\* The samples of a walk up to a time are a prefix of it.
LEMMA PrefixUpTo ==
  ASSUME NEW w, NEW n \in Nat \ {0}, NEW t \in Int,
         \A i \in 1..n : w[i].at \in Int,
         \A i, j \in 1..n : i < j => w[i].at < w[j].at,
         w[1].at <= t
  PROVE  \E p \in 1..n : \A i \in 1..n : w[i].at <= t <=> i <= p
<1> DEFINE A == {i \in 1..n : w[i].at <= t}
           p == Max(A)
<1>1. A \in SUBSET (1..n) /\ 1 \in A
  OBVIOUS
<1>2. A \in SUBSET Int /\ IsFiniteSet(A)
  BY <1>1, PlacesFinite
<1>3. p \in A /\ \A i \in A : i <= p
  BY <1>1, <1>2, MaxIs
<1> HIDE DEF p
<1>4. p \in 1..n /\ w[p].at <= t
  BY <1>3
<1>5. ASSUME NEW i \in 1..n, i <= p
      PROVE  w[i].at <= t
  <2>1. i = p \/ i < p
    BY <1>4, <1>5
  <2>2. i < p => w[i].at < w[p].at
    BY <1>4
  <2>3. w[i].at \in Int /\ w[p].at \in Int
    BY <1>4
  <2>4. QED
    BY <1>4, <2>1, <2>2, <2>3
<1>6. \A i \in 1..n : w[i].at <= t => i <= p
  BY <1>3
<1>7. QED
  BY <1>4, <1>5, <1>6

\* What a walk tells of a recording, over the hours from first up to b.
Walks(w, recording, first, b) ==
  /\ w \in Seq(Told(recording)) /\ Len(w) \in Nat \ {0}
  /\ w[1].at <= first * Width
  /\ \A i, j \in DOMAIN w : i < j => w[i].at < w[j].at
  /\ \A u \in Reported(recording) : w[1].at < u /\ u <= b * Width => u \in Times(w)
  /\ \A i \in DOMAIN w : /\ w[i].report # Silent
                         /\ w[i].report.usable => w[i].report.value \in Int

\* An invalid state that holds into an hour excludes it.
LEMMA InForceInto ==
  ASSUME NEW w, NEW n \in Nat \ {0}, DOMAIN w = 1..n, \A j \in 1..n : w[j].at \in Int,
         NEW first \in Int, NEW b \in Int, NEW h \in first..b - 1, NEW i \in 1..n,
         w[i].at <= (h + 1) * Width,
         \A j \in 1..n : j > i => h * Width < w[j].at
  PROVE  h \in Overlapping(first..b - 1, w[i].at,
                           InForceUntil(w, i, (Max(first..b - 1) + 1) * Width))
<1> DEFINE hours == first..b - 1
           m == Max(hours)
           end == (m + 1) * Width
           L == {j \in DOMAIN w : j > i /\ w[j].report.usable}
           S == {w[j].at : j \in L}
           until == InForceUntil(w, i, end)
           l == h * Width
<1>1. Width \in Nat \ {0} /\ h \in Int /\ first <= h /\ h < b
  BY WidthAssumption
<1>2. m \in hours /\ \A x \in hours : x <= m
  <2>1. hours \in SUBSET Int /\ IsFiniteSet(hours) /\ hours # {}
    <3>1. IsFiniteSet(hours)
      BY FS_Interval
    <3>2. \A x \in hours : x \in Int
      OBVIOUS
    <3> HIDE DEF hours
    <3>3. h \in hours
      BY DEF hours
    <3>4. QED
      BY <3>1, <3>2, <3>3
  <2> HIDE DEF hours
  <2>2. QED
    BY <2>1, MaxIs
<1>3. m \in Int /\ h <= m
  <2> HIDE DEF m
  <2>1. QED
    BY <1>2
<1>4. end \in Int /\ l < end
  <2> HIDE DEF m
  <2>1. m + 1 \in Int /\ h < m + 1
    BY <1>1, <1>3
  <2>2. QED
    BY <1>1, <2>1, HourTimes
<1>5. until = Min(S \cup {end})
  BY DEF InForceUntil
<1>6. S \in SUBSET Int /\ IsFiniteSet(S) /\ \A x \in S : l < x
  <2>1. L \in SUBSET (1..n)
    OBVIOUS
  <2>2. IsFiniteSet(L)
    BY <2>1, PlacesFinite
  <2> DEFINE f == [j \in L |-> w[j].at]
  <2>3. f \in Surjection(L, S)
    BY DEF Surjection
  <2>4. IsFiniteSet(S)
    BY <2>2, <2>3, FS_Surjection
  <2>5. QED
    BY <2>4
<1> HIDE DEF S, L, end, until, hours, m
<1>7. until \in Int /\ l < until
  <2>1. IsFiniteSet({end})
    BY FS_Singleton
  <2>2. IsFiniteSet(S \cup {end})
    BY <1>6, <2>1, FS_Union
  <2>3. S \cup {end} \in SUBSET Int /\ S \cup {end} # {}
    BY <1>4, <1>6
  <2>4. until \in S \cup {end}
    BY <1>5, <2>2, <2>3, MinIs
  <2>5. QED
    BY <1>4, <1>6, <2>4
<1>8. HourIndex(w[i].at) <= h
  BY <1>1, HourIndexIs
<1>9. h <= HourIndex(until)
  BY <1>1, <1>7, HourIndexIs
<1>10. h \in hours
  BY DEF hours
<1>11. h \in Overlapping(hours, w[i].at, until)
  BY <1>8, <1>9, <1>10 DEF Overlapping
<1>12. QED
  BY <1>11 DEF hours, until, end, m

\* What a counter gains in an hour.
GainOf(recording, h) ==
  InForce(recording, (h + 1) * Width).value - InForce(recording, h * Width).value

\* An hour of a walk that nothing excludes counts what the counter gained from its start
\* to its end.
LEMMA CountedGain ==
  ASSUME NEW recording, IsRecording(recording), NEW first \in Int, NEW b \in Int, NEW w,
         Walks(w, recording, first, b), NEW hours, hours = first..b - 1, NEW h \in hours,
         Counted(w, hours)[h].causes = {}
  PROVE  /\ Counted(w, hours)[h].kw = GainOf(recording, h)
         /\ InForce(recording, h * Width) # Silent
<1> DEFINE n == Len(w)
           l == h * Width
           u == (h + 1) * Width
           row == Counted(w, hours)[h]
<1>1. Width \in Nat \ {0} /\ h \in Int /\ first <= h /\ h < b
  BY WidthAssumption
<1>2. /\ n \in Nat \ {0} /\ DOMAIN w = 1..n /\ \A i \in 1..n : w[i] \in Told(recording)
      /\ \A i, j \in 1..n : i < j => w[i].at < w[j].at
      /\ \A i \in 1..n : w[i].report.usable => w[i].report.value \in Int
  BY DEF Walks
<1>3. \A i \in 1..n : w[i].at \in Int
  BY <1>2, ToldIs
<1>4. /\ l \in Int /\ u \in Int /\ l < u /\ w[1].at <= l /\ u <= b * Width
      /\ b * Width \in Int
  <2>1. first * Width \in Int /\ b * Width \in Int /\ first * Width <= l /\ l < u
        /\ u <= b * Width /\ l \in Int /\ u \in Int
    BY <1>1, HourTimes
  <2>2. 1 \in 1..n
    BY <1>2
  <2>3. w[1].at \in Int /\ w[1].at <= first * Width
    BY <1>3, <2>2 DEF Walks
  <2> HIDE DEF l, u
  <2>4. QED
    BY <2>1, <2>3
<1> HIDE DEF l, u
<1>5. PICK p \in 1..n : \A i \in 1..n : w[i].at <= l <=> i <= p
  BY <1>2, <1>3, <1>4, PrefixUpTo
<1>6. w[1].at <= u
  <2>1. 1 \in 1..n
    BY <1>2
  <2>2. QED
    BY <1>3, <1>4, <2>1
<1>7. PICK q \in 1..n : \A i \in 1..n : w[i].at <= u <=> i <= q
  BY <1>2, <1>3, <1>4, <1>6, PrefixUpTo
<1>8. p <= q
  <2>1. w[p].at \in Int /\ w[p].at <= l
    BY <1>2, <1>3, <1>5
  <2>2. QED
    BY <1>4, <1>7, <2>1
<1> HIDE DEF n
<1>9. ASSUME NEW i \in 1..n
      PROVE  /\ p <= i /\ i <= q => w[i].at <= u /\ \A j \in 1..n : j > i => l < w[j].at
             /\ HourIndex(w[i].at) = h <=> p < i /\ i <= q
  <2> DEFINE v == w[i].at
  <2>1. v \in Int /\ i \in Int /\ p \in Int
    BY <1>3
  <2>8. HourIndex(v) \in Int
    BY <1>1, <2>1, HourIndexIs
  <2>2. v <= u <=> HourIndex(v) <= h
    BY <1>1, <2>1, HourIndexIs DEF u
  <2>3. l < v <=> h <= HourIndex(v)
    BY <1>1, <2>1, HourIndexIs DEF l
  <2>4. HourIndex(w[i].at) = h <=> p < i /\ i <= q
    <3>1. w[i].at <= u <=> i <= q
      BY <1>7
    <3>2. l < w[i].at <=> p < i
      <4>1. w[i].at <= l <=> i <= p
        BY <1>5
      <4>2. QED
        BY <1>4, <2>1, <4>1
    <3>3. QED
      BY <1>1, <2>8, <2>2, <2>3, <3>1, <3>2
  <2>5. ASSUME p <= i, i <= q, NEW j \in 1..n, j > i
        PROVE  l < w[j].at
    <3>1. ~(j <= p) /\ w[j].at \in Int
      BY <1>3, <2>1, <2>5
    <3>2. ~(w[j].at <= l)
      BY <1>5, <3>1
    <3>3. QED
      BY <1>4, <3>1, <3>2
  <2>6. i <= q => w[i].at <= u
    BY <1>7
  <2>7. QED
    BY <2>4, <2>5, <2>6
<1>10. /\ row.kw = EnergyOf(w, {i \in StepsIn(w, h) : CausesOf(w, i) = {}})
       /\ \A i \in StepsIn(w, h) : CausesOf(w, i) \subseteq row.causes
       /\ \A i \in DOMAIN w :
            /\ ~w[i].report.usable
            /\ h \in Overlapping(hours, w[i].at,
                                 InForceUntil(w, i, (Max(hours) + 1) * Width))
            => "invalid" \in row.causes
  BY CountedRow
<1>11. row.causes = {}
  OBVIOUS
<1> HIDE DEF row
<1>12. ASSUME NEW i \in 1..n, p <= i, i <= q
       PROVE  w[i].report.usable /\ w[i].report.value \in Int
  <2>1. w[i].at <= u /\ \A j \in 1..n : j > i => l < w[j].at
    BY <1>9, <1>12
  <2>2. h \in Overlapping(hours, w[i].at, InForceUntil(w, i, (Max(hours) + 1) * Width))
    BY <1>2, <1>3, <2>1, InForceInto DEF l, u
  <2>3. w[i].report.usable
    <3>1. SUFFICES ASSUME ~w[i].report.usable PROVE FALSE
      OBVIOUS
    <3>2. "invalid" \in row.causes
      BY <1>2, <1>10, <2>2, <3>1
    <3>3. QED
      BY <1>11, <3>2
  <2>4. QED
    BY <1>2, <2>3
<1>13. {i \in StepsIn(w, h) : CausesOf(w, i) = {}} = p + 1..q
  <2>1. ASSUME NEW i \in StepsIn(w, h)
        PROVE  i \in p + 1..q /\ CausesOf(w, i) = {}
    <3>1. i \in 2..n /\ HourIndex(w[i].at) = h
      BY DEF StepsIn, Steps, n
    <3>2. i \in 1..n
      BY <1>2, <3>1
    <3>3. p < i /\ i <= q
      BY <1>9, <3>1, <3>2
    <3>4. CausesOf(w, i) = {}
      BY <1>10, <1>11
    <3>5. QED
      BY <3>2, <3>3, <3>4
  <2>2. ASSUME NEW i \in p + 1..q
        PROVE  i \in StepsIn(w, h)
    <3>1. i \in 2..n /\ i \in 1..n /\ i - 1 \in 1..n /\ p <= i - 1 /\ i - 1 <= q /\ i <= q
          /\ p < i /\ p <= i
      BY <1>2
    <3>2. w[i].report.usable
      BY <1>12, <3>1
    <3>3. w[i - 1].report.usable
      BY <1>12, <3>1
    <3>4. HourIndex(w[i].at) = h
      BY <1>9, <3>1
    <3>5. QED
      BY <3>1, <3>2, <3>3, <3>4 DEF StepsIn, Steps, n
  <2>3. QED
    BY <2>1, <2>2
<1>14. row.kw = w[q].report.value - w[p].report.value
  <2>1. \A i \in p..q : w[i].report.value \in Int
    <3>1. ASSUME NEW i \in p..q
          PROVE  i \in 1..n /\ p <= i /\ i <= q
      BY <1>2
    <3>2. QED
      BY <1>12, <3>1
  <2>2. EnergyOf(w, p + 1..q) = w[q].report.value - w[p].report.value
    <3>1. n \in Nat /\ Len(w) = n /\ q \in p..n
      BY <1>2, <1>8 DEF n
    <3>2. p \in 1..n /\ q \in p..n /\ Len(w) \in Nat
      BY <3>1
    <3>3. QED
      BY <2>1, <3>1, <3>2, EnergyOfRun
  <2>3. QED
    BY <1>10, <1>13, <2>2
<1>15. ASSUME NEW t \in {l, u}, NEW k \in 1..n, \A i \in 1..n : w[i].at <= t <=> i <= k
       PROVE  w[k].report = InForce(recording, t)
  <2>1. t \in Int /\ t <= b * Width
    BY <1>4
  <2>2. k \in DOMAIN w /\ w[k].at <= t /\ w[k].at \in Int
    BY <1>2, <1>3, <1>15
  <2>3. ASSUME NEW i \in DOMAIN w, w[i].at <= t
        PROVE  w[i].at <= w[k].at
    <3>1. i \in 1..n /\ i <= k
      BY <1>2, <1>15, <2>3
    <3>2. i = k \/ i < k
      BY <3>1
    <3>3. i < k => w[i].at < w[k].at
      BY <1>2, <3>1
    <3>4. QED
      BY <1>3, <2>2, <3>1, <3>2, <3>3
  <2>4. ASSUME NEW v \in Reported(recording), w[k].at < v, v <= t
        PROVE  v \in Times(w)
    <3>1. v \in Int
      BY ReportedInForce
    <3>2. 1 \in 1..n /\ w[1].at \in Int /\ (k = 1 \/ 1 < k)
      BY <1>2, <1>3
    <3>3. w[1].at <= w[k].at
      BY <1>2, <2>2, <3>2
    <3>4. w[1].at < v /\ v <= b * Width
      BY <1>4, <2>1, <2>2, <2>4, <3>1, <3>2, <3>3
    <3>5. QED
      BY <3>4 DEF Walks
  <2>5. w \in Seq(Told(recording))
    BY DEF Walks
  <2>6. QED
    BY <2>1, <2>2, <2>3, <2>4, <2>5, InForceAtSample
<1>16. w[p].report = InForce(recording, l)
  BY <1>5, <1>15
<1>17. w[q].report = InForce(recording, u)
  BY <1>7, <1>15
<1>18. InForce(recording, l) # Silent
  BY <1>2, <1>16 DEF Walks
<1>19. QED
  BY <1>14, <1>16, <1>17, <1>18 DEF l, u, row, GainOf

\* An hour of a series that nothing excludes tells what the counter gained in it.
LEMMA NormalizedGain ==
  ASSUME NEW recording, IsRecording(recording), Counts(recording),
         NEW a \in Int, NEW b \in Int, a < b, NEW h
  PROVE  LET from == a * Width
             to == b * Width
             series == Normalized(Samples(recording, from, to), from, to)
         IN ~Failed(series) /\ h \in Covered(series) /\ series.hours[h].causes = {} =>
              /\ series.hours[h].kw = GainOf(recording, h)
              /\ h \in Int /\ InForce(recording, h * Width) # Silent
<1> DEFINE from == a * Width
           to == b * Width
           samples == Samples(recording, from, to)
           series == Normalized(samples, from, to)
           start == IF samples[1].at <= from THEN from ELSE FullHour(samples[1].at) * Width
           first == start \div Width
           hours == first..(to \div Width) - 1
           w == Walked(samples, start, to)
           T == Told(recording)
<1> SUFFICES ASSUME ~Failed(series), h \in Covered(series), series.hours[h].causes = {}
             PROVE  /\ series.hours[h].kw = GainOf(recording, h)
                    /\ h \in Int /\ InForce(recording, h * Width) # Silent
  OBVIOUS
<1>1. Width \in Nat \ {0}
  BY WidthAssumption
<1>2. from \in Int /\ to \in Int /\ from < to
  BY <1>1, HourTimes
<1>3. to \div Width = b
  BY <1>1, HourOfBoundary
<1>4. /\ samples \in Seq(T)
      /\ \A i \in DOMAIN samples : /\ from - Lookback <= samples[i].at
                                   /\ samples[i].at <= to /\ samples[i].report # Silent
      /\ \A i, j \in DOMAIN samples : i < j => samples[i].at < samples[j].at
      /\ \A t \in Reported(recording) :
           from - Lookback <= t /\ t <= to => t \in Times(samples)
  BY <1>2, SamplesAre
<1>5. \A why : Failed(Error(why))
  BY DEF Failed, Error
<1>6. /\ samples # <<>>
      /\ series = [hours |-> Counted(w, hours), latest |-> Latest(w, to)]
  BY <1>5 DEF Normalized
<1>7. series.hours = Counted(w, hours) /\ h \in hours /\ Counted(w, hours)[h].causes = {}
  <2>1. series.hours = Counted(w, hours)
    BY <1>6
  <2>2. DOMAIN Counted(w, hours) = hours
    BY CountedIs
  <2> HIDE DEF series, hours
  <2>3. QED
    BY <2>1, <2>2 DEF Covered
<1> HIDE DEF samples, series
<1>8. Len(samples) \in Nat /\ DOMAIN samples = 1..Len(samples) /\ Len(samples) # 0
  BY <1>4, <1>6, EmptySeq
<1>9. \A i \in DOMAIN samples : samples[i].at \in Int
  BY <1>4, <1>8, ToldIs
<1>10. /\ start \in Int /\ samples[1].at <= start
       /\ first \in Int /\ first * Width = start
  <2>1. 1 \in DOMAIN samples
    BY <1>8
  <2>2. samples[1].at \in Int
    BY <1>9, <2>1
  <2>3. QED
    BY <2>2, StartIs
<1> HIDE DEF start, first, from, to
<1>11. /\ w \in Seq(T) /\ Len(w) \in Nat \ {0} /\ w[1].at <= start
       /\ \A i, j \in DOMAIN w : i < j => w[i].at < w[j].at
       /\ \A u \in Times(samples) : w[1].at < u => u \in Times(w)
       /\ \A k \in DOMAIN w : \E i \in DOMAIN samples : w[k] = samples[i]
  BY <1>2, <1>4, <1>6, <1>10, WalkIs
<1> HIDE DEF w
<1>12. Walks(w, recording, first, b)
  <2>1. ASSUME NEW u \in Reported(recording), w[1].at < u, u <= b * Width
        PROVE  u \in Times(w)
    <3>1. u \in Int
      BY ReportedInForce
    <3>2. PICK i \in DOMAIN samples : w[1] = samples[i]
      BY <1>11
    <3>3. w[1].at \in Int /\ from - Lookback <= w[1].at /\ from - Lookback \in Int
      BY <1>2, <1>4, <1>9, <3>2, BoundAssumption
    <3>4. from - Lookback <= u /\ u <= to
      BY <2>1, <3>1, <3>3 DEF to
    <3>5. QED
      BY <1>4, <1>11, <2>1, <3>4
  <2>2. ASSUME NEW k \in DOMAIN w
        PROVE  /\ w[k].report # Silent
               /\ w[k].report.usable => w[k].report.value \in Int
    <3>1. PICK i \in DOMAIN samples : w[k] = samples[i]
      BY <1>11
    <3>2. samples[i] \in T /\ samples[i].report # Silent
      BY <1>4, <1>8
    <3>3. samples[i].at \in Int /\ samples[i].report = InForce(recording, samples[i].at)
      BY <3>2, ToldIs
    <3>4. QED
      BY <3>1, <3>2, <3>3, CountsInForce
  <2>3. QED
    BY <1>10, <1>11, <2>1, <2>2 DEF Walks
<1>13. hours = first..b - 1
  BY <1>3
<1>16. h \in Int
  BY <1>7, <1>10, <1>13
<1> HIDE DEF hours
<1>14. /\ Counted(w, hours)[h].kw = GainOf(recording, h)
       /\ InForce(recording, h * Width) # Silent
  BY <1>7, <1>10, <1>12, <1>13, CountedGain
<1>15. QED
  BY <1>7, <1>14, <1>16

-----------------------------------------------------------------------------
(* Aggregates and records. *)

\* What is known of a series or record of the hours from a up to b.
Spans(r, a, b, current) ==
  /\ Covered(r) # {} /\ Covered(r) \in SUBSET (a..b - 1)
  /\ r.latest \in Int /\ r.latest <= b * Width
  /\ current => r.latest = b * Width

LEMMA AlignedIs ==
  ASSUME NEW c, NEW n \in Nat \ {0}, DOMAIN c = 1..n,
         NEW a \in Int, NEW b \in Int, NEW current \in BOOLEAN,
         \A i \in 1..n : Spans(c[i], a, b, current)
  PROVE  LET latest == Min({r.latest : r \in Range(c)})
         IN /\ CommonHours(c) \in SUBSET (a..b - 1)
            /\ latest \in Int /\ latest <= b * Width
            /\ current => latest = b * Width
<1> DEFINE L == {r.latest : r \in Range(c)}
           to == b * Width
<1>1. 1 \in 1..n /\ c[1] \in Range(c)
  BY DEF Range
<1>2. \A r \in Range(c) : Spans(r, a, b, current)
  BY DEF Range
<1>3. CommonHours(c) \in SUBSET (a..b - 1)
  <2>1. \A h \in CommonHours(c) : h \in Covered(c[1])
    BY <1>1 DEF CommonHours
  <2>2. QED
    BY <1>1, <1>2, <2>1 DEF Spans
<1>4. IsFiniteSet(L)
  <2> DEFINE f == [i \in 1..n |-> c[i].latest]
  <2>1. f \in Surjection(1..n, L)
    BY DEF Surjection, Range
  <2>2. IsFiniteSet(1..n)
    BY FS_Interval
  <2>3. QED
    BY <2>1, <2>2, FS_Surjection
<1>5. \A v \in L : v \in Int /\ v <= to /\ (current => v = to)
  BY <1>2 DEF Spans
<1>6. L \in SUBSET Int /\ L # {}
  BY <1>1, <1>5
<1> HIDE DEF L, to
<1>7. Min(L) \in L
  BY <1>4, <1>6, MinIs
<1>8. Min(L) \in Int /\ Min(L) <= to /\ (current => Min(L) = to)
  BY <1>5, <1>7
<1>9. QED
  BY <1>3, <1>8 DEF L, to

LEMMA AlignedSpans ==
  ASSUME NEW r, NEW c, NEW n \in Nat \ {0}, DOMAIN c = 1..n,
         NEW a \in Int, NEW b \in Int, NEW current \in BOOLEAN,
         \A i \in 1..n : Spans(c[i], a, b, current),
         Covered(r) = CommonHours(c), CommonHours(c) # {},
         r.latest = Min({x.latest : x \in Range(c)})
  PROVE  Spans(r, a, b, current)
BY AlignedIs DEF Spans

\* An aggregate fails if a series of its entities does.
LEMMA AggregatedIs ==
  ASSUME NEW channel, NEW series, ~Failed(Aggregated(channel, series))
  PROVE  /\ \A i \in DOMAIN series : ~Failed(series[i])
         /\ Covered(Aggregated(channel, series)) = CommonHours(series)
         /\ CommonHours(series) # {}
         /\ Aggregated(channel, series).latest = Min({s.latest : s \in Range(series)})
<1> DEFINE A == Aggregated(channel, series)
           failed == {s \in Range(series) : Failed(s)}
           errors == AggregateError(channel, series)
<1>1. \A why : Failed(Error(why))
  BY DEF Failed, Error
<1>2. errors = IF failed = {} /\ CommonHours(series) = {} THEN {Error("no complete hour")}
               ELSE failed
  BY DEF AggregateError
<1>3. ASSUME NEW e \in errors
      PROVE  Failed(e)
  <2>1. e \in failed \/ e = Error("no complete hour")
    BY <1>2
  <2>2. \A x \in failed : Failed(x)
    OBVIOUS
  <2>3. QED
    BY <1>1, <2>1, <2>2
<1>4. errors # {} => A = CHOOSE e \in errors : TRUE
  BY DEF Aggregated
<1> HIDE DEF errors, failed
<1>5. errors = {}
  BY <1>3, <1>4
<1>6. failed = {} /\ CommonHours(series) # {}
  BY <1>2, <1>5
<1>7. /\ DOMAIN A.hours = CommonHours(series)
      /\ A.latest = Min({s.latest : s \in Range(series)})
  BY <1>5, TabulatedIs DEF Aggregated, errors
<1>8. Covered(A) = CommonHours(series) /\ A.latest = Min({s.latest : s \in Range(series)})
  BY <1>7 DEF Covered
<1>9. \A i \in DOMAIN series : series[i] \in Range(series)
  BY DEF Range
<1>10. QED
  BY <1>6, <1>8, <1>9 DEF failed

\* A record fails if one of its channels does.
LEMMA CombinedIs ==
  ASSUME NEW channels, ~Failed(Combined(channels))
  PROVE  /\ \A i \in DOMAIN channels : ~Failed(channels[i])
         /\ Covered(Combined(channels)) = CommonHours(channels)
         /\ CommonHours(channels) # {}
         /\ Combined(channels).latest = Min({c.latest : c \in Range(channels)})
<1> DEFINE C == Combined(channels)
           failed == {c \in Range(channels) : Failed(c)}
<1>1. \A why : Failed(Error(why))
  BY DEF Failed, Error
<1>2. failed = {} /\ CommonHours(channels) # {}
  <2>1. CASE failed # {}
    <3>1. C = CHOOSE c \in failed : TRUE
      BY <2>1 DEF Combined
    <3>2. QED
      BY <2>1, <3>1
  <2>2. CASE failed = {} /\ CommonHours(channels) = {}
    <3>1. C = Error("no complete hour")
      BY <2>2 DEF Combined
    <3>2. QED
      BY <1>1, <3>1
  <2>3. QED
    BY <2>1, <2>2
<1>3. /\ DOMAIN C.hours = CommonHours(channels)
      /\ C.latest = Min({c.latest : c \in Range(channels)})
  <2> DEFINE f == [h \in CommonHours(channels) |->
                     [kw |-> JointKw(channels, h), causes |-> HourCauses(channels, h)]]
             l == Min({c.latest : c \in Range(channels)})
  <2>1. C = [hours |-> Tabulated(f), latest |-> l]
    BY <1>2 DEF Combined
  <2>2. DOMAIN f = CommonHours(channels)
    OBVIOUS
  <2> HIDE DEF f, l
  <2>3. QED
    BY <2>1, <2>2, TabulatedIs DEF l
<1>4. /\ Covered(C) = CommonHours(channels)
      /\ C.latest = Min({c.latest : c \in Range(channels)})
  BY <1>3 DEF Covered
<1>5. \A i \in DOMAIN channels : channels[i] \in Range(channels)
  BY DEF Range
<1>6. QED
  BY <1>2, <1>4, <1>5

\* The channels of a record.
LEMMA ChannelTerms ==
  /\ Len(Channels) \in Nat \ {0} /\ DOMAIN Channels = 1..Len(Channels)
  /\ \A i \in DOMAIN Channels :
       LET terms == Channels[i].terms
       IN /\ Len(terms) \in Nat \ {0} /\ DOMAIN terms = 1..Len(terms)
          /\ \A j \in DOMAIN terms : terms[j].entity \in Entities
<1> DEFINE Terms == [entity : Entities, sign : {1, -1}]
           Cs == [terms : Seq(Terms), part : {"net", "positive"}]
<1>1. Channels \in Seq(Cs) /\ Channels # <<>> /\ \A c \in Range(Channels) : c.terms # <<>>
  BY ChannelAssumption
<1>2. Len(Channels) \in Nat \ {0} /\ DOMAIN Channels = 1..Len(Channels)
  BY <1>1, EmptySeq
<1>3. /\ \A x \in Terms : x.entity \in Entities
      /\ \A c \in Cs : c.terms \in Seq(Terms)
  OBVIOUS
<1> HIDE DEF Terms, Cs
<1>4. ASSUME NEW i \in DOMAIN Channels
      PROVE  /\ Channels[i].terms \in Seq(Terms)
             /\ Channels[i].terms # <<>>
  <2>1. Channels[i] \in Cs /\ Channels[i] \in Range(Channels)
    BY <1>1, <1>2 DEF Range
  <2>2. QED
    BY <1>1, <1>3, <2>1
<1>5. ASSUME NEW s \in Seq(Terms), s # <<>>
      PROVE  /\ Len(s) \in Nat \ {0} /\ DOMAIN s = 1..Len(s)
             /\ \A j \in DOMAIN s : s[j].entity \in Entities
  <2>1. Len(s) \in Nat /\ DOMAIN s = 1..Len(s) /\ Len(s) # 0
    BY <1>5, EmptySeq
  <2>2. \A j \in DOMAIN s : s[j] \in Terms
    BY <1>5, <2>1
  <2>3. QED
    BY <1>3, <2>1, <2>2
<1>6. QED
  BY <1>2, <1>4, <1>5

\* Every entity that has a state at a time has a usable one.
AllUsable(recordings, t) ==
  \A e \in Entities : LET r == InForce(recordings[e], t) IN r # Silent => r.usable

\* A record lies within its period and is current if its entities are.
LEMMA RecordIs ==
  ASSUME NEW recordings, \A e \in Entities : IsRecording(recordings[e]),
         NEW a \in Int, NEW b \in Int, a < b,
         ~Failed(Record(recordings, a * Width, b * Width))
  PROVE  Spans(Record(recordings, a * Width, b * Width), a, b,
               AllUsable(recordings, b * Width))
<1> DEFINE from == a * Width
           to == b * Width
           current == AllUsable(recordings, to)
           Series(term) == Normalized(Samples(recordings[term.entity], from, to), from, to)
           all(c) == [i \in DOMAIN c.terms |-> Series(c.terms[i])]
           Channel(c) == Aggregated(c, all(c))
           cs == [i \in DOMAIN Channels |-> Channel(Channels[i])]
           R == Record(recordings, from, to)
<1>1. R = Combined(cs)
  BY TabulatedIs DEF Record
<1>2. current \in BOOLEAN
  BY DEF AllUsable
<1>3. /\ Len(Channels) \in Nat \ {0} /\ DOMAIN Channels = 1..Len(Channels)
      /\ \A i \in DOMAIN Channels :
           LET terms == Channels[i].terms
           IN /\ Len(terms) \in Nat \ {0} /\ DOMAIN terms = 1..Len(terms)
              /\ \A j \in DOMAIN terms : terms[j].entity \in Entities
  BY ChannelTerms
<1>4. ASSUME NEW e \in Entities
      PROVE  LET s == Normalized(Samples(recordings[e], from, to), from, to)
             IN ~Failed(s) => Spans(s, a, b, current)
  <2> DEFINE s == Normalized(Samples(recordings[e], from, to), from, to)
             now == InForce(recordings[e], to)
  <2>1. IsRecording(recordings[e])
    OBVIOUS
  <2>2. ~Failed(s) => /\ Covered(s) # {} /\ Covered(s) \in SUBSET (a..b - 1)
                      /\ s.latest \in Int /\ s.latest <= to
                      /\ now # Silent
                      /\ now.usable => s.latest = to
    BY <2>1, NormalizedIs
  <2>3. current /\ now # Silent => now.usable
    BY DEF AllUsable
  <2> HIDE DEF s, now, current
  <2>4. ~Failed(s) => Spans(s, a, b, current)
    BY <2>2, <2>3 DEF Spans
  <2>5. QED
    BY <2>4 DEF s
<1> HIDE DEF current
<1>5. ASSUME NEW i \in DOMAIN Channels, ~Failed(Channel(Channels[i]))
      PROVE  Spans(Channel(Channels[i]), a, b, current)
  <2> DEFINE c == Channels[i]
             n == Len(c.terms)
             s == all(c)
             A == Aggregated(c, s)
  <2>1. n \in Nat \ {0} /\ DOMAIN s = 1..n
    BY <1>3
  <2>2. \A j \in 1..n : /\ s[j] = Series(c.terms[j]) /\ c.terms[j].entity \in Entities
    BY <1>3
  <2>3. ~Failed(A)
    BY <1>5
  <2> HIDE DEF s, A, n
  <2>4. /\ \A j \in DOMAIN s : ~Failed(s[j])
        /\ Covered(A) = CommonHours(s) /\ CommonHours(s) # {}
        /\ A.latest = Min({r.latest : r \in Range(s)})
    BY <2>3, AggregatedIs DEF A
  <2>5. \A j \in 1..n : Spans(s[j], a, b, current)
    BY <1>4, <2>1, <2>2, <2>4
  <2>6. Spans(A, a, b, current)
    BY <1>2, <2>1, <2>4, <2>5, AlignedSpans
  <2>7. QED
    BY <2>6 DEF A, s
<1> DEFINE m == Len(Channels)
<1>6. m \in Nat \ {0} /\ DOMAIN cs = 1..m
  BY <1>3
<1>7. \A i \in 1..m : cs[i] = Channel(Channels[i]) /\ i \in DOMAIN Channels
  BY <1>3
<1>8. ~Failed(Combined(cs))
  BY <1>1
<1> HIDE DEF cs, R, m, Channel
<1>9. /\ \A i \in DOMAIN cs : ~Failed(cs[i])
      /\ Covered(Combined(cs)) = CommonHours(cs) /\ CommonHours(cs) # {}
      /\ Combined(cs).latest = Min({r.latest : r \in Range(cs)})
  BY <1>8, CombinedIs
<1>10. \A i \in 1..m : Spans(cs[i], a, b, current)
  BY <1>5, <1>6, <1>7, <1>9
<1>11. Spans(Combined(cs), a, b, current)
  BY <1>2, <1>6, <1>9, <1>10, AlignedSpans
<1>12. QED
  BY <1>1, <1>11 DEF R, current

-----------------------------------------------------------------------------
(* What an hour of a record holds. *)

\* An hour of an aggregate that nothing excludes is excluded by none of its entities
\* and holds their signed sum.
LEMMA AggregatedGain ==
  ASSUME NEW channel, NEW series, ~Failed(Aggregated(channel, series)),
         NEW h \in CommonHours(series),
         Aggregated(channel, series).hours[h].causes = {}
  PROVE  /\ \A i \in DOMAIN series : h \in Covered(series[i])
                                     /\ series[i].hours[h].causes = {}
         /\ Aggregated(channel, series).hours[h].kw = Max({0, Sum(channel, series, h)})
<1> DEFINE A == Aggregated(channel, series)
           errors == AggregateError(channel, series)
           Causes(x) == UNION {series[i].hours[x].causes : i \in DOMAIN series}
           Net(x) == Sum(channel, series, x)
           Hour(x) == IF Causes(x) # {} THEN [kw |-> None, causes |-> Causes(x)]
                      ELSE IF Net(x) < 0 /\ channel.part = "net"
                      THEN [kw |-> None, causes |-> {"combined_negative"}]
                      ELSE [kw |-> Max({0, Net(x)}), causes |-> {}]
           f == [x \in CommonHours(series) |-> Hour(x)]
<1>1. errors = {}
  <2>1. \A e \in errors : Failed(e)
    <3>1. Failed(Error("no complete hour"))
      BY DEF Failed, Error
    <3>2. QED
      BY <3>1 DEF AggregateError
  <2>2. errors # {} => A = CHOOSE e \in errors : TRUE
    BY DEF Aggregated
  <2> HIDE DEF errors
  <2>3. QED
    BY <2>1, <2>2
<1>2. A.hours = f
  BY <1>1, TabulatedIs DEF Aggregated
<1>3. A.hours[h] = Hour(h)
  <2> HIDE DEF Hour, A
  <2>1. QED
    BY <1>2
<1> HIDE DEF Net
<1>4. Causes(h) = {} /\ Hour(h) = [kw |-> Max({0, Net(h)}), causes |-> {}]
  <2> HIDE DEF Causes
  <2>1. Hour(h).causes = {}
    BY <1>3
  <2> DEFINE m == Max({0, Net(h)})
  <2> HIDE DEF m
  <2>2. Causes(h) = {}
    BY <2>1
  <2>3. ~(Net(h) < 0 /\ channel.part = "net")
    BY <2>1, <2>2
  <2>4. QED
    BY <2>2, <2>3 DEF m
<1>5. \A i \in DOMAIN series : series[i].hours[h].causes = {}
  BY <1>4
<1>6. \A i \in DOMAIN series : h \in Covered(series[i])
  BY DEF CommonHours, Range
<1> HIDE DEF Hour
<1>7. A.hours[h].kw = Max({0, Net(h)})
  BY <1>3, <1>4
<1>8. QED
  BY <1>5, <1>6, <1>7 DEF Net

\* An hour of a record that nothing excludes is excluded by none of its channels and
\* holds their values.
LEMMA CombinedGain ==
  ASSUME NEW channels, ~Failed(Combined(channels)), NEW h \in CommonHours(channels),
         Combined(channels).hours[h].causes = {}
  PROVE  \A i \in DOMAIN channels :
           /\ h \in Covered(channels[i]) /\ channels[i].hours[h].causes = {}
           /\ Combined(channels).hours[h].kw[i] = channels[i].hours[h].kw
<1> DEFINE C == Combined(channels)
           failed == {c \in Range(channels) : Failed(c)}
           f == [x \in CommonHours(channels) |->
                   [kw |-> JointKw(channels, x), causes |-> HourCauses(channels, x)]]
<1>1. failed = {} /\ CommonHours(channels) # {}
  <2>1. CASE failed # {}
    <3>1. C = CHOOSE c \in failed : TRUE
      BY <2>1 DEF Combined
    <3>2. QED
      BY <2>1, <3>1
  <2>2. QED
    BY <2>1
<1>2. C.hours = Tabulated(f)
  <2> DEFINE l == Min({c.latest : c \in Range(channels)})
  <2>1. C = [hours |-> Tabulated(f), latest |-> l]
    BY <1>1 DEF Combined
  <2> HIDE DEF f, l, C
  <2>2. QED
    BY <2>1
<1>3. /\ C.hours[h].kw = JointKw(channels, h)
      /\ C.hours[h].causes = HourCauses(channels, h)
  <2>1. C.hours = f
    BY <1>2, TabulatedIs
  <2> HIDE DEF C
  <2>2. QED
    BY <2>1
<1>4. HourCauses(channels, h) = {}
  BY <1>3
<1>5. \A i \in DOMAIN channels : C.hours[h].kw[i] = channels[i].hours[h].kw
  BY <1>3, <1>4 DEF JointKw
<1>6. \A i \in DOMAIN channels : channels[i].hours[h].causes = {}
  BY <1>4 DEF HourCauses, Range
<1>7. \A i \in DOMAIN channels : h \in Covered(channels[i])
  BY DEF CommonHours, Range
<1>8. QED
  BY <1>5, <1>6, <1>7

\* What a channel gains in an hour.
NetOf(recordings, channel, h) ==
  SumFunction([i \in DOMAIN channel.terms |->
                 channel.terms[i].sign * GainOf(recordings[channel.terms[i].entity], h)])

\* An hour of a record that nothing excludes tells what its channels gained in it, and
\* every entity has a state at its start.
LEMMA RecordGain ==
  ASSUME NEW recordings,
         \A e \in Entities : IsRecording(recordings[e]) /\ Counts(recordings[e]),
         NEW a \in Int, NEW b \in Int, a < b,
         NEW R, R = Record(recordings, a * Width, b * Width), ~Failed(R),
         NEW h \in Covered(R), R.hours[h].causes = {}, NEW i \in DOMAIN Channels
  PROVE  /\ R.hours[h].kw[i] = Max({0, NetOf(recordings, Channels[i], h)})
         /\ \A j \in DOMAIN Channels[i].terms :
              InForce(recordings[Channels[i].terms[j].entity], h * Width) # Silent
<1> DEFINE from == a * Width
           to == b * Width
           Series(term) == Normalized(Samples(recordings[term.entity], from, to), from, to)
           all(c) == [k \in DOMAIN c.terms |-> Series(c.terms[k])]
           Channel(c) == Aggregated(c, all(c))
           cs == [k \in DOMAIN Channels |-> Channel(Channels[k])]
           c == Channels[i]
           s == all(c)
           A == Aggregated(c, s)
<1>1. R = Combined(cs)
  BY TabulatedIs DEF Record
<1>2. \A j \in DOMAIN c.terms : c.terms[j].entity \in Entities
  BY ChannelTerms
<1>3. DOMAIN cs = DOMAIN Channels /\ cs[i] = A
  OBVIOUS
<1>4. DOMAIN s = DOMAIN c.terms /\ \A j \in DOMAIN c.terms : s[j] = Series(c.terms[j])
  OBVIOUS
<1> HIDE DEF cs, s
<1>5. /\ ~Failed(Combined(cs)) /\ Covered(Combined(cs)) = CommonHours(cs)
      /\ h \in CommonHours(cs) /\ Combined(cs).hours[h].causes = {}
      /\ ~Failed(cs[i])
  BY <1>1, <1>3, CombinedIs
<1>6. /\ h \in Covered(A) /\ A.hours[h].causes = {}
      /\ Combined(cs).hours[h].kw[i] = A.hours[h].kw
  BY <1>3, <1>5, CombinedGain
<1>7. ~Failed(A) /\ h \in CommonHours(s)
  BY <1>3, <1>5, <1>6, AggregatedIs
<1>8. /\ \A j \in DOMAIN s : h \in Covered(s[j]) /\ s[j].hours[h].causes = {}
      /\ A.hours[h].kw = Max({0, Sum(c, s, h)})
  BY <1>6, <1>7, AggregatedGain
<1>9. \A j \in DOMAIN s : ~Failed(s[j])
  BY <1>7, AggregatedIs
<1>10. ASSUME NEW j \in DOMAIN c.terms
       PROVE  /\ s[j].hours[h].kw = GainOf(recordings[c.terms[j].entity], h)
              /\ InForce(recordings[c.terms[j].entity], h * Width) # Silent
  <2> DEFINE e == c.terms[j].entity
             x == Normalized(Samples(recordings[e], from, to), from, to)
  <2>1. s[j] = x /\ e \in Entities
    BY <1>2, <1>4
  <2>2. ~Failed(x) /\ h \in Covered(x) /\ x.hours[h].causes = {}
    BY <1>4, <1>8, <1>9, <2>1
  <2>3. IsRecording(recordings[e]) /\ Counts(recordings[e])
    BY <2>1
  <2> HIDE DEF e
  <2>4. /\ x.hours[h].kw = GainOf(recordings[e], h)
        /\ InForce(recordings[e], h * Width) # Silent
    BY <2>2, <2>3, NormalizedGain
  <2>5. QED
    BY <2>1, <2>4 DEF e
<1>11. Sum(c, s, h) = NetOf(recordings, c, h)
  <2> DEFINE f == [j \in DOMAIN s |-> c.terms[j].sign * s[j].hours[h].kw]
             g == [j \in DOMAIN c.terms |->
                     c.terms[j].sign * GainOf(recordings[c.terms[j].entity], h)]
  <2>1. f = g
    BY <1>4, <1>10
  <2>2. Sum(c, s, h) = SumFunction(f) /\ NetOf(recordings, c, h) = SumFunction(g)
    BY DEF Sum, NetOf
  <2> HIDE DEF f, g
  <2>3. QED
    BY <2>1, <2>2
<1>12. R.hours[h].kw[i] = Max({0, NetOf(recordings, c, h)})
  BY <1>1, <1>6, <1>8, <1>11
<1>13. QED
  BY <1>10, <1>12

-----------------------------------------------------------------------------
(* The retained history. *)

\* Retention keeps the newest hours, and no more than it allows.
LEMMA RetainedIs ==
  ASSUME NEW F, DOMAIN F \in SUBSET Int, IsFiniteSet(DOMAIN F), DOMAIN F # {}, NEW l,
         ~Failed(Retained(F, l))
  PROVE  LET R == Retained(F, l)
         IN /\ Covered(R) \in SUBSET DOMAIN F /\ Covered(R) # {}
            /\ Contiguous(Covered(R)) /\ Cardinality(Covered(R)) <= Retention
            /\ \A h \in Covered(R) : R.hours[h] = F[h]
            /\ R.latest = l
<1> DEFINE D == DOMAIN F
           Newer(h) == {g \in D : g > h}
           newest == {h \in D : Cardinality(Newer(h)) < Retention}
           R == Retained(F, l)
<1>1. Failed(Error("rejected"))
  BY DEF Failed, Error
<1>2. /\ Contiguous(newest)
      /\ R = [hours |-> Restrict(F, newest), latest |-> l]
  BY <1>1 DEF Retained
<1>3. Covered(R) = newest /\ R.latest = l /\ \A h \in newest : R.hours[h] = F[h]
  BY <1>2 DEF Covered, Restrict
<1>4. Retention \in Nat \ {0}
  BY WidthAssumption
<1> HIDE DEF R
<1>5. newest # {}
  <2>1. Max(D) \in D /\ \A h \in D : h <= Max(D)
    BY MaxIs
  <2>2. Newer(Max(D)) = {}
    BY <2>1
  <2>3. Cardinality(Newer(Max(D))) = 0
    BY <2>2, FS_EmptySet
  <2>4. QED
    BY <1>4, <2>1, <2>3
<1>6. Cardinality(newest) <= Retention
  <2>1. IsFiniteSet(newest) /\ newest \in SUBSET Int
    BY FS_Subset
  <2>2. Min(newest) \in newest /\ \A h \in newest : Min(newest) <= h
    BY <1>5, <2>1, MinIs
  <2> DEFINE m == Min(newest)
             rest == newest \ {m}
  <2>3. m \in D /\ Cardinality(Newer(m)) < Retention
    BY <2>2
  <2>4. rest \subseteq Newer(m)
    <3>1. \A h \in rest : h \in D /\ h \in Int /\ m <= h /\ h # m /\ m \in Int
      BY <2>1, <2>2
    <3> HIDE DEF m, rest
    <3>2. QED
      BY <3>1
  <2>5. IsFiniteSet(Newer(m))
    BY FS_Subset
  <2>6. m \in newest
    BY <2>2
  <2> HIDE DEF m, newest
  <2>7. Cardinality(rest) <= Cardinality(Newer(m))
    BY <2>4, <2>5, FS_Subset
  <2>8. Cardinality(rest) = Cardinality(newest) - 1
    BY <2>1, <2>6, FS_RemoveElement
  <2>9. Cardinality(newest) \in Nat /\ Cardinality(Newer(m)) \in Nat
    BY <2>1, <2>5, FS_CardinalityType
  <2>10. QED
    BY <1>4, <2>3, <2>7, <2>8, <2>9
<1>7. newest \in SUBSET D
  OBVIOUS
<1>8. QED
  BY <1>2, <1>3, <1>5, <1>6, <1>7 DEF R

\* One hour of an acceptable record.
Row(row) ==
  LET kw == Range(row.kw)
  IN /\ kw = {None} <=> row.causes # {}
     /\ None \in kw => kw = {None}
     /\ \A v \in kw \ {None} : v >= 0

LEMMA AcceptableIs ==
  ASSUME NEW record
  PROVE  Acceptable(record) <=>
           Covered(record) # {} /\ \A h \in Covered(record) : Row(record.hours[h])
BY DEF Acceptable, Row

\* An hour nobody observed.
LEMMA GapRow ==
  ASSUME NEW width \in Nat \ {0}
  PROVE  Row([kw |-> [i \in 1..width |-> None], causes |-> {"history_unavailable"}])
<1> DEFINE f == [i \in 1..width |-> None]
           row == [kw |-> f, causes |-> {"history_unavailable"}]
<1>1. 1 \in 1..width
  OBVIOUS
<1>2. Range(f) = {None}
  BY <1>1 DEF Range
<1>3. row.kw = f /\ row.causes # {}
  OBVIOUS
<1> HIDE DEF f, row
<1>4. Row(row)
  BY <1>2, <1>3 DEF Row
<1>5. QED
  BY <1>4 DEF row, f

\* What is known of a stored history.
StoredOk(r, end) ==
  /\ Acceptable(r) /\ Contiguous(Covered(r)) /\ Cardinality(Covered(r)) <= Retention
  /\ Covered(r) \in SUBSET Int /\ IsFiniteSet(Covered(r))
  /\ \A h \in Covered(r) : h < end
  /\ r.latest \in Int /\ r.latest <= end * Width

\* The hours a merge holds, before retention.
LEMMA JointHours ==
  ASSUME NEW existing, NEW incoming, NEW width \in Nat \ {0},
         NEW a \in Int, NEW b \in Int, NEW current, Spans(incoming, a, b, current),
         StoredOk(existing, b), \A h \in Covered(existing) : h < a, Acceptable(incoming)
  PROVE  LET F == Over(incoming.hours,
                       Over(Unavailable(existing, incoming, width), existing.hours))
         IN /\ DOMAIN F \in SUBSET Int /\ IsFiniteSet(DOMAIN F) /\ DOMAIN F # {}
            /\ \A h \in DOMAIN F : h < b /\ Row(F[h])
            /\ \A h \in Covered(existing) : F[h] = existing.hours[h]
            /\ \A h \in Covered(incoming) : F[h] = incoming.hours[h]
            /\ \A h \in DOMAIN F : F[h].causes = {} =>
                                      h \in Covered(existing) \cup Covered(incoming)
<1> DEFINE U == Unavailable(existing, incoming, width)
           old == existing.hours
           new == incoming.hours
           G == Over(U, old)
           F == Over(new, G)
           E == Covered(existing)
           I == Covered(incoming)
           last == Max(E)
           first == Min(I)
           gap == [kw |-> [i \in 1..width |-> None], causes |-> {"history_unavailable"}]
<1>1. /\ E \in SUBSET Int /\ IsFiniteSet(E) /\ E # {} /\ \A h \in E : h < a /\ h < b
      /\ \A h \in E : Row(old[h])
      /\ E = DOMAIN old
  BY AcceptableIs DEF StoredOk, Covered
<1>2. /\ I \in SUBSET Int /\ IsFiniteSet(I) /\ I # {} /\ \A h \in I : a <= h /\ h < b
      /\ \A h \in I : Row(new[h])
      /\ I = DOMAIN new
  <2>1. I \in SUBSET (a..b - 1) /\ I # {}
    BY DEF Spans
  <2>2. IsFiniteSet(a..b - 1)
    BY FS_Interval
  <2>3. IsFiniteSet(I)
    BY <2>1, <2>2, FS_Subset
  <2>4. \A h \in a..b - 1 : h \in Int /\ a <= h /\ h < b
    OBVIOUS
  <2>5. \A h \in I : Row(new[h])
    BY AcceptableIs
  <2>6. I = DOMAIN new
    BY DEF Covered
  <2>7. QED
    BY <2>1, <2>3, <2>4, <2>5, <2>6
<1> HIDE DEF E, I
<1>3. last \in E /\ last \in Int /\ \A h \in E : h <= last
  BY <1>1, MaxIs
<1>4. first \in I /\ first \in Int /\ first < b
  BY <1>2, MinIs
<1>5. DOMAIN U = last + 1..first - 1 /\ \A h \in DOMAIN U : U[h] = gap
  BY DEF Unavailable, E, I
<1>6. Row(gap) /\ gap.causes # {}
  BY GapRow
<1> HIDE DEF U, last, first, gap, old, new
<1>7. /\ DOMAIN G = DOMAIN U \cup E
      /\ \A h \in DOMAIN U : G[h] = U[h]
      /\ \A h \in E \ DOMAIN U : G[h] = old[h]
  BY <1>1, OverIs
<1> HIDE DEF G
<1>8. /\ DOMAIN F = I \cup DOMAIN G
      /\ \A h \in I : F[h] = new[h]
      /\ \A h \in DOMAIN G \ I : F[h] = G[h]
  BY <1>2, OverIs
<1> HIDE DEF F
<1>9. \A h \in DOMAIN U : h \in Int /\ last < h /\ h < b
  BY <1>3, <1>4, <1>5
<1>10. \A h \in E : h \notin I /\ h \notin DOMAIN U
  <2>1. TAKE h \in E
  <2>2. h \in Int /\ h < a /\ h <= last
    BY <1>1, <1>3
  <2>3. h \notin I
    BY <1>2, <2>2
  <2>4. h \notin DOMAIN U
    BY <1>3, <1>9, <2>2
  <2>5. QED
    BY <2>3, <2>4
<1>11. \A h \in E : F[h] = old[h]
  BY <1>7, <1>8, <1>10
<1>12. \A h \in DOMAIN F : h \in Int /\ h < b /\ Row(F[h])
  <2>1. TAKE h \in DOMAIN F
  <2>2. CASE h \in I
    BY <1>2, <1>8, <2>2
  <2>3. CASE h \in E
    BY <1>1, <1>11, <2>3
  <2>4. CASE h \notin I /\ h \in DOMAIN U
    BY <1>5, <1>6, <1>7, <1>8, <1>9, <2>4
  <2>5. QED
    BY <1>7, <1>8, <2>2, <2>3, <2>4
<1>13. IsFiniteSet(DOMAIN F)
  <2>1. IsFiniteSet(DOMAIN U)
    BY <1>3, <1>4, <1>5, FS_Interval
  <2>2. IsFiniteSet(DOMAIN G)
    BY <1>1, <1>7, <2>1, FS_Union
  <2>3. IsFiniteSet(I \cup DOMAIN G)
    BY <1>2, <2>2, FS_Union
  <2>4. QED
    BY <1>8, <2>3
<1>14. DOMAIN F \in SUBSET Int /\ DOMAIN F # {}
  BY <1>2, <1>8, <1>12
<1>15. \A h \in DOMAIN F : F[h].causes = {} => h \in E \cup I
  <2>1. TAKE h \in DOMAIN F
  <2>2. CASE h \notin I /\ h \in DOMAIN U
    <3>1. F[h] = gap
      BY <1>5, <1>7, <1>8, <2>2
    <3>2. QED
      BY <1>6, <3>1
  <2>3. QED
    BY <1>7, <1>8, <2>2
<1>16. QED
  BY <1>8, <1>11, <1>12, <1>13, <1>14, <1>15 DEF F, G, U, E, I, old, new

\* What a merge that succeeds retains.
LEMMA MergedIs ==
  ASSUME NEW existing, NEW incoming, NEW width \in Nat \ {0},
         NEW a \in Int, NEW b \in Int, NEW current \in BOOLEAN,
         Spans(incoming, a, b, current),
         existing # None => StoredOk(existing, b) /\ \A h \in Covered(existing) : h < a,
         ~Failed(Merged(existing, incoming, width))
  PROVE  LET M == Merged(existing, incoming, width)
         IN /\ StoredOk(M, b)
            /\ current => M.latest = b * Width
            /\ existing # None => \A h \in Covered(existing) \cap Covered(M) :
                                    M.hours[h] = existing.hours[h]
            /\ \A h \in Covered(M) : M.hours[h].causes = {} =>
                 \/ existing # None /\ h \in Covered(existing)
                 \/ h \in Covered(incoming) /\ M.hours[h] = incoming.hours[h]
<1> DEFINE M == Merged(existing, incoming, width)
           to == b * Width
<1>1. Failed(Error("rejected"))
  BY DEF Failed, Error
<1>2. Acceptable(incoming)
  BY <1>1 DEF Merged
<1>3. /\ Covered(incoming) # {} /\ \A h \in Covered(incoming) : Row(incoming.hours[h])
      /\ Covered(incoming) = DOMAIN incoming.hours
      /\ Covered(incoming) \in SUBSET (a..b - 1)
      /\ incoming.latest \in Int /\ incoming.latest <= to
      /\ current => incoming.latest = to
  BY <1>2, AcceptableIs DEF Spans, Covered
<1>20. to \in Int
  BY WidthAssumption, HourTimes
<1> HIDE DEF to
<1>4. ASSUME NEW F, NEW l, M = Retained(F, l),
             DOMAIN F \in SUBSET Int, IsFiniteSet(DOMAIN F), DOMAIN F # {},
             \A h \in DOMAIN F : h < b /\ Row(F[h]),
             l \in Int, l <= to
      PROVE  /\ StoredOk(M, b) /\ M.latest = l /\ Covered(M) \subseteq DOMAIN F
             /\ \A h \in Covered(M) : M.hours[h] = F[h]
  <2>1. ~Failed(Retained(F, l))
    BY <1>4
  <2>2. /\ Covered(M) \in SUBSET DOMAIN F /\ Covered(M) # {}
        /\ Contiguous(Covered(M)) /\ Cardinality(Covered(M)) <= Retention
        /\ \A h \in Covered(M) : M.hours[h] = F[h]
        /\ M.latest = l
    BY <1>4, <2>1, RetainedIs
  <2> HIDE DEF M
  <2>3. Acceptable(M)
    BY <1>4, <2>2, AcceptableIs
  <2>4. IsFiniteSet(Covered(M)) /\ Covered(M) \in SUBSET Int
    BY <1>4, <2>2, FS_Subset
  <2>5. QED
    BY <1>4, <2>2, <2>3, <2>4 DEF StoredOk, to
<1>5. CASE existing = None
  <2> DEFINE F == incoming.hours
  <2>1. M = Retained(F, incoming.latest)
    BY <1>2, <1>5 DEF Merged
  <2>2. \A h \in a..b - 1 : h \in Int /\ h < b
    OBVIOUS
  <2>3. IsFiniteSet(a..b - 1)
    BY FS_Interval
  <2>4. DOMAIN F \in SUBSET Int /\ IsFiniteSet(DOMAIN F) /\ DOMAIN F # {}
    BY <1>3, <2>2, <2>3, FS_Subset
  <2>5. \A h \in DOMAIN F : h < b /\ Row(F[h])
    BY <1>3, <2>2
  <2> HIDE DEF F, M
  <2>6. /\ StoredOk(M, b) /\ M.latest = incoming.latest /\ Covered(M) \subseteq DOMAIN F
        /\ \A h \in Covered(M) : M.hours[h] = F[h]
    BY <1>3, <1>4, <2>1, <2>4, <2>5
  <2>7. \A h \in Covered(M) : h \in Covered(incoming) /\ M.hours[h] = incoming.hours[h]
    BY <1>3, <2>6 DEF F
  <2>8. QED
    BY <1>3, <1>5, <2>6, <2>7 DEF M, to
<1>6. CASE existing # None
  <2> DEFINE F == Over(incoming.hours,
                       Over(Unavailable(existing, incoming, width), existing.hours))
             l == Max({existing.latest, incoming.latest})
  <2>1. M = Retained(F, l)
    BY <1>2, <1>6 DEF Merged
  <2>2. /\ DOMAIN F \in SUBSET Int /\ IsFiniteSet(DOMAIN F) /\ DOMAIN F # {}
        /\ \A h \in DOMAIN F : h < b /\ Row(F[h])
        /\ \A h \in Covered(existing) : F[h] = existing.hours[h]
        /\ \A h \in Covered(incoming) : F[h] = incoming.hours[h]
        /\ \A h \in DOMAIN F : F[h].causes = {} =>
                                  h \in Covered(existing) \cup Covered(incoming)
    BY <1>2, <1>6, JointHours
  <2>3. existing.latest \in Int /\ existing.latest <= to
    BY <1>6 DEF StoredOk, to
  <2>4. l \in Int /\ l <= to /\ (current => l = to)
    <3> DEFINE L == {existing.latest, incoming.latest}
    <3>1. L \in SUBSET Int /\ L # {}
      BY <1>3, <2>3
    <3>2. IsFiniteSet({existing.latest}) /\ IsFiniteSet({incoming.latest})
      BY FS_Singleton
    <3>3. IsFiniteSet(L)
      <4>1. L = {existing.latest} \cup {incoming.latest}
        OBVIOUS
      <4>2. QED
        BY <3>2, <4>1, FS_Union
    <3>4. Max(L) \in L /\ \A x \in L : x <= Max(L)
      BY <3>1, <3>3, MaxIs
    <3>5. l = existing.latest \/ l = incoming.latest
      BY <3>4
    <3>6. incoming.latest <= l
      BY <3>4
    <3> HIDE DEF l
    <3>7. QED
      BY <1>3, <1>20, <2>3, <3>5, <3>6
  <2> HIDE DEF F, l, M
  <2>5. /\ StoredOk(M, b) /\ M.latest = l /\ Covered(M) \subseteq DOMAIN F
        /\ \A h \in Covered(M) : M.hours[h] = F[h]
    BY <1>4, <2>1, <2>2, <2>4
  <2>6. ASSUME NEW h \in Covered(M), M.hours[h].causes = {}
        PROVE  \/ h \in Covered(existing)
               \/ h \in Covered(incoming) /\ M.hours[h] = incoming.hours[h]
    BY <2>2, <2>5, <2>6
  <2>7. QED
    BY <1>6, <2>2, <2>4, <2>5, <2>6 DEF M, to
<1>7. QED
  BY <1>5, <1>6

-----------------------------------------------------------------------------
(* Failures.  Why an import failed is never told as a success. *)

NotSaved(result) == Failed(result) => result.error # "saved"

\* What a failure says.
LEMMA ErrorIs == \A why : Failed(Error(why)) /\ Error(why).error = why
BY DEF Failed, Error

\* A series or record is not a failure.
LEMMA NoError == \A hours, latest : ~Failed([hours |-> hours, latest |-> latest])
BY DEF Failed

\* normalize_counter_history fails with a reason of its own.
LEMMA NormalizedFailure ==
  ASSUME NEW samples, NEW from, NEW to
  PROVE  NotSaved(Normalized(samples, from, to))
<1> DEFINE N == Normalized(samples, from, to)
<1>1. \/ N = Error("no history") \/ N = Error("duplicate timestamps")
      \/ N = Error("no complete hour")
      \/ \E hours, latest : N = [hours |-> hours, latest |-> latest]
  BY DEF Normalized
<1> HIDE DEF N
<1>2. QED
  BY <1>1, ErrorIs, NoError DEF NotSaved, N

\* An aggregate fails with a reason of an entity or its own.
LEMMA AggregatedFailure ==
  ASSUME NEW channel, NEW series, \A i \in DOMAIN series : NotSaved(series[i])
  PROVE  NotSaved(Aggregated(channel, series))
<1> DEFINE A == Aggregated(channel, series)
           errors == AggregateError(channel, series)
<1>1. \A e \in errors : NotSaved(e)
  <2>1. \A s \in Range(series) : NotSaved(s)
    BY DEF Range
  <2>2. NotSaved(Error("no complete hour"))
    BY ErrorIs DEF NotSaved
  <2>3. QED
    BY <2>1, <2>2 DEF AggregateError
<1>2. \/ errors # {} /\ A = CHOOSE e \in errors : TRUE
      \/ \E hours, latest : A = [hours |-> hours, latest |-> latest]
  BY DEF Aggregated
<1> HIDE DEF A, errors
<1>3. QED
  BY <1>1, <1>2, NoError DEF NotSaved, A

\* A record fails with a reason of a channel or its own.
LEMMA CombinedFailure ==
  ASSUME NEW channels, \A i \in DOMAIN channels : NotSaved(channels[i])
  PROVE  NotSaved(Combined(channels))
<1> DEFINE C == Combined(channels)
           errors == {c \in Range(channels) : Failed(c)}
<1>1. \A e \in errors : NotSaved(e)
  BY DEF Range
<1>2. \/ errors # {} /\ C = CHOOSE e \in errors : TRUE
      \/ C = Error("no complete hour")
      \/ \E hours, latest : C = [hours |-> hours, latest |-> latest]
  BY DEF Combined
<1> HIDE DEF C, errors
<1>3. QED
  BY <1>1, <1>2, ErrorIs, NoError DEF NotSaved, C

\* What building a record can fail with.
LEMMA RecordFailure ==
  ASSUME NEW recordings, NEW from, NEW to
  PROVE  NotSaved(Record(recordings, from, to))
<1> DEFINE Series(term) == Normalized(Samples(recordings[term.entity], from, to), from, to)
           all(c) == [i \in DOMAIN c.terms |-> Series(c.terms[i])]
           Channel(c) == Aggregated(c, all(c))
           cs == [i \in DOMAIN Channels |-> Channel(Channels[i])]
<1>1. Record(recordings, from, to) = Combined(cs)
  BY TabulatedIs DEF Record
<1>2. \A c : \A i \in DOMAIN all(c) : NotSaved(all(c)[i])
  BY NormalizedFailure
<1> HIDE DEF all
<1>3. \A c : NotSaved(Channel(c))
  BY <1>2, AggregatedFailure
<1> HIDE DEF Channel
<1>4. \A i \in DOMAIN cs : NotSaved(cs[i])
  BY <1>3
<1> HIDE DEF cs
<1>5. QED
  BY <1>1, <1>4, CombinedFailure

\* What merging can fail with.
LEMMA MergedFailure ==
  ASSUME NEW existing, NEW incoming, NEW width
  PROVE  NotSaved(Merged(existing, incoming, width))
<1> DEFINE M == Merged(existing, incoming, width)
<1>1. ASSUME NEW hours, NEW latest
      PROVE  NotSaved(Retained(hours, latest))
  <2> DEFINE R == Retained(hours, latest)
  <2>1. \/ R = Error("rejected")
        \/ \E left : R = [hours |-> left, latest |-> latest]
    BY DEF Retained
  <2> HIDE DEF R
  <2>2. QED
    BY <2>1, ErrorIs, NoError DEF NotSaved, R
<1>2. M = Error("rejected") \/ \E hours, latest : M = Retained(hours, latest)
  BY DEF Merged
<1> HIDE DEF M
<1>3. NotSaved(M)
  BY <1>1, <1>2, ErrorIs DEF NotSaved
<1>4. QED
  BY <1>3 DEF M

-----------------------------------------------------------------------------
(* The growing history. *)

\* A stored hour that nothing excludes holds what the counters gained in it.
HoursTrue ==
  stored # None =>
    \A h \in Covered(stored) : stored.hours[h].causes = {} =>
      \A i \in DOMAIN Channels : stored.hours[h].kw[i] = Max({0, Gain(Channels[i], h)})

\* The stored history is a loadable one of full hours that have passed, and true.
EnergyInv ==
  /\ recorder \in Recorders
  /\ clock \in 0..MaxHours /\ kept \in 0..clock * Width /\ purges \in 0..MaxPurges
  /\ stored # None => StoredOk(stored, clock)
  /\ HoursTrue
  /\ HealthyIsCurrent

\* What Home Assistant still holds.
LEMMA HeldIs ==
  ASSUME recorder \in Recorders, kept \in Int, NEW e \in Entities
  PROVE  /\ IsRecording(recorder[e]) /\ IsRecording(Held(e)) /\ Counts(Held(e))
         /\ \A t \in Int : InForce(Held(e), t) # Silent =>
              InForce(Held(e), t) = InForce(recorder[e], t)
<1>1. IsRecording(recorder[e])
  BY RecorderAssumption DEF IsRecording
<1>2. Counts(Held(e))
  <2>1. ASSUME NEW t \in Reported(Held(e))
        PROVE  t \in DOMAIN recorder[e] /\ Held(e)[t] = recorder[e][t] /\ Held(e)[t] # Silent
    BY DEF Reported, Held
  <2>2. QED
    BY <2>1, RecorderAssumption DEF Counts
<1>3. QED
  BY <1>1, <1>2, PurgedIs DEF Held

\* What an import may read of a channel is what the recorder holds of it.
LEMMA HeldGain ==
  ASSUME recorder \in Recorders, kept \in Int, NEW h \in Int, NEW i \in DOMAIN Channels,
         \A j \in DOMAIN Channels[i].terms :
           InForce(Held(Channels[i].terms[j].entity), h * Width) # Silent
  PROVE  NetOf([e \in Entities |-> Held(e)], Channels[i], h) = Gain(Channels[i], h)
<1> DEFINE terms == Channels[i].terms
           helds == [e \in Entities |-> Held(e)]
           f == [j \in DOMAIN terms |-> terms[j].sign * GainOf(helds[terms[j].entity], h)]
           g == [j \in DOMAIN terms |->
                   terms[j].sign * (Reading(terms[j].entity, (h + 1) * Width).value
                                      - Reading(terms[j].entity, h * Width).value)]
           l == h * Width
           u == (h + 1) * Width
<1>1. l \in Int /\ u \in Int /\ l <= u
  BY WidthAssumption, HourTimes
<1> HIDE DEF l, u
<1>2. ASSUME NEW j \in DOMAIN terms
      PROVE  GainOf(helds[terms[j].entity], h) =
               Reading(terms[j].entity, u).value - Reading(terms[j].entity, l).value
  <2> DEFINE e == terms[j].entity
  <2>1. e \in Entities /\ helds[e] = Held(e)
    BY ChannelTerms
  <2>2. InForce(Held(e), l) # Silent
    BY DEF l
  <2> HIDE DEF e
  <2>3. IsRecording(Held(e))
    BY <2>1, HeldIs
  <2>4. InForce(Held(e), u) # Silent
    BY <1>1, <2>2, <2>3, InForceStays
  <2>5. /\ InForce(Held(e), l) = Reading(e, l)
        /\ InForce(Held(e), u) = Reading(e, u)
    BY <1>1, <2>1, <2>2, <2>4, HeldIs DEF Reading
  <2>6. GainOf(helds[e], h) = Reading(e, u).value - Reading(e, l).value
    BY <2>1, <2>5 DEF GainOf, l, u
  <2>7. QED
    BY <2>6 DEF e
<1>3. f = g
  BY <1>2 DEF l, u
<1>4. NetOf(helds, Channels[i], h) = SumFunction(f) /\ Gain(Channels[i], h) = SumFunction(g)
  BY DEF NetOf, Gain
<1> HIDE DEF f, g
<1>5. QED
  BY <1>3, <1>4

\* The period of an import.
LEMMA PeriodIs ==
  ASSUME clock \in Int, stored # None => StoredOk(stored, clock)
  PROVE  \E a \in Int :
           /\ ImportStart = a * Width /\ ImportEnd = clock * Width
           /\ stored # None => /\ \A h \in Covered(stored) : h < a
                               /\ a <= clock /\ ImportStart <= ImportEnd
           /\ ImportStart < ImportEnd => a < clock
<1>1. Width \in Nat \ {0} /\ Retention \in Nat \ {0}
  BY WidthAssumption
<1> DEFINE a == IF stored = None THEN clock - Retention ELSE Max(Covered(stored)) + 1
<1>2. a \in Int /\ ImportStart = a * Width
      /\ (stored # None => a <= clock /\ \A h \in Covered(stored) : h < a)
  <2>1. CASE stored = None
    <3>1. ImportStart = clock * Width - Retention * Width
      BY <2>1 DEF ImportStart, ImportEnd
    <3>2. clock * Width - Retention * Width = (clock - Retention) * Width
      BY <1>1
    <3>3. QED
      BY <1>1, <2>1, <3>1, <3>2
  <2>2. CASE stored # None
    <3> DEFINE m == Max(Covered(stored))
    <3>1. /\ Covered(stored) \in SUBSET Int /\ IsFiniteSet(Covered(stored))
          /\ Covered(stored) # {} /\ \A h \in Covered(stored) : h < clock
      BY <2>2, AcceptableIs DEF StoredOk
    <3>2. m \in Covered(stored) /\ \A h \in Covered(stored) : h <= m
      BY <3>1, MaxIs
    <3>3. m \in Int /\ m < clock
      BY <3>1, <3>2
    <3>4. ImportStart = (m + 1) * Width
      BY <2>2 DEF ImportStart
    <3> HIDE DEF m
    <3>5. m + 1 \in Int /\ m + 1 <= clock /\ \A h \in Covered(stored) : h < m + 1
      BY <3>1, <3>2, <3>3
    <3>6. a = m + 1
      BY <2>2 DEF m
    <3>7. QED
      BY <3>4, <3>5, <3>6
  <2>3. QED
    BY <2>1, <2>2
<1> HIDE DEF a
<1>3. ImportEnd = clock * Width
  BY DEF ImportEnd
<1>4. a <= clock => a * Width <= clock * Width
  BY <1>1, <1>2, HourTimes
<1>5. a * Width < clock * Width => a < clock
  BY <1>1, <1>2, HourTimes
<1>6. QED
  BY <1>2, <1>3, <1>4, <1>5

\* What an import saves.
LEMMA ImportSaves ==
  ASSUME EnergyInv, Import, stored' # stored \/ outcome' = "saved"
  PROVE  /\ StoredOk(stored', clock)
         /\ (\A e \in Entities : Reading(e, ImportEnd).usable) => stored'.latest = ImportEnd
         /\ stored # None => \A h \in Covered(stored) \cap Covered(stored') :
                               stored'.hours[h] = stored.hours[h]
         /\ \A h \in Covered(stored') : stored'.hours[h].causes = {} =>
              \A i \in DOMAIN Channels :
                stored'.hours[h].kw[i] = Max({0, Gain(Channels[i], h)})
<1> DEFINE helds == [e \in Entities |-> Held(e)]
           incoming == Record(helds, ImportStart, ImportEnd)
           merged == Merged(stored, incoming, Len(Channels))
           usable == AllUsable(helds, ImportEnd)
<1>1. clock \in Int /\ kept \in Int /\ recorder \in Recorders
  BY DEF EnergyInv
<1>2. stored # None => StoredOk(stored, clock)
  BY DEF EnergyInv
<1>3. PICK a \in Int :
        /\ ImportStart = a * Width /\ ImportEnd = clock * Width
        /\ stored # None => \A h \in Covered(stored) : h < a
        /\ ImportStart < ImportEnd => a < clock
  BY <1>1, <1>2, PeriodIs
<1>4. ImportStart < ImportEnd /\ ~Failed(incoming) /\ ~Failed(merged) /\ stored' = merged
  <2>1. outcome' = "saved" => stored' # stored \/ (~Failed(incoming) /\ ~Failed(merged))
    <3>1. NotSaved(incoming) /\ NotSaved(merged)
      BY RecordFailure, MergedFailure
    <3>2. QED
      BY <3>1 DEF Import, NotSaved
  <2>2. QED
    BY <2>1 DEF Import
<1>5. \A e \in Entities : IsRecording(helds[e]) /\ Counts(helds[e])
  BY <1>1, HeldIs
<1>6. Spans(incoming, a, clock, usable)
  BY <1>1, <1>3, <1>4, <1>5, RecordIs
<1>7. usable \in BOOLEAN
  BY DEF AllUsable
<1>8. Len(Channels) \in Nat \ {0}
  <2>1. \E S : Channels \in Seq(S) /\ Channels # <<>>
    BY ChannelAssumption
  <2>2. QED
    BY <2>1, EmptySeq
<1>9. (\A e \in Entities : Reading(e, ImportEnd).usable) => usable
  <2>1. ImportEnd \in Int
    BY <1>1, <1>3, WidthAssumption, HourTimes
  <2>2. ASSUME NEW e \in Entities, InForce(helds[e], ImportEnd) # Silent
        PROVE  InForce(helds[e], ImportEnd) = Reading(e, ImportEnd)
    BY <1>1, <2>1, <2>2, HeldIs DEF Reading
  <2>3. QED
    BY <2>2 DEF AllUsable
<1>12. ASSUME NEW h \in Covered(incoming), incoming.hours[h].causes = {},
              NEW i \in DOMAIN Channels
       PROVE  incoming.hours[h].kw[i] = Max({0, Gain(Channels[i], h)})
  <2>1. a < clock /\ incoming = Record(helds, a * Width, clock * Width)
    BY <1>3, <1>4
  <2>2. h \in Int
    <3>1. Covered(incoming) \in SUBSET (a..clock - 1)
      BY <1>6 DEF Spans
    <3> HIDE DEF incoming
    <3>2. QED
      BY <3>1
  <2>7. clock \in Int /\ ~Failed(incoming)
    BY <1>1, <1>4
  <2> HIDE DEF incoming, helds, merged, usable
  <2>8. incoming.hours[h].causes = {}
    BY <1>12
  <2>3. /\ incoming.hours[h].kw[i] = Max({0, NetOf(helds, Channels[i], h)})
        /\ \A j \in DOMAIN Channels[i].terms :
             InForce(helds[Channels[i].terms[j].entity], h * Width) # Silent
    BY <1>5, <2>1, <2>7, <2>8, RecordGain
  <2>4. \A j \in DOMAIN Channels[i].terms :
          InForce(Held(Channels[i].terms[j].entity), h * Width) # Silent
    <3>1. \A e \in Entities : helds[e] = Held(e)
      BY DEF helds
    <3>2. QED
      BY <2>3, <3>1, ChannelTerms
  <2>5. NetOf(helds, Channels[i], h) = Gain(Channels[i], h)
    BY <1>1, <2>2, <2>4, HeldGain DEF helds
  <2>6. QED
    BY <2>3, <2>5
<1> HIDE DEF incoming, usable, helds
<1>10. /\ StoredOk(merged, clock)
       /\ usable => merged.latest = clock * Width
       /\ stored # None => \A h \in Covered(stored) \cap Covered(merged) :
                             merged.hours[h] = stored.hours[h]
       /\ \A h \in Covered(merged) : merged.hours[h].causes = {} =>
            \/ stored # None /\ h \in Covered(stored)
            \/ h \in Covered(incoming) /\ merged.hours[h] = incoming.hours[h]
  BY <1>1, <1>2, <1>3, <1>4, <1>6, <1>7, <1>8, MergedIs
<1> HIDE DEF merged
<1>13. ASSUME NEW h \in Covered(merged), merged.hours[h].causes = {},
              NEW i \in DOMAIN Channels
       PROVE  merged.hours[h].kw[i] = Max({0, Gain(Channels[i], h)})
  <2>1. CASE stored # None /\ h \in Covered(stored)
    <3>1. merged.hours[h] = stored.hours[h]
      BY <1>10, <2>1
    <3>2. HoursTrue
      BY DEF EnergyInv
    <3>3. QED
      BY <1>13, <2>1, <3>1, <3>2 DEF HoursTrue
  <2>2. CASE h \in Covered(incoming) /\ merged.hours[h] = incoming.hours[h]
    BY <1>12, <1>13, <2>2
  <2>3. QED
    BY <1>10, <1>13, <2>1, <2>2
<1>11. QED
  BY <1>3, <1>4, <1>9, <1>10, <1>13

\* An empty history.
LEMMA EnergyInit == Init => EnergyInv
BY BoundAssumption, WidthAssumption DEF Init, EnergyInv, HealthyIsCurrent, HoursTrue

\* Every step keeps the invariant.
LEMMA EnergyStep ==
  ASSUME EnergyInv, [Next]_vars
  PROVE  EnergyInv'
<1>1. /\ recorder \in Recorders /\ clock \in 0..MaxHours /\ clock \in Int
      /\ kept \in 0..clock * Width /\ purges \in 0..MaxPurges
      /\ stored # None => StoredOk(stored, clock)
      /\ HoursTrue
      /\ MaxHours \in Nat /\ MaxPurges \in Nat /\ Width \in Nat \ {0}
  BY BoundAssumption, WidthAssumption DEF EnergyInv
<1>2. clock * Width \in Int /\ (clock + 1) * Width = clock * Width + Width
  BY <1>1, HourTimes
<1>8. recorder' = recorder /\ stored' = stored => HoursTrue'
  <2>1. SUFFICES ASSUME recorder' = recorder, stored' = stored
                 PROVE  HoursTrue'
    OBVIOUS
  <2>2. \A e, t : Reading(e, t)' = Reading(e, t)
    BY <2>1 DEF Reading
  <2>3. \A c, h : Gain(c, h)' = Gain(c, h)
    BY <2>1 DEF Gain, Reading
  <2>4. QED
    BY <1>1, <2>1, <2>3 DEF HoursTrue
<1>3. CASE Tick
  <2>1. /\ clock < MaxHours /\ clock' = clock + 1 /\ outcome' = "none"
        /\ recorder' = recorder /\ kept' = kept /\ stored' = stored /\ purges' = purges
    BY <1>3 DEF Tick
  <2>2. clock' \in 0..MaxHours
    BY <1>1, <2>1
  <2>3. clock' * Width \in Int /\ clock * Width <= clock' * Width
    BY <1>1, <1>2, <2>1
  <2>4. kept' \in 0..clock' * Width
    BY <1>1, <1>2, <2>1, <2>3
  <2>5. stored' # None => StoredOk(stored', clock')
    <3>1. SUFFICES ASSUME stored # None PROVE StoredOk(stored, clock')
      BY <2>1
    <3>2. /\ \A h \in Covered(stored) : h \in Int /\ h < clock
          /\ stored.latest \in Int /\ stored.latest <= clock * Width
      BY <1>1, <3>1 DEF StoredOk
    <3>3. \A h \in Covered(stored) : h < clock'
      BY <1>1, <2>1, <3>2
    <3>4. stored.latest <= clock' * Width
      BY <1>2, <2>3, <3>2
    <3>5. QED
      BY <1>1, <3>1, <3>3, <3>4 DEF StoredOk
  <2>6. HealthyIsCurrent'
    BY <2>1 DEF HealthyIsCurrent
  <2>7. QED
    BY <1>1, <1>8, <2>1, <2>2, <2>4, <2>5, <2>6 DEF EnergyInv
<1>4. CASE Purge
  <2>1. /\ purges < MaxPurges /\ kept' \in kept + 1..clock * Width /\ purges' = purges + 1
        /\ outcome' = "none"
        /\ recorder' = recorder /\ clock' = clock /\ stored' = stored
    BY <1>4 DEF Purge
  <2>2. purges' \in 0..MaxPurges
    BY <1>1, <2>1
  <2>3. kept' \in 0..clock' * Width
    BY <1>1, <1>2, <2>1
  <2>4. HealthyIsCurrent'
    BY <2>1 DEF HealthyIsCurrent
  <2>5. QED
    BY <1>1, <1>8, <2>1, <2>2, <2>3, <2>4 DEF EnergyInv
<1>5. CASE Import
  <2>1. recorder' = recorder /\ clock' = clock /\ kept' = kept /\ purges' = purges
    BY <1>5 DEF Import
  <2>2. stored' # None => StoredOk(stored', clock)
    <3>1. CASE stored' = stored
      BY <1>1, <3>1
    <3>2. CASE stored' # stored
      BY <1>5, <3>2, ImportSaves
    <3>3. QED
      BY <3>1, <3>2
  <2>3. HealthyIsCurrent'
    <3>1. SUFFICES ASSUME outcome' = "saved" PROVE HealthyIsCurrent'
      BY DEF HealthyIsCurrent
    <3>2. /\ StoredOk(stored', clock)
          /\ (\A e \in Entities : Reading(e, ImportEnd).usable) =>
               stored'.latest = ImportEnd
      BY <1>5, <3>1, ImportSaves
    <3>3. ImportEnd' = ImportEnd /\ ImportEnd = clock * Width
      BY <2>1 DEF ImportEnd
    <3>4. \A e \in Entities : Reading(e, ImportEnd)' = Reading(e, ImportEnd)
      BY <2>1, <3>3 DEF Reading
    <3>5. QED
      BY <3>2, <3>3, <3>4 DEF HealthyIsCurrent, StoredOk
  <2>5. HoursTrue'
    <3>1. CASE stored' = stored
      BY <1>8, <2>1, <3>1
    <3>2. CASE stored' # stored
      <4>1. \A h \in Covered(stored') : stored'.hours[h].causes = {} =>
              \A i \in DOMAIN Channels :
                stored'.hours[h].kw[i] = Max({0, Gain(Channels[i], h)})
        BY <1>5, <3>2, ImportSaves
      <4>2. \A c, h : Gain(c, h)' = Gain(c, h)
        BY <2>1 DEF Gain, Reading
      <4>3. QED
        BY <4>1, <4>2 DEF HoursTrue
    <3>3. QED
      BY <3>1, <3>2
  <2>4. QED
    BY <1>1, <2>1, <2>2, <2>3, <2>5 DEF EnergyInv
<1>6. CASE UNCHANGED vars
  <2>1. /\ recorder' = recorder /\ clock' = clock /\ kept' = kept /\ stored' = stored
        /\ outcome' = outcome /\ purges' = purges
    BY <1>6 DEF vars
  <2>2. HealthyIsCurrent'
    BY <2>1 DEF EnergyInv, HealthyIsCurrent, ImportEnd, Reading
  <2>3. QED
    BY <1>1, <1>8, <2>1, <2>2 DEF EnergyInv
<1>7. QED
  BY <1>3, <1>4, <1>5, <1>6 DEF Next

\* The invariant of an hourly history.
LEMMA EnergyInvariant == Spec => []EnergyInv
<1>1. EnergyInv /\ [Next]_vars => EnergyInv'
  BY EnergyStep
<1>2. QED
  BY <1>1, EnergyInit, PTL DEF Spec

\* Whatever the counters report and Home Assistant purges, a stored history is
\* contiguous, within retention and of acceptable hours, and never ends after the last
\* full hour (_with_points, require_contiguous_hours, grid_flow_points).
THEOREM HistoryTypeCorrect == Spec => []TypeOK
<1>1. ASSUME EnergyInv
      PROVE  TypeOK
  <2>1. clock \in Int /\ (stored # None => StoredOk(stored, clock))
    BY <1>1 DEF EnergyInv
  <2>2. stored # None => ImportStart <= ImportEnd
    BY <2>1, PeriodIs
  <2>3. QED
    BY <1>1, <2>1, <2>2 DEF EnergyInv, TypeOK, StoredOk
<1>2. QED
  BY <1>1, EnergyInvariant, PTL

\* An import after which every counter is usable leaves the source current, however long
\* nothing changed, and none makes it current for a time to come
\* (latest_observation_at).
THEOREM HealthyStaysCurrent == Spec => []HealthyIsCurrent
<1>1. EnergyInv => HealthyIsCurrent
  BY DEF EnergyInv
<1>2. QED
  BY <1>1, EnergyInvariant, PTL

\* An hour without an exclusion holds what the counters gained from its start to its
\* end, summed and clipped as configured, for every way of cutting the readings into
\* imports, answers and purges (normalize_counter_history, EnergyAggregate._build,
\* HomeAssistantGridFlowImporter._combine).
THEOREM IncrementsTrue == Spec => []TrueIncrement
<1>1. EnergyInv => TrueIncrement
  BY DEF EnergyInv, HoursTrue, TrueIncrement, StoredHours
<1>2. QED
  BY <1>1, EnergyInvariant, PTL

\* An import never changes an hour that was stored: it asks for the hours after the last
\* stored one, and the gap it fills lies between them (merge_grid_flow_history).
THEOREM StoredHoursRemain == Spec => StoredHoursStay
<1>1. ASSUME EnergyInv, [Next]_vars
      PROVE  \A h \in StoredHours \cap StoredHours' : stored'.hours[h] = stored.hours[h]
  <2>1. CASE stored' = stored
    BY <2>1
  <2>2. CASE stored' # stored
    <3>1. Import
      BY <1>1, <2>2 DEF Next, Tick, Purge, vars
    <3>2. stored # None => \A h \in Covered(stored) \cap Covered(stored') :
                             stored'.hours[h] = stored.hours[h]
      BY <1>1, <2>2, <3>1, ImportSaves
    <3>3. stored = None => StoredHours = {}
      BY DEF StoredHours
    <3>4. stored # None => StoredHours = Covered(stored)
      BY DEF StoredHours
    <3>5. \A h \in StoredHours' : h \in Covered(stored') \/ stored' = None
      BY DEF StoredHours
    <3>6. stored' = None => StoredHours' = {}
      BY DEF StoredHours
    <3>7. QED
      BY <3>2, <3>3, <3>4, <3>5, <3>6
  <2>3. QED
    BY <2>1, <2>2
<1>2. EnergyInv /\ [Next]_vars =>
        [\A h \in StoredHours \cap StoredHours' : stored'.hours[h] = stored.hours[h]]_vars
  BY <1>1
<1>3. QED
  BY <1>2, EnergyInvariant, PTL DEF Spec, StoredHoursStay
=============================================================================
