----------------------------- MODULE MCPlanning -----------------------------
(* Days of four hours of two ticks, weeks of two days.  Each setup varies    *)
(* one thing of a plain one.                                                 *)
EXTENDS Planning

CONSTANT Deadlines

Hours == HoursFrom(0, 40)
Flat(loads) == [from |-> -Len(loads), kw |-> loads]
\* Of each kWh drawn the car stores a half; prices are in ct.
Plain ==
  [strategy |-> "deadline", minimum |-> 40, deadline |-> 6, weekly |-> << >>,
   target |-> None, value |-> 0, gain |-> 1, unit |-> "%",
   endOfHorizon |-> "restore_initial", endValue |-> None, wear |-> 10,
   method |-> "auto", provider |-> "open_meteo",
   market |-> [h \in Hours |-> 30], published |-> 10,
   sun |-> [t \in 0..40 |-> 0], reach |-> <<20, 20>>, missing |-> {},
   stamps |-> <<0, 2, 9, 16>>, history |-> Flat(<<1, 1, 1, 1, 1, 1, 1, 1>>),
   plug |-> "on", battery |-> None, maximumImport |-> 5, begin |-> 0, stored |-> 2]

\* Prices: rising, falling, cheapest in the middle, negative at the end.
Rising == [h \in Hours |-> 10 * (Index(h) + 1)]
Falling == [h \in Hours |-> 10 * (9 - Index(h))]
Markets ==
  {Rising, Falling, [h \in Hours |-> IF h = 4 THEN 10 ELSE 30],
   [h \in Hours |-> IF h = 6 THEN -20 ELSE 20]}

Rolling ==
  {[Plain EXCEPT !.market = m, !.deadline = d, !.begin = b, !.stored = s] :
     m \in Markets, d \in Deadlines, b \in {0, 1}, s \in {0, 2, 3}}

\* A car without losses that reports its energy.
Lossless ==
  {[Plain EXCEPT !.gain = 2, !.unit = "kWh", !.minimum = 80, !.market = Falling,
                 !.deadline = d, !.stored = s] : d \in Deadlines, s \in {0, 2}}

Weekends == 1 :> [percent |-> 20, time |-> 4]
Shine(energy) == [t \in 0..40 |-> IF t \in 3..8 THEN energy ELSE 0]

Varied ==
  {[Plain EXCEPT !.weekly = Weekends, !.begin = 7],
   [Plain EXCEPT !.maximumImport = 2, !.minimum = 60],
   [Plain EXCEPT !.maximumImport = 0],
   [Plain EXCEPT !.plug = "off"], [Plain EXCEPT !.plug = None],
   [Plain EXCEPT !.strategy = "immediate"],
   [Plain EXCEPT !.strategy = "minimum_plus_target", !.minimum = 20,
                 !.target = 50, !.value = 60, !.market = Rising],
   [Plain EXCEPT !.reach = <<8, 6>>, !.sun = Shine(1)],
   [Plain EXCEPT !.missing = {6}, !.sun = Shine(1)],
   [Plain EXCEPT !.strategy = "surplus", !.minimum = 30, !.stored = 6],
   [Plain EXCEPT !.published = 2], [Plain EXCEPT !.published = 6]}

Sunny ==
  {[Plain EXCEPT !.sun = Shine(1), !.strategy = s, !.published = 8] :
     s \in {"deadline", "surplus"}}
  \cup {[Plain EXCEPT !.sun = Shine(2), !.provider = "forecast_solar", !.published = 8,
                      !.stamps = st] :
          st \in {<<0, 3, 5, 6, 8, 9, 16>>, <<2, 3, 4, 5, 7, 9, 20>>, <<3, 5, 7, 9>>}}

Battery(soc) ==
  [soc |-> soc, capacity |-> 3, minimum |-> 0, maximum |-> 2, charge |-> 1,
   discharge |-> 1]
\* Each leg loses a half.
Lossy == [Battery(2) EXCEPT !.charge = 2] @@ "loss" :> 2
Ends == {"restore_initial", "value_stored_energy"}

Batteries ==
  {[Plain EXCEPT !.battery = Battery(1), !.published = 6, !.deadline = 4,
                 !.market = [h \in Hours |-> 30 * Index(h)], !.endOfHorizon = e] :
     e \in Ends}
  \cup {[Plain EXCEPT !.battery = Battery(3)]}

\* The energy in the car is as dear as it can get: the market at its limit of
\* 400 ct, the highest wear and value of stored energy that can be configured,
\* and a target that takes the battery; or a market far beyond the limit.
Dear == [h \in Hours |-> 400]
Costly ==
  {[Plain EXCEPT !.battery = Lossy, !.published = 8, !.deadline = 4, !.stored = 4,
                 !.history = Flat(<<2, 2, 0, 0, 2, 2, 0, 0>>), !.maximumImport = 3,
                 !.market = Dear, !.wear = 1000, !.minimum = 60,
                 !.endOfHorizon = e, !.endValue = v] :
     e \in Ends, v \in {None, 1000}}
  \cup {[Plain EXCEPT !.market = [h \in Hours |-> 25000], !.strategy = s, !.target = 50] :
          s \in {"deadline", "minimum_plus_target"}}

\* Loads that a method cannot forecast, or forecasts worse than the other.
Histories ==
  {[Plain EXCEPT !.history = Flat(loads), !.method = m, !.published = 6] :
     loads \in {<<1, None, 2, 1, 1, None, 2, 1>>, <<None, 2, None, None>>,
                <<1, 1, 1, 1, 2, 2, 2, 2, 1, 1, 1, 1, 2, 2, 2, 2, 1, 1, 1, 1>>,
                <<None, None, None, None>>},
     m \in {"auto", "weekday_profile"}}

MCSetups ==
  Rolling \cup Lossless \cup Varied \cup Sunny \cup Batteries \cup Costly \cup Histories
MCRolling == Rolling
All == {"electricity_prices", "pv_generation", "ev", "battery"}
Together == {All}
Apart == {All, {"ev"}}
MCPeak == <<1, 1>>
MCFee == [h \in 0..DayHours - 1 |-> IF h = 2 THEN 20 ELSE 10]
=============================================================================
