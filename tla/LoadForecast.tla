---------------------------- MODULE LoadForecast ----------------------------
(***************************************************************************)
(* The household-load forecast of a plan (load_forecast.py): two methods   *)
(* that are backtested on the history itself, and a profile that fills the *)
(* hours of day without any sample.  Hours are numbered; a history is      *)
(* [from, kw] with one load, or None, per hour.  Samples are whole numbers *)
(* whose means divide; backtest errors are compared exactly.               *)
(***************************************************************************)
EXTENDS Integers, SequencesExt, FiniteSetsExt, Functions

CONSTANTS
  DayHours,       \* HOURS_PER_DAY
  WeekDays, Saturday,
  UtcOffset,      \* local time, in hours; the offset is constant
  RecentDays,     \* SEVEN_DAY_WINDOW
  ProfileDays,    \* WEEKDAY_PROFILE_WINDOW
  MinimumSamples, \* MINIMUM_SAMPLES_PER_PROFILE_HOUR
  None

ASSUME CalendarAssumption ==
  /\ {DayHours, WeekDays, RecentDays, ProfileDays, MinimumSamples} \subseteq Nat \ {0}
  /\ Saturday \in Nat /\ UtcOffset \in Int

\* The function itself; TLC evaluates f once, not anew at every use.
Tabulated(f) == f @@ << >>

LocalHour(h) == (h + UtcOffset) % DayHours
LocalDay(h) == (h + UtcOffset) \div DayHours
IsWeekend(h) == LocalDay(h) % WeekDays >= Saturday

Load(history, h) == history.kw[h - history.from + 1]
End(history) == history.from + Len(history.kw)

\* _recent_samples: the valid hours of the last days.
Recent(history, days) ==
  {h \in Max({history.from, End(history) - days * DayHours})..End(history) - 1 :
     Load(history, h) # None}

Mean(values, over) == MapThenSumSet(LAMBDA h : values[h], over) \div Cardinality(over)
MeanLoad(history, hours) == Mean([h \in hours |-> Load(history, h)], hours)

\* Every hour gets the mean of the samples alike; None if an hour has too few.
FromSamples(history, alike, enough) ==
  IF \E h \in DOMAIN alike : Cardinality(alike[h]) < enough THEN None
  ELSE Tabulated([h \in DOMAIN alike |-> MeanLoad(history, alike[h])])

SevenDayMean(history, hours) ==
  LET samples == Recent(history, RecentDays)
  IN FromSamples(history,
                 [h \in hours |-> {g \in samples : LocalHour(g) = LocalHour(h)}], 1)

WeekdayProfile(history, hours) ==
  LET samples == Recent(history, ProfileDays)
  IN FromSamples(history,
                 [h \in hours |-> {g \in samples : /\ LocalHour(g) = LocalHour(h)
                                                  /\ IsWeekend(g) = IsWeekend(h)}],
                 MinimumSamples)

Methods == <<"seven_day_mean", "weekday_profile">>
Forecast(method, history, hours) ==
  IF method = "seven_day_mean" THEN SevenDayMean(history, hours)
  ELSE WeekdayProfile(history, hours)

-----------------------------------------------------------------------------
Abs(n) == IF n < 0 THEN -n ELSE n

\* _circular_hour_distance
Distance(a, b) == LET d == Abs(a - b) IN Min({d, DayHours - d})

\* Only hours of day that have samples are forecast.
FilledProfile_Gaps(history, hours) ==
  LET samples == Recent(history, ProfileDays)
      OfHour(hour) == {g \in samples : LocalHour(g) = hour}
  IN IF samples = {} THEN None
     ELSE [h \in hours |-> IF OfHour(LocalHour(h)) = {} THEN 0
                           ELSE MeanLoad(history, OfHour(LocalHour(h)))]

\* filled_profile_forecast: an hour of day without a sample gets the mean of the
\* hours of day nearest to it.
FilledProfile(history, hours) ==
  LET samples == Recent(history, ProfileDays)
      means == [hour \in {LocalHour(g) : g \in samples} |->
                  MeanLoad(history, {g \in samples : LocalHour(g) = hour})]
      Nearest(hour) == {k \in DOMAIN means :
                          \A l \in DOMAIN means : Distance(hour, k) <= Distance(hour, l)}
  IN IF samples = {} THEN None
     ELSE Tabulated([h \in hours |-> Mean(means, Nearest(LocalHour(h)))])

\* The errors of forecasts where they can be compared; None if nowhere.
Compared(forecasts, history) ==
  LET pairs == UNION {{f} \X {h \in DOMAIN f : Load(history, h) # None} : f \in forecasts}
      Missed(pair) == Abs(pair[1][pair[2]] - Load(history, pair[2]))
  IN IF pairs = {} THEN None
     ELSE [sum |-> MapThenSumSet(Missed, pairs), count |-> Cardinality(pairs)]

\* backtest_mean_absolute_error_kw: each of the last days forecast from the
\* history before it.
Backtest(method, history, days) ==
  LET Known(day) == Len(history.kw) - day * DayHours
      Day(day) == LET first == history.from + Known(day) IN first..first + DayHours - 1
      Past(day) == [history EXCEPT !.kw = SubSeq(history.kw, 1, Known(day))]
  IN Compared({Forecast(method, Past(day), Day(day)) :
                 day \in {day \in 1..days : Known(day) > 0}} \ {None}, history)

\* The methods that backtest, best first (by name on a tie).
BestFirst(errors) ==
  LET scored == SelectSeq(Methods, LAMBDA name :
                            name \in DOMAIN errors /\ errors[name] # None)
      Error(i, j) == errors[scored[i]].sum * errors[scored[j]].count
  IN IF Len(scored) = 2 /\ Error(2, 1) < Error(1, 2) THEN Reverse(scored) ELSE scored

\* The methods to try.
Ranked(method, history, days) ==
  LET candidates == IF method = "auto" THEN ToSet(Methods) ELSE {method}
      tested == BestFirst([name \in candidates |-> Backtest(name, history, days)])
  IN IF tested # <<>> THEN tested
     ELSE <<IF method = "auto" THEN "seven_day_mean" ELSE method>>

\* forecast_load; None is a LoadForecastError.
ForecastLoad(method, history, hours, days) ==
  LET usable == SelectSeq(Ranked(method, history, days), LAMBDA name :
                            Forecast(name, history, hours) # None)
  IN IF usable = <<>> THEN FilledProfile(history, hours)
     ELSE Forecast(Head(usable), history, hours)
=============================================================================
