------------------------------ MODULE Planning ------------------------------
(***************************************************************************)
(* Plan after plan (plan_generation.py) and the car that follows them.  A  *)
(* cycle of the orchestrator fetches the sources that are due; unless one  *)
(* of them fails or another is stale, the optimal plan of the inputs is    *)
(* made and its EV powers go into the EV schedule.  The wall box charges   *)
(* with the power scheduled for the running hour, tick by tick.            *)
(*                                                                         *)
(* A setup is what does not change: the configuration, the market, the sun *)
(* and what the other sources deliver.                                     *)
(***************************************************************************)
EXTENDS PlanInputs

CONSTANTS
  Setups,
  Dues,         \* the sets of sources that may be due together
  Penalty,
  Parts,        \* of a kWh, in which the charge of the car is counted
  Capacity,     \* of the car, in kWh
  MinimumCharge, MaximumCharge,
  SurplusValue, \* SURPLUS_CHARGING_VALUE_EUR_PER_KWH
  DefaultLoss,  \* DEFAULT_EFFICIENCY_RATIO
  MaximumExport,
  BacktestDays,
  MaxPlanAge,
  MaxTime       \* bound on the clock

M == INSTANCE PlanModel

VARIABLES
  setup, clock,
  stored,   \* the energy in the car, in parts of a kWh of 1 / HourLength
  prices, pv, ev, battery, \* the records of the sources
  phase,    \* of this tick's cycle: none, planning due, blocked, planned
  plan,     \* the plan of this tick: its problem, EV powers and shortfall
  schedule, \* the stored EvSchedule
  promise   \* what the car was promised: an energy by a time

inputs == <<prices, pv, ev, battery>>
vars == <<setup, clock, stored, inputs, phase, plan, schedule, promise>>

-----------------------------------------------------------------------------
(* What the sources deliver. *)

MarketDoc ==
  [i \in 1..Max({0, (setup.published - HourOf(clock)) \div HourLength}) |->
     LET from == HourOf(clock) + (i - 1) * HourLength
     IN [from |-> from, to |-> from + HourLength, price |-> setup.market[from]]]

Sun(from, to) == MapThenSumSet(LAMBDA t : setup.sun[t], from..to - 1)

\* One document per roof face; it ends at its reach.
IrradianceDocs ==
  [p \in DOMAIN setup.reach |->
     [l \in HoursFrom(HourLength, setup.reach[p] + 1) |->
        IF l \in setup.missing THEN None ELSE Sun(l - HourLength, l)]]

EstimateDoc ==
  [i \in DOMAIN setup.stamps |->
     [at |-> setup.stamps[i],
      energy |-> IF i = 1 THEN 0 ELSE Sun(setup.stamps[i - 1], setup.stamps[i])]]

PvForecast ==
  IF setup.provider = "open_meteo" THEN OpenMeteo(IrradianceDocs, clock)
  ELSE ForecastSolar(EstimateDoc, clock)

\* The configured car.  Of each kWh it draws it stores setup.gain parts.
EvConfiguration ==
  [unit |-> setup.unit, capacity |-> Capacity * Parts, gain |-> setup.gain,
   pluggedStates |-> {"on"}]

\* The car reports whole parts of its charge.
EvReading ==
  LET parts == stored \div HourLength
      percent == (parts * 100) \div (Capacity * Parts)
  IN ReadEv(IF setup.unit = "%" THEN percent ELSE parts, setup.plug, EvConfiguration)

BatteryReading ==
  IF setup.battery = None THEN None ELSE ReadBattery(setup.battery, None, DefaultLoss)

-----------------------------------------------------------------------------
(* The car's part of the problem. *)

\* day_targets: a named day replaces the general target.
DayTargets ==
  LET general == IF None \in {setup.minimum, setup.deadline} THEN None
                 ELSE [percent |-> setup.minimum, time |-> setup.deadline]
  IN [day \in 0..WeekDays - 1 |->
        IF day \in DOMAIN setup.weekly THEN setup.weekly[day] ELSE general]

\* limit_soc_percent
LimitPercent ==
  IF setup.strategy = "minimum_plus_target" THEN setup.target
  ELSE IF setup.minimum = None THEN 100 ELSE setup.minimum

Energy(percent) == (percent * Capacity * Parts) \div 100

\* next_deadline: the first one after the first planned hour.
NextDeadline(first) ==
  LET day == DayOf(first)
      Target(d) == DayTargets[d % WeekDays]
      At(d) == EndOfDay(d - 1) + Target(d).time
      upcoming == {d \in day..day + 7 : Target(d) # None /\ At(d) > first}
  IN IF upcoming = {} THEN None
     ELSE [at |-> At(Min(upcoming)), percent |-> Target(Min(upcoming)).percent]

\* One hour too many.
HoursUntil_OneMore(deadline, first, n) ==
  LET count == (deadline - first) \div HourLength + 1
  IN IF count <= n THEN count ELSE None

\* hours_until: a deadline within an hour counts that hour.
HoursUntil(deadline, first, n) ==
  LET count == -((first - deadline) \div HourLength)
  IN IF count <= n THEN count ELSE None

Car(n) ==
  [capacity |-> Capacity * Parts, initial |-> ev.soc, target |-> 0, deadline |-> n,
   plugged |-> ev.plugged, minimum |-> MinimumCharge, maximum |-> MaximumCharge,
   gain |-> ev.gain, fixed |-> None, surplus |-> None, limit |-> None, value |-> 0]

\* immediate_charging: full power until the target is stored.
Immediate(target, n) ==
  LET capacity == Capacity * Parts
      Power(charge) ==
        LET missing == Min({target, capacity}) - charge
            wanted == missing \div ev.gain
            room == (capacity - charge) \div ev.gain
        IN IF ~ev.plugged \/ missing <= 0 THEN 0
           ELSE Min({MaximumCharge, Max({MinimumCharge, wanted}), room})
      charge[i \in 0..n] ==
        IF i = 0 THEN ev.soc ELSE charge[i - 1] + Power(charge[i - 1]) * ev.gain
  IN [Car(n) EXCEPT !.target = target,
                    !.fixed = [i \in 1..n |-> Power(charge[i - 1])]]

\* pv_surplus_charging
FromSurplus(limit, surplus) ==
  [Car(Len(surplus)) EXCEPT !.surplus = surplus, !.limit = Min({limit, Capacity * Parts}),
                            !.value = SurplusValue]

\* ev_specification
EvSpecification(first, n, surplus) ==
  LET limit == Energy(LimitPercent)
      soft == setup.strategy = "minimum_plus_target"
      next == NextDeadline(first)
      hours == IF next = None THEN None ELSE HoursUntil(next.at, first, n)
  IN CASE ev = None -> None
       [] setup.strategy = "surplus" -> FromSurplus(limit, surplus)
       [] setup.strategy = "immediate" -> Immediate(limit, n)
       [] OTHER ->
            IF hours = None THEN None
            ELSE [Car(hours) EXCEPT !.target = Energy(next.percent),
                                    !.limit = IF soft THEN limit ELSE None,
                                    !.value = IF soft THEN setup.value ELSE 0]
-----------------------------------------------------------------------------
(* The problem. *)

\* The value of a unit of charge, which is 1 / loss of a kWh, is a fraction: the
\* prices of the grid are scaled by what divides it.
Scale(n) ==
  IF battery = None \/ setup.endOfHorizon = "restore_initial" THEN 1
  ELSE IF setup.endValue # None THEN battery.loss ELSE n * battery.loss * battery.loss

\* _terminal_value, scaled: configured, or the mean import price less one leg's loss.
TerminalValue(importPrices) ==
  IF setup.endValue # None THEN setup.endValue
  ELSE MapThenSumSet(LAMBDA i : importPrices[i], DOMAIN importPrices)

\* battery_specification: the losses are split over the two legs.
BatterySpecification(importPrices) ==
  IF battery = None THEN None
  ELSE LET restore == setup.endOfHorizon = "restore_initial"
       IN [initial |-> battery.soc * battery.loss,
           minimum |-> battery.minimum * battery.loss,
           maximum |-> battery.maximum * battery.loss,
           final |-> (IF restore THEN battery.soc ELSE battery.minimum) * battery.loss,
           maximumCharge |-> battery.charge, maximumDischarge |-> battery.discharge,
           gain |-> 1, draw |-> battery.loss * battery.loss,
           wear |-> setup.wear,
           terminal |-> IF restore THEN 0 ELSE TerminalValue(importPrices)]

\* planning_horizon: the hours for which prices and a PV forecast exist.
Horizon ==
  IF None \in {prices, pv} THEN <<>>
  ELSE SetToSortSeq(DOMAIN prices.hours \cap DOMAIN pv.hours, <)

ExpectedLoad(horizon) ==
  ForecastLoad(setup.method, setup.history, {Index(h) : h \in ToSet(horizon)},
               BacktestDays)

\* _build
Problem(horizon, forecast) ==
  LET n == Len(horizon)
      load == Tabulated([i \in 1..n |-> forecast[Index(horizon[i])]])
      sun == Tabulated([i \in 1..n |-> pv.hours[horizon[i]]])
      surplus == Tabulated([i \in 1..n |-> Max({sun[i] - load[i], 0})])
      market == Tabulated([i \in 1..n |-> prices.hours[horizon[i]]])
      importPrice == Tabulated([i \in 1..n |-> ImportPrice(market[i], horizon[i])])
  IN [start |-> horizon[1], hours |-> n, load |-> load, pv |-> sun,
      importPrice |-> importPrice, exportPrice |-> market,
      maximumImport |-> setup.maximumImport, maximumExport |-> MaximumExport,
      scale |-> Scale(n), battery |-> BatterySpecification(importPrice),
      ev |-> EvSpecification(horizon[1], n, surplus)]

\* merge_schedule: earlier plans keep the hours before the new one.
Merged(problem, powers) ==
  [updatedAt |-> clock,
   power |-> [i \in {problem.start + (i - 1) * HourLength : i \in 1..problem.hours} |->
                powers[(i - problem.start) \div HourLength + 1]]
             @@ [h \in {h \in DOMAIN schedule.power : h < problem.start} |->
                   schedule.power[h]]]

\* A plan without a shortfall promises the target at the deadline.
Promised(problem, shortfall) ==
  IF \/ promise # None
     \/ problem.ev = None \/ shortfall > 0
     \/ setup.strategy \in {"surplus", "immediate"}
  THEN promise
  ELSE LET next == NextDeadline(problem.start)
       IN [by |-> next.at, energy |-> Energy(next.percent)]
-----------------------------------------------------------------------------
(* Actions. *)

Sources == {"electricity_prices", "pv_generation", "ev", "battery"}

\* The record a source delivers if it is due; a failure keeps the last one.
Delivered(name, due, new, old) == IF name \in due /\ new # None THEN new ELSE old

Fetch(due) ==
  /\ prices' = Delivered("electricity_prices", due, Prices(MarketDoc, clock), prices)
  /\ pv' = Delivered("pv_generation", due, PvForecast, pv)
  /\ ev' = Delivered("ev", due, EvReading, ev)
  /\ battery' = Delivered("battery", due, BatteryReading, battery)

\* The required sources: a battery only where there is one.
Failed(due) ==
  \/ "electricity_prices" \in due /\ Prices(MarketDoc, clock) = None
  \/ "pv_generation" \in due /\ PvForecast = None
  \/ "ev" \in due /\ EvReading = None
  \/ "battery" \in due /\ setup.battery # None /\ BatteryReading = None

\* The sources that are due are fetched.
Collect(due) ==
  /\ phase = "none"
  /\ Fetch(due)
  /\ phase' = IF Failed(due) THEN "blocked" ELSE "due"
  /\ UNCHANGED <<setup, clock, stored, plan, schedule, promise>>

\* The checks of PlanGenerator.__call__.
Ready ==
  /\ phase = "due"
  /\ None \notin {prices, pv, ev} /\ Fresh(prices, clock) /\ Fresh(pv, clock)
  /\ Horizon # <<>>

\* A plan is stored, and its EV powers are.
Adopt(problem, powers, shortfall) ==
  /\ phase' = "planned"
  /\ plan' = [problem |-> problem, powers |-> powers, shortfall |-> shortfall]
  /\ schedule' = IF problem.ev = None THEN schedule ELSE Merged(problem, powers)
  /\ promise' = Promised(problem, shortfall)
  /\ UNCHANGED <<setup, clock, stored, inputs>>

\* PlanGenerator.__call__: without a load forecast there is no plan.
MakePlan ==
  /\ Ready
  /\ \E forecast \in {ExpectedLoad(Horizon)} \ {None} :
       \E problem \in {Problem(Horizon, forecast)} :
         \E d \in M!Optimal(problem) :
           Adopt(problem, [i \in 1..problem.hours |-> d.choices[i].ev],
                 M!Shortfall(problem, d))

\* The wall box follows the schedule, or charges at full power without one.
Power ==
  IF setup.plug # "on" THEN 0
  ELSE IF \/ clock > schedule.updatedAt + MaxPlanAge
          \/ HourOf(clock) \notin DOMAIN schedule.power
       THEN MaximumCharge
       ELSE schedule.power[HourOf(clock)]

\* Time passes; a deadline that has passed is over.
Tick ==
  /\ clock < MaxTime
  /\ clock' = clock + 1
  /\ stored' = Min({Capacity * Parts * HourLength, stored + Power * setup.gain})
  /\ phase' = "none" /\ plan' = None
  /\ promise' = IF promise # None /\ promise.by <= clock THEN None ELSE promise
  /\ UNCHANGED <<setup, inputs, schedule>>

Init ==
  /\ setup \in Setups
  /\ clock = setup.begin /\ stored = setup.stored
  /\ prices = None /\ pv = None /\ ev = None /\ battery = None
  /\ phase = "none" /\ plan = None /\ promise = None
  /\ schedule = [updatedAt |-> setup.begin, power |-> HourOf(setup.begin) :> 0]

Next ==
  \/ \E due \in Dues : Collect(due)
  \/ MakePlan
  \/ Tick
Spec == Init /\ [][Next]_vars
-----------------------------------------------------------------------------
Planned == plan # None
PlannedHour(i) == plan.problem.start + (i - 1) * HourLength

\* What the sun really delivers in hour h.
Generated(h) ==
  IF setup.provider = "open_meteo"
  THEN Sun(h, h + HourLength) * Factor * MapThenSumSet(LAMBDA p : Peak[p], DOMAIN Peak)
  ELSE Sun(h, h + HourLength)

\* Whatever the documents cover and whenever they were fetched, a plan holds for
\* each hour the market price and the tariff of that very hour, and the energy the
\* sun delivers in it (_normalize of awattar.py and forecast_solar.py,
\* _irradiance_by_hour, _build).
InputsAligned ==
  Planned =>
    \A i \in 1..plan.problem.hours :
      LET h == PlannedHour(i)
      IN /\ plan.problem.exportPrice[i] = setup.market[h]
         /\ plan.problem.importPrice[i] * 100
              = (setup.market[h] + Fee[LocalHour(Index(h))]) * (100 + Vat)
         /\ plan.problem.pv[i] = Generated(h)

\* One valid sample in the last weeks is enough for a load forecast, whatever is
\* missing beside it, and a forecast never leaves the range of the samples
\* (README.md: only a history without any valid hour fails planning).
ForecastNeverBlocks ==
  Horizon # <<>> =>
    LET loads == {Load(setup.history, h) : h \in Recent(setup.history, ProfileDays)}
    IN loads # {} =>
         \E forecast \in {ExpectedLoad(Horizon)} \ {None} :
           \A h \in DOMAIN forecast : forecast[h] \in Min(loads)..Max(loads)

\* The plan misses the car's target only by what no plan within the limits could
\* avoid: charging is never traded for the price or for the battery (ev_model.py,
\* README.md: the plan charges as much as possible).
ShortfallUnavoidable ==
  Planned =>
    \A d \in M!Feasible(plan.problem) :
      plan.shortfall <= M!Shortfall(plan.problem, d)

\* A car that was planned to hold its target at the deadline does hold it then,
\* however many plans replace that one, although each of them starts only with the
\* next full hour and the car stores less than it draws (README.md: the car must
\* hold minimum_soc_percent at the next local deadline).  For a deadline inside an
\* hour the code counts that hour as a whole (hours_until): what the car draws in
\* the rest of it is granted.
PromiseKept ==
  promise # None /\ clock = promise.by =>
    stored + Power * setup.gain * (NextHour(clock) - clock)
      >= promise.energy * HourLength
=============================================================================
