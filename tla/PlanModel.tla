------------------------------ MODULE PlanModel ------------------------------
(***************************************************************************)
(* The optimization model of a plan (problem.py, battery_model.py,         *)
(* ev_model.py, linopy_solver.py).  A dispatch chooses for every hour the  *)
(* car's power, the flow into (or, negative, out of) the battery and the   *)
(* PV power used; import and export follow from the balance.  Powers are   *)
(* whole numbers: the model restricts the program to the whole dispatches. *)
(* Losses are whole, too.  Of each kWh the car draws it stores `gain` parts *)
(* (charge_efficiency is gain / Parts), and its charge is counted in parts. *)
(* One unit of flow stores `gain` and draws `draw` units of the battery's.  *)
(***************************************************************************)
EXTENDS Integers, SequencesExt, FiniteSetsExt

CONSTANTS
  Penalty, \* SHORTFALL_PENALTY_EUR_PER_KWH
  Parts,   \* of a kWh, in which the car's charge is counted
  None

\* The car charges only while plugged in and before its deadline, from the
\* surplus alone if there is one, and never below the minimum of the charger.
Bound(ev, i) ==
  IF ~(ev.plugged /\ i <= ev.deadline) THEN 0
  ELSE IF ev.surplus = None THEN ev.maximum ELSE Min({ev.maximum, ev.surplus[i]})

EvPowers(ev, i) ==
  IF ev = None THEN {0}
  ELSE IF ev.fixed # None THEN {ev.fixed[i]}
  ELSE {0} \cup ev.minimum..Bound(ev, i)

\* Never charging and discharging in the same hour.
Flows(battery) ==
  IF battery = None THEN {0} ELSE -battery.maximumDischarge..battery.maximumCharge

\* `charge_limit_kwh or capacity_kwh`
EvLimit(ev) == IF ev.limit \in {None, 0} THEN ev.capacity ELSE ev.limit

Discharged(flow) == Max({-flow, 0})
Stored(battery, flow) ==
  IF flow >= 0 THEN flow * battery.gain ELSE flow * battery.draw

\* What the grid supplies (or, negative, takes) in hour i: import and export
\* exclude each other.
Net(p, i, c) == p.load[i] + c.flow + c.ev - c.used
Import(p, i, c) == Max({Net(p, i, c), 0})
Export(p, i, c) == Max({-Net(p, i, c), 0})

Moves(p, i) ==
  {c \in [ev : EvPowers(p.ev, i), flow : Flows(p.battery), used : 0..p.pv[i]] :
     Import(p, i, c) <= p.maximumImport /\ Export(p, i, c) <= p.maximumExport}

Start(p) ==
  [choices |-> <<>>,
   charge |-> IF p.battery = None THEN <<>> ELSE <<p.battery.initial>>,
   car |-> IF p.ev = None THEN <<>> ELSE <<p.ev.initial>>]

\* The states of charge at the end of each hour, after the initial ones.
Extended_AllStored(p, d, c) ==
  [choices |-> Append(d.choices, c),
   charge |-> IF p.battery = None THEN <<>>
              ELSE Append(d.charge, Last(d.charge) + Stored(p.battery, c.flow)),
   car |-> IF p.ev = None THEN <<>> ELSE Append(d.car, Last(d.car) + c.ev * Parts)]
Extended(p, d, c) ==
  [choices |-> Append(d.choices, c),
   charge |-> IF p.battery = None THEN <<>>
              ELSE Append(d.charge, Last(d.charge) + Stored(p.battery, c.flow)),
   car |-> IF p.ev = None THEN <<>> ELSE Append(d.car, Last(d.car) + c.ev * p.ev.gain)]

Within(p, d) ==
  /\ p.battery = None \/ Last(d.charge) \in p.battery.minimum..p.battery.maximum
  /\ p.ev = None \/ Last(d.car) <= EvLimit(p.ev)

\* The dispatches that satisfy every constraint.
Feasible(p) ==
  LET Partial[i \in 0..p.hours] ==
        IF i = 0 THEN {Start(p)}
        ELSE {d \in {Extended(p, e, c) : e \in Partial[i - 1], c \in Moves(p, i)} :
                Within(p, d)}
  IN {d \in Partial[p.hours] : p.battery = None \/ Last(d.charge) >= p.battery.final}

\* No target is demanded when the deadline is not after the start.
Shortfall(p, d) ==
  IF p.ev = None THEN 0
  ELSE IF p.ev.deadline < 1 THEN 0
  ELSE Max({0, p.ev.target - d.car[p.ev.deadline + 1]})

Total(f(_), n) == MapThenSumSet(f, 1..n)

\* What the grid and the wear of the battery cost.
Paid(p, d) ==
  Total(LAMBDA i : Import(p, i, d.choices[i]) * p.importPrice[i]
                   - Export(p, i, d.choices[i]) * p.exportPrice[i], p.hours)
    + (IF p.battery = None THEN 0
       ELSE p.battery.wear * Total(LAMBDA i : Discharged(d.choices[i].flow), p.hours))

\* The penalty of missing the target and the value of what is stored, both for a
\* kWh in the car.
EvCost_PenaltyDrawn(p, d) ==
  IF p.ev = None THEN 0
  ELSE p.ev.gain * ((Penalty * Shortfall(p, d)) \div Parts
                    - p.ev.value * Total(LAMBDA i : d.choices[i].ev, p.hours))
EvCost(p, d) ==
  IF p.ev = None THEN 0
  ELSE Penalty * Shortfall(p, d)
         - p.ev.value * p.ev.gain * Total(LAMBDA i : d.choices[i].ev, p.hours)

\* The objective, in parts of its unit.  The prices are scaled where the value of
\* the energy left in the battery is a fraction of theirs.
Cost(p, d) ==
  p.scale * (Parts * Paid(p, d) + EvCost(p, d))
    - (IF p.battery = None THEN 0 ELSE Parts * p.battery.terminal * Last(d.charge))

\* The optimal dispatches; none if the problem is infeasible.
Optimal(p) ==
  LET costs == [d \in Feasible(p) |-> Cost(p, d)]
      least == Min({costs[d] : d \in DOMAIN costs})
  IN IF DOMAIN costs = {} THEN {} ELSE {d \in DOMAIN costs : costs[d] = least}
=============================================================================
