------------------------------ MODULE EvControl ------------------------------
(***************************************************************************)
(* From the planning inputs to the wall box.  A cycle of the orchestrator  *)
(* fetches prices and the PV forecast, plans the hours both cover          *)
(* (planning_horizon) and merges the EV powers of the plan into the EV     *)
(* schedule (merge_schedule).  The control task (EvController) polls that  *)
(* schedule and commands the wall box through Home Assistant.  The two     *)
(* run side by side and share only the stored schedule.                    *)
(*                                                                         *)
(* An hour is named by its start.  A schedule maps every hour to a power   *)
(* or to None; the optimizer's choice of powers is arbitrary.              *)
(***************************************************************************)
EXTENDS Naturals

CONSTANTS
  HourLength,   \* clock units per hour
  Horizons,     \* how many hours a fetch may return
  SteadyEnds,   \* a fetch never ends before the one it replaces
  MaxDataAge,   \* freshness threshold of prices and PV forecast
  MaxPlanAge,   \* control.max_plan_age_seconds
  Retention,    \* SCHEDULE_RETENTION
  Powers,       \* charge powers a plan may hold
  NoPower,      \* NO_POWER_KW: less is a pause
  Full,         \* ev.maximum_charge_kw
  HasSwitch,    \* control.enable_entity_id is configured
  TimeToLive,   \* extra_data.time_to_live of set_power; Never without one
  MaxTime,      \* bound on the clock
  MaxFaults,    \* bound on failed calls
  MaxLoadErrors,\* bound on polls whose load of the schedule raises
  MaxRestarts,  \* bound on process restarts
  None, NoLimit, Never

\* No hour that starts after MaxTime is ever the running one.
Hours == {h \in 0..MaxTime : h % HourLength = 0}
HourOf(t) == t - (t % HourLength)
NextHour(t) == IF t % HourLength = 0 THEN t ELSE HourOf(t) + HourLength

Powered == [Hours -> {None} \cup Powers]
Unplanned == [h \in Hours |-> None]
Window == [from : Nat, to : Nat, at : 0..MaxTime]
Schedule == [updatedAt : 0..MaxTime, power : Powered]
Box == [on : BOOLEAN, limit : {NoLimit} \cup Nat, until : {Never} \cup Nat]

ASSUME TimeAssumption ==
  /\ HourLength \in Nat \ {0} /\ MaxTime \in Nat
  /\ Horizons \subseteq Nat \ {0}
  /\ {MaxDataAge, MaxPlanAge, Retention} \subseteq Nat
  /\ Retention >= HourLength
  /\ TimeToLive \in (Nat \ {0}) \cup {Never}

ASSUME PowerAssumption ==
  /\ Powers \subseteq Nat /\ NoPower \in Nat \ {0}
  /\ Full \in Nat /\ Full >= NoPower
  /\ HasSwitch \in BOOLEAN /\ SteadyEnds \in BOOLEAN
  /\ None \notin Nat /\ None \notin Window /\ None \notin Schedule
  /\ NoLimit \notin Nat /\ Never \notin Nat

VARIABLES
  clock, restarts,
  cycle,      \* the orchestrator: idle, collecting inputs, storing a plan
  started,    \* started_at of the running cycle: captured_at of its plan
  prices, pv, \* the stored inputs: hours from..to, retrieved at
  plan,       \* the powers of the plan being stored
  schedule,   \* the stored EvSchedule
  chosen,     \* ghost: for each hour the power of the last plan covering it
  control,    \* the control task: idle, switching, setting, dead
  target,     \* the power it is applying
  applied,    \* _applied
  box,        \* the wall box: enabled, limit and when the limit expires
  faults, loadErrors

planVars == <<cycle, started, prices, pv, plan, schedule, chosen>>
controlVars == <<control, target, applied, box, faults, loadErrors>>
vars == <<clock, restarts, planVars, controlVars>>

\* Commands are under way only for a target that differs from what is applied.
TypeOK ==
  /\ clock \in 0..MaxTime /\ restarts \in Nat
  /\ cycle \in {"idle", "collecting", "storing"} /\ started \in 0..clock
  /\ prices \in {None} \cup Window /\ pv \in {None} \cup Window
  /\ plan \in Powered
  /\ schedule \in {None} \cup Schedule
  /\ chosen \in Powered
  /\ control \in {"idle", "switching", "setting", "dead"}
  /\ target \in Nat /\ applied \in {None} \cup Nat
  /\ box \in Box
  /\ faults \in Nat /\ loadErrors \in Nat
  /\ control \in {"switching", "setting"} => applied # target

-----------------------------------------------------------------------------
(* Planning. *)

BeginCycle ==
  /\ cycle = "idle"
  /\ cycle' = "collecting" /\ started' = clock
  /\ UNCHANGED <<clock, restarts, prices, pv, plan, schedule, chosen, controlVars>>

EndCycle ==
  /\ cycle = "collecting" /\ cycle' = "idle" /\ started' = 0
  /\ UNCHANGED <<clock, restarts, prices, pv, plan, schedule, chosen, controlVars>>

\* The window of a fetch of n hours; the ends of the windows when they are steady.
Fetched(from, n) ==
  [from |-> from, to |-> from + n * HourLength, at |-> started]
Replaces(new, old) == SteadyEnds /\ old # None => new.to >= old.to

\* Prices start with the next full hour (align_to_next_hour).
FetchPrices(n) ==
  /\ cycle = "collecting"
  /\ prices' = Fetched(NextHour(started), n)
  /\ Replaces(prices', prices)
  /\ UNCHANGED <<clock, restarts, cycle, started, pv, plan, schedule, chosen,
                 controlVars>>

\* The PV forecast starts with the running hour.
FetchPv(n) ==
  /\ cycle = "collecting"
  /\ pv' = Fetched(HourOf(started), n)
  /\ Replaces(pv', pv)
  /\ UNCHANGED <<clock, restarts, cycle, started, prices, plan, schedule, chosen,
                 controlVars>>

Fresh(window) ==
  /\ window # None
  /\ started < window.to /\ started < window.at + MaxDataAge

Covers(window, h) == window.from <= h /\ h < window.to

\* planning_horizon: the hours that both inputs cover.
Covered(h) == Covers(prices, h) /\ Covers(pv, h)
Overlap == prices.from < pv.to /\ pv.from < prices.to

\* A plan from fresh inputs; anything else (no plan, or none with a car in it)
\* leaves the schedule alone.
MakePlan ==
  /\ cycle = "collecting"
  /\ Fresh(prices) /\ Fresh(pv) /\ Overlap
  /\ cycle' = "storing"
  /\ \E powers \in [{h \in Hours : Covered(h)} -> Powers] :
       plan' = [h \in Hours |-> IF Covered(h) THEN powers[h] ELSE None]
  /\ UNCHANGED <<clock, restarts, started, prices, pv, schedule, chosen, controlVars>>

\* merge_schedule: the new plan wins for its hours; of the schedule the hours
\* before the first of them are kept, for the retention time.
Kept(h) ==
  /\ \A g \in Hours : plan[g] # None => h < g
  /\ h + Retention > started

MergeSchedule_OnlyNew(previous) == plan
MergeSchedule(previous) ==
  [h \in Hours |-> IF plan[h] # None THEN plan[h]
                   ELSE IF Kept(h) THEN previous[h] ELSE None]

\* _save_ev_schedule; a failure leaves the schedule alone or comes after the write.
StoreSchedule ==
  /\ cycle = "storing" /\ cycle' = "idle"
  /\ \/ /\ schedule' =
             [updatedAt |-> started,
              power |-> MergeSchedule(IF schedule = None THEN Unplanned
                                      ELSE schedule.power)]
        /\ chosen' = [h \in Hours |-> IF plan[h] # None THEN plan[h] ELSE chosen[h]]
     \/ UNCHANGED <<schedule, chosen>>
  /\ plan' = Unplanned /\ started' = 0
  /\ UNCHANGED <<clock, restarts, prices, pv, controlVars>>

-----------------------------------------------------------------------------
(* Control. *)

\* _planned_power and power_at.
PlannedPower_IgnoringAge(now) ==
  IF schedule = None THEN None ELSE schedule.power[HourOf(now)]
PlannedPower(now) ==
  IF schedule = None \/ now > schedule.updatedAt + MaxPlanAge THEN None
  ELSE schedule.power[HourOf(now)]

\* A power the box cannot charge with is a pause.
Commanded(power) == IF power < NoPower THEN 0 ELSE power

\* _apply and _fall_back: without a planned power the charger gets full power.
Wanted(power) == IF power = None THEN Full ELSE Commanded(power)

\* apply_due decides; it sends nothing when the power is the one applied last.
Poll ==
  /\ control = "idle"
  /\ target' = Wanted(PlannedPower(clock))
  /\ control' = IF applied = target' THEN "idle"
                ELSE IF HasSwitch THEN "switching" ELSE "setting"
  /\ UNCHANGED <<clock, restarts, planVars, applied, box, faults, loadErrors>>

\* Only EvControlError is handled: an error of the load ends run_forever.
LoadRaises ==
  /\ control = "idle" /\ control' = "dead"
  /\ loadErrors < MaxLoadErrors /\ loadErrors' = loadErrors + 1
  /\ UNCHANGED <<clock, restarts, planVars, target, applied, box, faults>>

Switched == [box EXCEPT !.on = target > 0]
Limited ==
  [box EXCEPT !.limit = target,
              !.until = IF TimeToLive = Never THEN Never ELSE clock + TimeToLive]

SwitchCall_OnlyOff ==
  /\ control = "switching"
  /\ box' = IF target > 0 THEN box ELSE Switched
  /\ IF target > 0 THEN control' = "setting" /\ UNCHANGED applied
                   ELSE control' = "idle" /\ applied' = target
  /\ UNCHANGED <<clock, restarts, planVars, target, faults, loadErrors>>
\* turn_on or turn_off; a pause ends with it.
SwitchCall ==
  /\ control = "switching"
  /\ box' = Switched
  /\ IF target > 0 THEN control' = "setting" /\ UNCHANGED applied
                   ELSE control' = "idle" /\ applied' = target
  /\ UNCHANGED <<clock, restarts, planVars, target, faults, loadErrors>>

SetPowerCall ==
  /\ control = "setting"
  /\ box' = Limited
  /\ control' = "idle" /\ applied' = target
  /\ UNCHANGED <<clock, restarts, planVars, target, faults, loadErrors>>

CallFails_AppliedKept ==
  /\ faults < MaxFaults /\ faults' = faults + 1
  /\ \/ control = "switching" /\ box' \in {box, Switched}
     \/ control = "setting" /\ box' \in {box, Limited}
  /\ control' = "idle" /\ UNCHANGED applied
  /\ UNCHANGED <<clock, restarts, planVars, target, loadErrors>>
\* Home Assistant rejects the call, or its answer is lost after the call took
\* effect: what is applied is unknown.
CallFails ==
  /\ faults < MaxFaults /\ faults' = faults + 1
  /\ \/ control = "switching" /\ box' \in {box, Switched}
     \/ control = "setting" /\ box' \in {box, Limited}
  /\ control' = "idle" /\ applied' = None
  /\ UNCHANGED <<clock, restarts, planVars, target, loadErrors>>

\* The box drops a limit that was not renewed.
LimitExpires ==
  /\ box.until # Never /\ box.until <= clock
  /\ box' = [box EXCEPT !.limit = NoLimit, !.until = Never]
  /\ UNCHANGED <<clock, restarts, planVars, control, target, applied, faults, loadErrors>>

-----------------------------------------------------------------------------
Tick ==
  /\ clock < MaxTime /\ clock' = clock + 1
  /\ UNCHANGED <<restarts, planVars, controlVars>>

\* The service starts again: records and box stay, the rest is forgotten.
Restart ==
  /\ restarts < MaxRestarts /\ restarts' = restarts + 1
  /\ cycle' = "idle" /\ started' = 0 /\ plan' = Unplanned
  /\ control' = "idle" /\ applied' = None
  /\ UNCHANGED <<clock, prices, pv, schedule, chosen, target, box, faults,
                 loadErrors>>

Init ==
  /\ clock = 0 /\ restarts = 0
  /\ cycle = "idle" /\ started = 0 /\ plan = Unplanned
  /\ prices = None /\ pv = None /\ schedule = None /\ chosen = Unplanned
  /\ control = "idle" /\ target = Full /\ applied = None
  /\ box = [on |-> TRUE, limit |-> NoLimit, until |-> Never]
  /\ faults = 0 /\ loadErrors = 0

PlanStep ==
  \/ BeginCycle \/ EndCycle \/ MakePlan \/ StoreSchedule
  \/ \E n \in Horizons : FetchPrices(n) \/ FetchPv(n)

ControlStep == Poll \/ SwitchCall \/ SetPowerCall \/ CallFails

Next == PlanStep \/ ControlStep \/ LoadRaises \/ LimitExpires \/ Tick \/ Restart

Spec == Init /\ [][Next]_vars

\* The event loop runs the control task again and again; a call ends, one way or
\* the other.  Nothing makes the orchestrator plan.
FairSpec == Spec /\ WF_vars(ControlStep)

-----------------------------------------------------------------------------
(* Properties. *)

\* The box does what the command for this power asks for; only a time to live may
\* have dropped the limit.
Dropped == TimeToLive # Never /\ box.limit = NoLimit
Shows(power) ==
  /\ HasSwitch => box.on = (power > 0)
  /\ power > 0 \/ ~HasSwitch => box.limit = power \/ Dropped

\* What the controller believes it applied is what the wall box is set to, after
\* any mix of rejected calls, calls whose answer was lost, partly executed
\* commands and restarts; otherwise a power that "did not change" is never sent.
AppliedIsSet == control = "idle" /\ applied # None => Shows(applied)

\* "The charge power chosen for each hour by the latest plan that covers it"
\* (EvSchedule): the stored schedule holds that power for every hour still
\* within the retention time.
ScheduleIsChosen ==
  IF schedule = None THEN chosen = Unplanned
  ELSE \A h \in Hours :
         h + Retention > schedule.updatedAt => schedule.power[h] = chosen[h]

Stale(now) == schedule # None /\ now > schedule.updatedAt + MaxPlanAge

\* What the running hour should get, from the plans alone.
Choice(now) ==
  IF schedule = None \/ Stale(now) THEN Full ELSE Wanted(chosen[HourOf(now)])

\* "The running hour comes from the most recent earlier plan that covers it"
\* (README): every poll aims at that plan's power however many plans came since,
\* and at full power when no plan covers the hour or the last one is too old.
PollFollowsPlans == [][Poll => target' = Choice(clock)]_vars

\* Once no more plans come, time stands still and calls no longer fail, the wall
\* box gets to what the plans have for the running hour and stays there.
PlanIsFollowed ==
  <>[](cycle = "idle" /\ control # "dead") => <>[]Shows(Choice(clock))

HandedBack == Shows(Full) \/ ~Stale(clock)

\* No command of a plan that got too old remains on the box while the control task
\* runs (ev_controller.py:126, 137).
StalePlanEnds == Stale(clock) ~> (HandedBack \/ control = "dead")
=============================================================================
