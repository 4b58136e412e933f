--------------------------- MODULE EvControlProofs ---------------------------
(***************************************************************************)
(* Proofs about EvControl for every length of the hour, horizon, threshold *)
(* and set of powers: what the controller believes, what the schedule      *)
(* holds, and that each poll aims at the power the plans chose.            *)
(***************************************************************************)
EXTENDS EvControl, TLAPS

-----------------------------------------------------------------------------
(* Hours. *)

LEMMA MultipleMod == \A m \in Nat \ {0}, q \in Nat : (m * q) % m = 0
BY SMT

LEMMA DivMod ==
  \A m \in Nat \ {0}, t \in Nat :
    t = (m * (t \div m)) + (t % m) /\ t \div m \in Nat /\ t % m \in 0..(m - 1)
BY SMT

\* Every moment up to the bound lies in an hour of the model.
LEMMA RunningHour ==
  ASSUME NEW t \in 0..MaxTime
  PROVE  /\ HourOf(t) \in Hours /\ HourOf(t) \in Nat
         /\ HourOf(t) <= t /\ t < HourOf(t) + HourLength
<1> t \in Nat /\ HourLength \in Nat \ {0} /\ MaxTime \in Nat /\ t <= MaxTime
  BY TimeAssumption
<1>1. t % HourLength \in 0..(HourLength - 1) /\ t \div HourLength \in Nat
  BY DivMod, Zenon
<1>2. HourOf(t) = HourLength * (t \div HourLength)
  BY DivMod, SMT DEF HourOf
<1>3. HourOf(t) % HourLength = 0
  BY <1>1, <1>2, MultipleMod, Zenon
<1>4. HourOf(t) \in 0..t /\ t < HourOf(t) + HourLength
  BY SMT DEF HourOf
<1> QED BY <1>3, <1>4 DEF Hours

LEMMA HourTypes ==
  ASSUME NEW t \in Nat PROVE HourOf(t) \in Nat /\ NextHour(t) \in Nat
<1> HourLength \in Nat \ {0} BY TimeAssumption
<1>1. HourOf(t) \in Nat BY SMT DEF HourOf
<1> QED BY <1>1 DEF NextHour

-----------------------------------------------------------------------------
(* Types. *)

LEMMA PowersAreNat == /\ Powers \subseteq Nat /\ Full \in Nat /\ None \notin Nat
                      /\ NoPower \in Nat
BY PowerAssumption

LEMMA WantedType ==
  ASSUME NEW p \in {None} \cup Powers PROVE Wanted(p) \in Nat
BY PowersAreNat DEF Wanted, Commanded

LEMMA PlannedType ==
  ASSUME TypeOK PROVE PlannedPower(clock) \in {None} \cup Powers
<1> HourOf(clock) \in Hours BY RunningHour DEF TypeOK
<1> QED BY DEF PlannedPower, TypeOK, Schedule, Powered

LEMMA FetchedType ==
  ASSUME TypeOK, NEW t \in Nat, NEW n \in Horizons PROVE Fetched(t, n) \in Window
<1>1. n * HourLength \in Nat BY TimeAssumption, SMT
<1>2. started \in 0..MaxTime BY TimeAssumption DEF TypeOK
<1> QED BY <1>1, <1>2, TimeAssumption DEF Fetched, Window

LEMMA BoxTypes == ASSUME TypeOK PROVE Switched \in Box /\ Limited \in Box
<1>1. clock + TimeToLive \in Nat \/ TimeToLive = Never
  BY TimeAssumption DEF TypeOK
<1>2. box \in Box /\ target \in Nat /\ (target > 0) \in BOOLEAN BY DEF TypeOK
<1>3. Switched \in Box BY <1>2 DEF Switched, Box
<1>4. Limited \in Box BY <1>1, <1>2 DEF Limited, Box
<1> QED BY <1>3, <1>4

LEMMA PoweredPlan ==
  ASSUME NEW S \in SUBSET Hours, NEW f \in [S -> Powers]
  PROVE  [h \in Hours |-> IF h \in S THEN f[h] ELSE None] \in Powered
BY DEF Powered

LEMMA MergedType ==
  ASSUME TypeOK, NEW previous \in Powered PROVE MergeSchedule(previous) \in Powered
BY DEF TypeOK, Powered, MergeSchedule

LEMMA UnplannedType == Unplanned \in Powered
BY DEF Unplanned, Powered

LEMMA TypePlan == ASSUME TypeOK, PlanStep PROVE TypeOK'
<1>1. UNCHANGED <<clock, restarts, controlVars>>
  BY DEF PlanStep, BeginCycle, EndCycle, MakePlan, StoreSchedule, FetchPrices, FetchPv
<1> SUFFICES /\ cycle' \in {"idle", "collecting", "storing"} /\ started' \in 0..clock
             /\ prices' \in {None} \cup Window /\ pv' \in {None} \cup Window
             /\ plan' \in Powered
             /\ schedule' \in {None} \cup Schedule
             /\ chosen' \in Powered
  BY <1>1 DEF TypeOK, controlVars
<1> 0 \in 0..clock /\ clock \in 0..clock BY TimeAssumption DEF TypeOK
<1>2. CASE BeginCycle BY <1>2 DEF BeginCycle, TypeOK
<1>3. CASE EndCycle BY <1>3 DEF EndCycle, TypeOK
<1>4. CASE MakePlan
  <2>1. PICK f \in [{h \in Hours : Covered(h)} -> Powers] :
          plan' = [h \in Hours |-> IF Covered(h) THEN f[h] ELSE None]
    BY <1>4 DEF MakePlan
  <2>2. plan' \in Powered BY <2>1 DEF Powered
  <2> QED BY <1>4, <2>2 DEF MakePlan, TypeOK
<1>5. CASE StoreSchedule
  <2>1. plan' \in Powered BY <1>5, UnplannedType DEF StoreSchedule
  <2>2. started \in 0..MaxTime BY TimeAssumption DEF TypeOK
  <2>3. (IF schedule = None THEN Unplanned ELSE schedule.power) \in Powered
    BY UnplannedType DEF TypeOK, Schedule
  <2>4. [updatedAt |-> started,
         power |-> MergeSchedule(IF schedule = None THEN Unplanned
                                 ELSE schedule.power)] \in Schedule
    BY <2>2, <2>3, MergedType DEF Schedule
  <2>5. schedule' \in {None} \cup Schedule BY <1>5, <2>4 DEF StoreSchedule, TypeOK
  <2>6. chosen' \in Powered BY <1>5 DEF StoreSchedule, TypeOK, Powered
  <2> QED BY <1>5, <2>1, <2>5, <2>6 DEF StoreSchedule, TypeOK
<1>6. ASSUME NEW n \in Horizons, FetchPrices(n) \/ FetchPv(n)
      PROVE  /\ prices' \in {None} \cup Window /\ pv' \in {None} \cup Window
             /\ UNCHANGED <<cycle, started, plan, schedule, chosen>>
  <2>1. started \in Nat BY TimeAssumption DEF TypeOK
  <2>2. /\ Fetched(NextHour(started), n) \in Window
        /\ Fetched(HourOf(started), n) \in Window
    BY <2>1, HourTypes, FetchedType
  <2> QED BY <1>6, <2>2 DEF FetchPrices, FetchPv, TypeOK
<1> QED BY <1>2, <1>3, <1>4, <1>5, <1>6 DEF PlanStep, TypeOK

LEMMA TypeControl ==
  ASSUME TypeOK, ControlStep \/ LoadRaises \/ LimitExpires PROVE TypeOK'
<1>1. UNCHANGED <<clock, restarts, planVars>>
  BY DEF ControlStep, Poll, SwitchCall, SetPowerCall, CallFails, LoadRaises, LimitExpires
<1> SUFFICES /\ control' \in {"idle", "switching", "setting", "dead"}
             /\ target' \in Nat /\ applied' \in {None} \cup Nat
             /\ box' \in Box
             /\ faults' \in Nat /\ loadErrors' \in Nat
             /\ control' \in {"switching", "setting"} => applied' # target'
  BY <1>1 DEF TypeOK, planVars
<1>2. CASE Poll
  <2>1. Wanted(PlannedPower(clock)) \in Nat BY WantedType, PlannedType
  <2> QED BY <1>2, <2>1 DEF Poll, TypeOK
<1>3. CASE SwitchCall BY <1>3, BoxTypes DEF SwitchCall, TypeOK
<1>4. CASE SetPowerCall BY <1>4, BoxTypes DEF SetPowerCall, TypeOK
<1>5. CASE CallFails BY <1>5, BoxTypes DEF CallFails, TypeOK
<1>6. CASE LoadRaises BY <1>6 DEF LoadRaises, TypeOK
<1>7. CASE LimitExpires BY <1>7 DEF LimitExpires, TypeOK, Box
<1> QED BY <1>2, <1>3, <1>4, <1>5, <1>6, <1>7 DEF ControlStep

LEMMA TypeInit == Init => TypeOK
<1> SUFFICES ASSUME Init PROVE TypeOK OBVIOUS
<1>1. 0 \in 0..MaxTime /\ 0 \in 0..0 BY TimeAssumption
<1>2. [on |-> TRUE, limit |-> NoLimit, until |-> Never] \in Box BY DEF Box
<1> QED BY <1>1, <1>2, UnplannedType, PowersAreNat DEF Init, TypeOK

LEMMA TypeStep == TypeOK /\ [Next]_vars => TypeOK'
<1> SUFFICES ASSUME TypeOK, [Next]_vars PROVE TypeOK' OBVIOUS
<1>1. CASE Tick
  <2>1. clock' \in 0..MaxTime /\ started \in 0..clock'
    BY <1>1, TimeAssumption DEF Tick, TypeOK
  <2> QED BY <1>1, <2>1 DEF Tick, TypeOK, planVars, controlVars
<1>2. CASE Restart
  <2>1. 0 \in 0..clock BY TimeAssumption DEF TypeOK
  <2> QED BY <1>2, <2>1, UnplannedType DEF Restart, TypeOK
<1>3. CASE UNCHANGED vars BY <1>3 DEF vars, planVars, controlVars, TypeOK
<1> QED BY <1>1, <1>2, <1>3, TypePlan, TypeControl DEF Next

\* The type invariant: in particular a command is only ever under way for a power
\* other than the one applied last.
THEOREM EvTypeCorrect == Spec => []TypeOK
BY TypeInit, TypeStep, PTL DEF Spec

-----------------------------------------------------------------------------
(* What the controller believes. *)

\* AppliedIsSet is not inductive: the last call of a command only makes it true if
\* the calls before it were made, and a limit that expires must be one with a time
\* to live.
AppliedInv ==
  /\ AppliedIsSet
  /\ control = "switching" => HasSwitch
  /\ control = "setting" /\ HasSwitch => target > 0 /\ box.on
  /\ box.until # Never => TimeToLive # Never

LEMMA AppliedStep ==
  ASSUME TypeOK, AppliedInv, [Next]_vars PROVE AppliedInv'
<1> box \in Box /\ target \in Nat BY DEF TypeOK
<1>1. ASSUME UNCHANGED <<control, target, applied, box>> PROVE AppliedInv'
  BY <1>1 DEF AppliedInv, AppliedIsSet, Shows, Dropped
<1>2. CASE Poll
  BY <1>2 DEF Poll, AppliedInv, AppliedIsSet, Shows, Dropped
<1>3. CASE SwitchCall
  <2>1. box'.on = (target > 0) /\ box'.limit = box.limit /\ box'.until = box.until
    BY <1>3 DEF SwitchCall, Switched, Box
  <2> QED BY <1>3, <2>1 DEF SwitchCall, AppliedInv, AppliedIsSet, Shows, Dropped
<1>4. CASE SetPowerCall
  <2>1. /\ box'.on = box.on /\ box'.limit = target
        /\ box'.until # Never => TimeToLive # Never
    BY <1>4 DEF SetPowerCall, Limited, Box
  <2> QED BY <1>4, <2>1 DEF SetPowerCall, AppliedInv, AppliedIsSet, Shows, Dropped
<1>5. CASE CallFails
  <2>1. box'.until # Never => TimeToLive # Never
    BY <1>5 DEF CallFails, Switched, Limited, Box, AppliedInv
  <2> QED BY <1>5, <2>1 DEF CallFails, AppliedInv, AppliedIsSet
<1>6. CASE LoadRaises
  BY <1>6 DEF LoadRaises, AppliedInv, AppliedIsSet
<1>7. CASE LimitExpires
  <2>1. /\ box'.on = box.on /\ box'.limit = NoLimit /\ box'.until = Never
        /\ TimeToLive # Never
    BY <1>7 DEF LimitExpires, Box, AppliedInv
  <2> QED BY <1>7, <2>1 DEF LimitExpires, AppliedInv, AppliedIsSet, Shows, Dropped
<1>8. CASE Restart BY <1>8 DEF Restart, AppliedInv, AppliedIsSet
<1>9. CASE PlanStep
  <2>1. UNCHANGED <<control, target, applied, box>>
    BY <1>9 DEF PlanStep, BeginCycle, EndCycle, MakePlan, StoreSchedule, FetchPrices,
                FetchPv, controlVars
  <2> QED BY <2>1, <1>1
<1>10. CASE Tick \/ UNCHANGED vars BY <1>10, <1>1 DEF Tick, vars, controlVars
<1> QED BY <1>2, <1>3, <1>4, <1>5, <1>6, <1>7, <1>8, <1>9, <1>10 DEF Next, ControlStep

\* The controller is never wrong about the wall box, but for a limit that expired,
\* whichever calls are rejected, lose their answer or are cut off by a restart.
THEOREM AppliedCorrect == Spec => []AppliedIsSet
<1>1. Init => AppliedInv BY DEF Init, AppliedInv, AppliedIsSet
<1>2. TypeOK /\ AppliedInv /\ [Next]_vars => AppliedInv' BY AppliedStep
<1>3. AppliedInv => AppliedIsSet BY DEF AppliedInv
<1> QED BY <1>1, <1>2, <1>3, EvTypeCorrect, PTL DEF Spec

-----------------------------------------------------------------------------
(* What the schedule holds. *)

\* The plan being stored holds every hour both inputs cover.
PlanIsCovered ==
  cycle = "storing" =>
    /\ prices # None /\ pv # None
    /\ \A h \in Hours : plan[h] # None <=> Covered(h)

\* No plan reached beyond the inputs: what a merge drops past the end of the new
\* plan, no earlier plan chose.
ChoicesAreCovered ==
  \A h \in Hours : chosen[h] # None =>
    prices # None /\ pv # None /\ h < prices.to /\ h < pv.to

ScheduleIsPast ==
  schedule # None =>
    schedule.updatedAt <= clock /\ (cycle # "idle" => schedule.updatedAt <= started)

ScheduleInv == ScheduleIsChosen /\ PlanIsCovered /\ ChoicesAreCovered /\ ScheduleIsPast

LEMMA WindowsEnd ==
  ASSUME TypeOK, NEW w \in Window, NEW old \in {None} \cup Window,
         SteadyEnds, Replaces(w, old)
  PROVE  w # None /\ (old # None => old.to <= w.to /\ w.to \in Nat /\ old.to \in Nat)
BY PowerAssumption DEF Replaces, Window

LEMMA ScheduleFetch ==
  ASSUME SteadyEnds, TypeOK, ScheduleInv, NEW n \in Horizons,
         FetchPrices(n) \/ FetchPv(n)
  PROVE  ScheduleInv'
<1> started \in Nat BY TimeAssumption DEF TypeOK
<1>1. /\ Fetched(NextHour(started), n) \in Window
      /\ Fetched(HourOf(started), n) \in Window
  BY HourTypes, FetchedType
<1>2. ChoicesAreCovered'
  <2> SUFFICES ASSUME NEW h \in Hours, chosen[h] # None
               PROVE prices' # None /\ pv' # None /\ h < prices'.to /\ h < pv'.to
    BY DEF ChoicesAreCovered, FetchPrices, FetchPv
  <2>1. /\ prices \in Window /\ pv \in Window /\ h \in Nat
        /\ h < prices.to /\ h < pv.to /\ prices # None /\ pv # None
    BY DEF ScheduleInv, ChoicesAreCovered, TypeOK, Hours
  <2>2. CASE FetchPrices(n)
    <3>1. prices' \in Window /\ Replaces(prices', prices) /\ pv' = pv
      BY <1>1, <2>2 DEF FetchPrices
    <3>2. prices' # None /\ prices.to <= prices'.to /\ prices'.to \in Nat /\ prices.to \in Nat
      BY <3>1, <2>1, WindowsEnd
    <3> QED BY <3>1, <3>2, <2>1
  <2>3. CASE FetchPv(n)
    <3>1. pv' \in Window /\ Replaces(pv', pv) /\ prices' = prices
      BY <1>1, <2>3 DEF FetchPv
    <3>2. pv' # None /\ pv.to <= pv'.to /\ pv'.to \in Nat /\ pv.to \in Nat
      BY <3>1, <2>1, WindowsEnd
    <3> QED BY <3>1, <3>2, <2>1
  <2> QED BY <2>2, <2>3
<1>3. PlanIsCovered' BY DEF PlanIsCovered, FetchPrices, FetchPv
<1>4. ScheduleIsChosen' /\ ScheduleIsPast'
  BY DEF ScheduleInv, ScheduleIsChosen, ScheduleIsPast, FetchPrices, FetchPv
<1> QED BY <1>2, <1>3, <1>4 DEF ScheduleInv

LEMMA ScheduleMake ==
  ASSUME TypeOK, ScheduleInv, MakePlan PROVE ScheduleInv'
<1>1. PlanIsCovered'
  <2>1. PICK f \in [{h \in Hours : Covered(h)} -> Powers] :
          plan' = [h \in Hours |-> IF Covered(h) THEN f[h] ELSE None]
    BY DEF MakePlan
  <2>2. \A h \in Hours : plan'[h] # None <=> Covered(h)
    BY <2>1, PowersAreNat
  <2>3. prices # None /\ pv # None BY DEF MakePlan, Fresh
  <2>4. \A h \in Hours : Covered(h)' <=> Covered(h)
    BY DEF MakePlan, Covered, Covers
  <2> QED BY <2>2, <2>3, <2>4 DEF PlanIsCovered, MakePlan
<1> QED BY <1>1 DEF MakePlan, ScheduleInv, ScheduleIsChosen, ChoicesAreCovered,
                    ScheduleIsPast

LEMMA ScheduleStore ==
  ASSUME TypeOK, ScheduleInv, StoreSchedule PROVE ScheduleInv'
<1> DEFINE previous == IF schedule = None THEN Unplanned ELSE schedule.power
           merged == [updatedAt |-> started, power |-> MergeSchedule(previous)]
           newChosen == [h \in Hours |-> IF plan[h] # None THEN plan[h] ELSE chosen[h]]
<1>1. PlanIsCovered' BY DEF StoreSchedule, PlanIsCovered
<1>2. /\ prices # None /\ pv # None /\ prices \in Window /\ pv \in Window
      /\ \A h \in Hours : plan[h] # None <=> Covered(h)
  BY DEF ScheduleInv, PlanIsCovered, StoreSchedule, TypeOK
<1>3. CASE UNCHANGED <<schedule, chosen>>
  BY <1>1, <1>3 DEF StoreSchedule, ScheduleInv, ScheduleIsChosen, ChoicesAreCovered,
                    ScheduleIsPast
<1>4. CASE schedule' = merged /\ chosen' = newChosen
  <2>1. started \in Nat /\ clock \in Nat /\ started <= clock /\ HourLength \in Nat
        /\ Retention \in Nat
    BY TimeAssumption DEF TypeOK
  <2>2. ChoicesAreCovered'
    <3> SUFFICES ASSUME NEW h \in Hours, newChosen[h] # None
                 PROVE prices # None /\ pv # None /\ h < prices.to /\ h < pv.to
      BY <1>4 DEF ChoicesAreCovered, StoreSchedule
    <3>1. CASE plan[h] # None BY <3>1, <1>2 DEF Covered, Covers
    <3>2. CASE plan[h] = None BY <3>2 DEF ScheduleInv, ChoicesAreCovered
    <3> QED BY <3>1, <3>2
  <2>3. ScheduleIsPast'
    BY <1>4, <2>1 DEF ScheduleIsPast, StoreSchedule
  <2>4. ASSUME NEW h \in Hours, h + Retention > started
        PROVE  MergeSchedule(previous)[h] = newChosen[h]
    <3> h \in Nat BY DEF Hours
    <3>1. CASE plan[h] # None BY <3>1 DEF MergeSchedule
    <3>2. CASE plan[h] = None /\ Kept(h)
      <4>1. MergeSchedule(previous)[h] = previous[h] BY <3>2 DEF MergeSchedule
      <4>2. previous[h] = chosen[h]
        <5>1. CASE schedule = None
          BY <5>1 DEF ScheduleInv, ScheduleIsChosen
        <5>2. CASE schedule # None
          <6>1. schedule.updatedAt \in Nat /\ schedule.updatedAt <= started
            BY <5>2, TimeAssumption
            DEF ScheduleInv, ScheduleIsPast, StoreSchedule, TypeOK, Schedule
          <6>2. h + Retention > schedule.updatedAt BY <6>1, <2>1, <2>4
          <6> QED BY <5>2, <6>2 DEF ScheduleInv, ScheduleIsChosen
        <5> QED BY <5>1, <5>2
      <4> QED BY <3>2, <4>1, <4>2
    <3>3. CASE plan[h] = None /\ ~Kept(h)
      <4>1. PICK g \in Hours : plan[g] # None /\ ~(h < g)
        BY <3>3, <2>4 DEF Kept
      <4>2. Covered(g) /\ ~Covered(h) BY <3>3, <4>1, <1>2
      <4>3. g \in Nat /\ g <= h BY <4>1 DEF Hours
      <4>4. ~(h < prices.to /\ h < pv.to)
        BY <4>2, <4>3, <1>2 DEF Covered, Covers, Window
      <4>5. chosen[h] = None BY <4>4 DEF ScheduleInv, ChoicesAreCovered
      <4>6. MergeSchedule(previous)[h] = None BY <3>3 DEF MergeSchedule
      <4> QED BY <3>3, <4>5, <4>6
    <3> QED BY <3>1, <3>2, <3>3
  <2>5. merged # None
    <3>1. started \in 0..MaxTime BY TimeAssumption DEF TypeOK
    <3>2. previous \in Powered BY UnplannedType DEF TypeOK, Schedule
    <3>3. merged \in Schedule BY <3>1, <3>2, MergedType DEF Schedule
    <3> QED BY <3>3, PowerAssumption
  <2>6. ScheduleIsChosen' BY <1>4, <2>4, <2>5 DEF ScheduleIsChosen
  <2> QED BY <1>1, <2>2, <2>3, <2>6 DEF ScheduleInv
<1> QED BY <1>3, <1>4 DEF StoreSchedule

LEMMA ScheduleStep ==
  ASSUME SteadyEnds, TypeOK, ScheduleInv, [Next]_vars PROVE ScheduleInv'
<1> clock \in Nat /\ started \in Nat /\ (schedule # None => schedule.updatedAt \in Nat)
  BY TimeAssumption DEF TypeOK, Schedule
<1>1. ASSUME UNCHANGED <<clock, planVars>> PROVE ScheduleInv'
  BY <1>1 DEF planVars, ScheduleInv, ScheduleIsChosen, PlanIsCovered, ChoicesAreCovered,
              ScheduleIsPast, Covered, Covers
<1>2. CASE BeginCycle
  BY <1>2 DEF BeginCycle, ScheduleInv, ScheduleIsChosen, PlanIsCovered,
              ChoicesAreCovered, ScheduleIsPast
<1>3. CASE EndCycle
  BY <1>3 DEF EndCycle, ScheduleInv, ScheduleIsChosen, PlanIsCovered, ChoicesAreCovered,
              ScheduleIsPast
<1>4. CASE Tick
  BY <1>4 DEF Tick, planVars, ScheduleInv, ScheduleIsChosen, PlanIsCovered,
              ChoicesAreCovered, ScheduleIsPast, Covered, Covers
<1>5. CASE Restart
  BY <1>5 DEF Restart, ScheduleInv, ScheduleIsChosen, PlanIsCovered, ChoicesAreCovered,
              ScheduleIsPast
<1>6. CASE ControlStep \/ LoadRaises \/ LimitExpires \/ UNCHANGED vars
  <2>1. UNCHANGED <<clock, planVars>>
    BY <1>6 DEF ControlStep, Poll, SwitchCall, SetPowerCall, CallFails, LoadRaises,
                LimitExpires, vars
  <2> QED BY <2>1, <1>1
<1> QED BY <1>2, <1>3, <1>4, <1>5, <1>6, ScheduleFetch, ScheduleMake, ScheduleStore
        DEF Next, PlanStep

LEMMA ScheduleInit == Init => ScheduleInv
BY DEF Init, ScheduleInv, ScheduleIsChosen, PlanIsCovered, ChoicesAreCovered,
       ScheduleIsPast, Unplanned

\* If a fetch never ends before the one it replaces, no merge loses the choice of
\* an earlier plan within the retention time, nor brings back an overruled one.
THEOREM ScheduleCorrect == ASSUME SteadyEnds PROVE Spec => []ScheduleIsChosen
<1>1. TypeOK /\ ScheduleInv /\ [Next]_vars => ScheduleInv' BY ScheduleStep
<1>2. ScheduleInv => ScheduleIsChosen BY DEF ScheduleInv
<1> QED BY <1>1, <1>2, ScheduleInit, EvTypeCorrect, PTL DEF Spec

\* The retention time covers the running hour, so a poll looks up what the plans
\* chose for it.
LEMMA PlannedIsChosen ==
  ASSUME TypeOK, ScheduleInv, schedule # None, ~Stale(clock)
  PROVE  PlannedPower(clock) = chosen[HourOf(clock)]
<1>1. clock \in 0..MaxTime /\ schedule.updatedAt \in Nat /\ schedule.updatedAt <= clock
      /\ HourLength \in Nat /\ Retention \in Nat /\ Retention >= HourLength
      /\ clock \in Nat
  BY TimeAssumption DEF TypeOK, Schedule, ScheduleInv, ScheduleIsPast
<1>2. HourOf(clock) \in Hours /\ HourOf(clock) \in Nat
      /\ clock < HourOf(clock) + HourLength
  BY <1>1, RunningHour
<1>3. HourOf(clock) + Retention > schedule.updatedAt BY <1>1, <1>2
<1>4. schedule.power[HourOf(clock)] = chosen[HourOf(clock)]
  BY <1>2, <1>3 DEF ScheduleInv, ScheduleIsChosen
<1> QED BY <1>4 DEF PlannedPower, Stale

\* Every poll of every behaviour aims at the power that the most recent plan
\* covering the running hour chose, or hands the charger back.
THEOREM PollsFollowPlans == ASSUME SteadyEnds PROVE Spec => PollFollowsPlans
<1> DEFINE Aims == Poll => target' = Choice(clock)
<1>1. TypeOK /\ ScheduleInv /\ [Next]_vars => [Aims]_vars
  <2> SUFFICES ASSUME TypeOK, ScheduleInv, Poll PROVE target' = Choice(clock)
    OBVIOUS
  <2>1. target' = Wanted(PlannedPower(clock)) BY DEF Poll
  <2>2. CASE schedule = None \/ Stale(clock)
    BY <2>1, <2>2 DEF PlannedPower, Stale, Choice, Wanted
  <2>3. CASE schedule # None /\ ~Stale(clock)
    BY <2>1, <2>3, PlannedIsChosen DEF Choice
  <2> QED BY <2>2, <2>3
<1>2. TypeOK /\ ScheduleInv /\ [Next]_vars => ScheduleInv' BY ScheduleStep
<1> QED BY <1>1, <1>2, ScheduleInit, EvTypeCorrect, PTL DEF Spec, PollFollowsPlans
=============================================================================
