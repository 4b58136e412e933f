---------------------------- MODULE Orchestrator ----------------------------
(***************************************************************************)
(* The scheduled collection of provider data and the plan trigger:         *)
(* ProviderOrchestrator (src/src/energy_optimizer/orchestration.py).       *)
(*                                                                         *)
(* A cycle (run_due) is taken apart where time passes or another thread    *)
(* can act: reading the clock, taking the cycle lock and planning (phase   *)
(* 1), importing the Home Assistant history (phase 2), building and saving *)
(* each source in turn (phase 3), triggering the plan.  Between those      *)
(* steps the clock may advance, an API request may save a record of its    *)
(* own, and the process may be restarted.                                  *)
(*                                                                         *)
(* A record is abstracted to the two times the orchestrator looks at: when *)
(* it was observed (freshness) and up to which hour it is complete         *)
(* (incremental sources only; 0 for the others).                           *)
(***************************************************************************)
EXTENDS Naturals

CONSTANTS
  Sources,          \* the enabled sources that have a registration
  Position,         \* the order of the registrations
  Histories,        \* incremental Home Assistant sources (plan may be None)
  StoreChecked,     \* sources whose freshness check reads the store
  Submittable,      \* sources an API client may POST
  Required,         \* optimization.required_sources
  Interval,         \* interval_seconds per source
  MaxAge,           \* the freshness threshold per source
  StartupFetch,     \* orchestration.startup_fetch
  PlanningEnabled,  \* optimization.enabled
  HasGenerator,     \* a plan generator is configured
  Callers,          \* the threads that call run_due
  HourLength,       \* clock units per hour
  Ages,             \* how old an observation may be when it is retrieved
  MaxTime,          \* bound on the clock
  MaxRestarts,      \* bound on process restarts
  NoData, Unscheduled, Nobody

Record == [at : Nat, through : Nat]

ASSUME SourcesAssumption ==
  /\ Histories \subseteq Sources /\ StoreChecked \subseteq Sources
  /\ Submittable \subseteq Sources /\ Required \subseteq Sources
  /\ Required # {}

ASSUME ScheduleAssumption ==
  /\ Position \in [Sources -> Nat]
  /\ \A s, u \in Sources : Position[s] = Position[u] => s = u
  /\ Interval \in [Sources -> Nat \ {0}]
  /\ MaxAge \in [Sources -> Nat]
  /\ HourLength \in Nat \ {0}
  /\ Ages \subseteq Nat
  /\ {StartupFetch, PlanningEnabled, HasGenerator} \subseteq BOOLEAN

ASSUME NullAssumption ==
  /\ NoData \notin Record
  /\ Unscheduled \notin Nat
  /\ Nobody \notin Callers

VARIABLES
  clock,        \* wall-clock time
  restarts,     \* how often the process was restarted
  pc,           \* where each caller of run_due is
  wake,         \* when each caller calls run_due next
  started,      \* started_at of each caller's call: the `now` of its cycle
  lock,         \* holder of _cycle_lock
  outcome,      \* slots and provider_runs of the running cycle
  freshData,    \* fresh_data of the running cycle
  importFailed, \* import_error of the running cycle
  planStatus,   \* plan_status of the last cycle
  nextDue,      \* _next_due
  latest,       \* _latest_data
  stored,       \* the valid record the store holds for each source
  diverged,     \* ghost: stored was changed behind the orchestrator's back
  lastEnd       \* ghost: when the last attempt of each source ended

cycleVars == <<outcome, freshData, importFailed>>
dataVars == <<latest, stored, diverged>>
vars == <<clock, restarts, pc, wake, started, lock, cycleVars, planStatus,
          nextDue, dataVars, lastEnd>>

Time == Nat
PlanStatus == {"none", "disabled", "not-ready", "unavailable", "created", "failed"}
Outcome == {"idle", "planned", "skipped", "failed", "stale", "success"}

TypeOK ==
  /\ clock \in Time /\ restarts \in Nat
  /\ pc \in [Callers -> {"sleeping", "entering", "importing", "building", "dead"}]
  /\ wake \in [Callers -> Time] /\ started \in [Callers -> Time]
  /\ lock \in Callers \cup {Nobody}
  /\ outcome \in [Sources -> Outcome]
  /\ freshData \in [Sources -> Record \cup {NoData}]
  /\ importFailed \in BOOLEAN
  /\ planStatus \in PlanStatus
  /\ nextDue \in [Sources -> Time \cup {Unscheduled}]
  /\ latest \in [Sources -> Record \cup {NoData}]
  /\ stored \in [Sources -> Record \cup {NoData}]
  /\ diverged \in [Sources -> BOOLEAN]
  /\ lastEnd \in [Sources -> Time \cup {Unscheduled}]

-----------------------------------------------------------------------------
(* Helpers.                                                                *)

HourOf(t) == t - (t % HourLength)

Fresh(s, data, now) == data.at + MaxAge[s] > now

IsDue(s, now) ==
  IF nextDue[s] = Unscheduled THEN StartupFetch ELSE now >= nextDue[s]

\* The due time is counted from the end of the attempt, not from the cycle.
DueAfter_CatchUp(s, end) ==
  (IF nextDue[s] = Unscheduled THEN end ELSE nextDue[s]) + Interval[s]
DueAfter(s, end) == end + Interval[s]

Shortest(s) == \A u \in Sources : Interval[s] <= Interval[u]

Nothing == [s \in Sources |-> NoData]
Idle == [s \in Sources |-> "idle"]

Planned == {s \in Sources : outcome[s] = "planned"}
NextPlanned(s) ==
  /\ s \in Planned
  /\ \A u \in Planned : Position[s] <= Position[u]

\* Hand the cycle lock back and sleep for the poll interval (run_forever).
EndCall(c, then) ==
  /\ pc' = [pc EXCEPT ![c] = then]
  /\ \E s \in Sources :
       Shortest(s) /\ wake' = [wake EXCEPT ![c] = clock + Interval[s]]

-----------------------------------------------------------------------------
(* run_due up to the lock, and phase 1.                                    *)

ReadClock(c) ==
  /\ pc[c] = "sleeping" /\ clock >= wake[c]
  /\ pc' = [pc EXCEPT ![c] = "entering"]
  /\ started' = [started EXCEPT ![c] = clock]
  /\ UNCHANGED <<clock, restarts, wake, lock, cycleVars, planStatus, nextDue,
                 dataVars, lastEnd>>

\* acquire(blocking=False) succeeds exactly on a free lock.
LockFree_NotTested == TRUE
LockFree == lock = Nobody

SkipCycle(c) ==
  /\ pc[c] = "entering" /\ lock # Nobody
  /\ EndCall(c, "sleeping")
  /\ UNCHANGED <<clock, restarts, started, lock, cycleVars, planStatus, nextDue,
                 dataVars, lastEnd>>

\* An incremental source whose completed hours are all persisted has no plan.
Complete(s, now) ==
  s \in Histories /\ stored[s] # NoData /\ stored[s].through >= HourOf(now)

BeginCycle(c) ==
  /\ pc[c] = "entering" /\ LockFree
  /\ LET now == started[c]
         due == {s \in Sources : IsDue(s, now)}
     IN \E unreadable \in SUBSET (due \cap (Histories \cup StoreChecked)) :
          LET planned == {s \in due \ unreadable : ~Complete(s, now)} IN
          /\ outcome' = [s \in Sources |->
                           IF s \in unreadable THEN "failed"
                           ELSE IF s \in planned THEN "planned" ELSE "skipped"]
          /\ nextDue' = [s \in Sources |->
                           IF s \in due \ planned THEN DueAfter(s, clock)
                           ELSE IF s \notin due /\ nextDue[s] = Unscheduled
                                THEN now + Interval[s] ELSE nextDue[s]]
          /\ lastEnd' = [s \in Sources |->
                           IF s \in due \ planned THEN clock ELSE lastEnd[s]]
  /\ lock' = c
  /\ pc' = [pc EXCEPT ![c] = "importing"]
  /\ planStatus' = "none"
  /\ UNCHANGED <<clock, restarts, wake, started, freshData, importFailed, dataVars>>

-----------------------------------------------------------------------------
(* Phases 2 and 3.                                                         *)

ImportHistory(c) ==
  /\ pc[c] = "importing"
  /\ \E failed \in BOOLEAN :
       /\ failed => Planned \cap (Histories \cup StoreChecked) # {}
       /\ importFailed' = failed
  /\ pc' = [pc EXCEPT ![c] = "building"]
  /\ UNCHANGED <<clock, restarts, wake, started, lock, outcome, freshData,
                 planStatus, nextDue, dataVars, lastEnd>>

\* What a build may return: an observation of some age, complete up to the
\* hour the plan asked for.
Incoming(s, now) ==
  {[at |-> clock - age,
    through |-> IF s \in Histories
                THEN IF stored[s] # NoData /\ stored[s].through > HourOf(now)
                     THEN stored[s].through ELSE HourOf(now)
                ELSE 0] : age \in {a \in Ages : a <= clock}}

\* Every attempt, successful or not, ends by scheduling the next one.
EndAttempt(c, s, result) ==
  /\ pc[c] = "building" /\ NextPlanned(s)
  /\ outcome' = [outcome EXCEPT ![s] = result]
  /\ nextDue' = [nextDue EXCEPT ![s] = DueAfter(s, clock)]
  /\ lastEnd' = [lastEnd EXCEPT ![s] = clock]
  /\ UNCHANGED <<clock, restarts, pc, wake, started, lock, importFailed, planStatus>>

\* The build raises (also because the import failed) or nothing was saved.
BuildFails_NotRescheduled(c, s) ==
  /\ pc[c] = "building" /\ NextPlanned(s)
  /\ outcome' = [outcome EXCEPT ![s] = "failed"]
  /\ UNCHANGED <<clock, restarts, pc, wake, started, lock, importFailed, planStatus,
                 nextDue, lastEnd, freshData, dataVars>>
BuildFails(c, s) ==
  /\ EndAttempt(c, s, "failed")
  /\ UNCHANGED <<freshData, dataVars>>

\* store.save raises after it replaced the file: syncing the directory failed.
SaveReportsFailure(c, s, data) ==
  /\ ~(importFailed /\ s \in Histories)
  /\ EndAttempt(c, s, "failed")
  /\ stored' = [stored EXCEPT ![s] = data]
  /\ diverged' = [diverged EXCEPT ![s] = TRUE]
  /\ UNCHANGED <<freshData, latest>>

\* store.save returned: the record is held in memory before its check.
Save_StoreOnly(s, data) ==
  /\ stored' = [stored EXCEPT ![s] = data]
  /\ diverged' = [diverged EXCEPT ![s] = FALSE]
  /\ UNCHANGED latest
Save(s, data) ==
  /\ stored' = [stored EXCEPT ![s] = data]
  /\ latest' = [latest EXCEPT ![s] = data]
  /\ diverged' = [diverged EXCEPT ![s] = FALSE]

\* The freshness check itself raises, so the saved record counts as failed.
CheckFails(c, s, data) ==
  /\ ~(importFailed /\ s \in Histories)
  /\ s \in StoreChecked
  /\ EndAttempt(c, s, "failed")
  /\ Save(s, data)
  /\ UNCHANGED freshData

Refresh_StaleToo(c, s, data) ==
  /\ ~(importFailed /\ s \in Histories)
  /\ EndAttempt(c, s, IF Fresh(s, data, started[c]) THEN "success" ELSE "stale")
  /\ Save(s, data)
  /\ freshData' = [freshData EXCEPT ![s] = data]
Refresh(c, s, data) ==
  /\ ~(importFailed /\ s \in Histories)
  /\ EndAttempt(c, s, IF Fresh(s, data, started[c]) THEN "success" ELSE "stale")
  /\ Save(s, data)
  /\ freshData' = [freshData EXCEPT
                     ![s] = IF Fresh(s, data, started[c]) THEN data ELSE NoData]

-----------------------------------------------------------------------------
(* The plan trigger.                                                       *)

Refreshed == {s \in Sources : freshData[s] # NoData}
Blocked == {s \in Sources : outcome[s] \in {"failed", "stale"}}
Newest(s) == IF freshData[s] # NoData THEN freshData[s] ELSE latest[s]

\* The conditions on the cycle that _trigger_plan checks before freshness.
Ready_FailuresIgnored ==
  /\ Required \cap Refreshed # {}
  /\ \A s \in Required : Newest(s) # NoData
Ready_AnyMissing ==
  /\ Required \cap Refreshed # {}
  /\ Required \cap Blocked = {}
  /\ Required \subseteq Refreshed
Ready ==
  /\ Required \cap Refreshed # {}
  /\ Required \cap Blocked = {}
  /\ \A s \in Required : Newest(s) # NoData

PlanOutcomes_RunStatus(now) ==
  IF ~PlanningEnabled THEN {"disabled"}
  ELSE IF ~Ready THEN {"skipped"}
  ELSE IF ~HasGenerator THEN {"unavailable"}
  ELSE IF \E s \in Required : ~Fresh(s, Newest(s), now) THEN {"skipped"}
  ELSE {"created", "failed"}
PlanOutcomes(now) ==
  IF ~PlanningEnabled THEN {"disabled"}
  ELSE IF ~Ready THEN {"not-ready"}
  ELSE IF ~HasGenerator THEN {"unavailable"}
  ELSE IF \E s \in Required : ~Fresh(s, Newest(s), now) THEN {"not-ready"}
  ELSE {"created", "failed"}

EndCycle_LockKept(c, then) ==
  /\ pc[c] = "building" /\ Planned = {}
  /\ EndCall(c, then)
  /\ outcome' = Idle /\ freshData' = Nothing /\ importFailed' = FALSE
  /\ UNCHANGED <<clock, restarts, started, lock, nextDue, dataVars, lastEnd>>
EndCycle(c, then) ==
  /\ pc[c] = "building" /\ Planned = {}
  /\ EndCall(c, then)
  /\ lock' = Nobody
  /\ outcome' = Idle /\ freshData' = Nothing /\ importFailed' = FALSE
  /\ UNCHANGED <<clock, restarts, started, nextDue, dataVars, lastEnd>>

TriggerPlan(c) ==
  /\ EndCycle(c, "sleeping")
  /\ planStatus' \in PlanOutcomes(started[c])

\* _is_latest_data_fresh is not guarded: an error of a freshness check leaves
\* run_due, and with it the loop of run_forever.
TriggerRaises(c) ==
  /\ PlanningEnabled /\ Ready /\ HasGenerator
  /\ Required \cap StoreChecked # {}
  /\ EndCycle(c, "dead")
  /\ UNCHANGED planStatus

-----------------------------------------------------------------------------
(* The environment.                                                        *)

\* An API submission merges into the store and not into _latest_data.
Submit(s) ==
  /\ s \in Submittable
  /\ \E age \in {a \in Ages : a <= clock},
        hour \in {HourOf(clock)} \cup
                 (IF stored[s] = NoData THEN {} ELSE {stored[s].through}) :
       stored' = [stored EXCEPT ![s] = [at |-> clock - age, through |-> hour]]
  /\ diverged' = [diverged EXCEPT ![s] = TRUE]
  /\ UNCHANGED <<clock, restarts, pc, wake, started, lock, cycleVars, planStatus,
                 nextDue, latest, lastEnd>>

Tick ==
  /\ clock < MaxTime
  /\ clock' = clock + 1
  /\ UNCHANGED <<restarts, pc, wake, started, lock, cycleVars, planStatus,
                 nextDue, dataVars, lastEnd>>

\* The process dies at any point; the new one restores what it can load.
Restart ==
  /\ restarts < MaxRestarts
  /\ restarts' = restarts + 1
  /\ pc' = [c \in Callers |-> "sleeping"]
  /\ wake' = [c \in Callers |-> clock]
  /\ started' = [c \in Callers |-> clock]
  /\ lock' = Nobody
  /\ outcome' = Idle /\ freshData' = Nothing /\ importFailed' = FALSE
  /\ planStatus' = "none"
  /\ nextDue' = [s \in Sources |-> Unscheduled]
  /\ lastEnd' = [s \in Sources |-> Unscheduled]
  /\ \E unreadable \in SUBSET Sources :
       /\ latest' = [s \in Sources |-> IF s \in unreadable THEN NoData ELSE stored[s]]
       /\ diverged' = [s \in Sources |-> s \in unreadable]
  /\ UNCHANGED <<clock, stored>>

-----------------------------------------------------------------------------
\* A deployment starts on an empty directory or on what it saved earlier.
Init ==
  /\ clock = 0 /\ restarts = 0
  /\ pc = [c \in Callers |-> "sleeping"]
  /\ wake = [c \in Callers |-> 0] /\ started = [c \in Callers |-> 0]
  /\ lock = Nobody
  /\ outcome = Idle /\ freshData = Nothing /\ importFailed = FALSE
  /\ planStatus = "none"
  /\ nextDue = [s \in Sources |-> Unscheduled]
  /\ stored \in [Sources -> {NoData, [at |-> 0, through |-> 0]}]
  /\ latest = stored
  /\ diverged = [s \in Sources |-> FALSE]
  /\ lastEnd = [s \in Sources |-> Unscheduled]

Attempt(c, s) ==
  \/ BuildFails(c, s)
  \/ \E data \in Incoming(s, started[c]) :
       \/ SaveReportsFailure(c, s, data)
       \/ CheckFails(c, s, data)
       \/ Refresh(c, s, data)

CycleStep(c) ==
  \/ ReadClock(c) \/ SkipCycle(c) \/ BeginCycle(c) \/ ImportHistory(c)
  \/ \E s \in Sources : Attempt(c, s)
  \/ TriggerPlan(c) \/ TriggerRaises(c)

Next ==
  \/ \E c \in Callers : CycleStep(c)
  \/ \E s \in Sources : Submit(s)
  \/ Tick \/ Restart

Spec == Init /\ [][Next]_vars

\* Every HTTP request and the solver have a timeout, asyncio resumes a timer
\* that expired, and time passes: the steps of a call are never put off for ever.
FairSpec == Spec /\ WF_vars(Tick) /\ \A c \in Callers : WF_vars(CycleStep(c))

-----------------------------------------------------------------------------
(* Properties.                                                             *)

InCycle(c) == pc[c] \in {"importing", "building"}

\* _cycle_lock: the thread inside a cycle is the holder of the lock, so two
\* cycles never interleave their slots (orchestration.py:248).
CyclesExclusive == \A c \in Callers : InCycle(c) <=> lock = c

\* _latest_data equals what the store holds for a source, except after an API
\* submission, a save that failed after replacing the file, or a failed
\* restore: no path of a cycle, a failure or a restart parts the two.
MemoryFollowsStore == \A s \in Sources : diverged[s] \/ latest[s] = stored[s]

\* fresh_data only ever holds the record the orchestrator also keeps in
\* _latest_data, it was fresh at the time the cycle captured, and its run is
\* reported as a success (orchestration.py:423-430).
FreshDataIsLatest ==
  \A s \in Refreshed :
    /\ lock # Nobody
    /\ freshData[s] = latest[s] /\ outcome[s] = "success"
    /\ Fresh(s, latest[s], started[lock])

PlanMade == planStatus = "none" /\ planStatus' \in {"created", "failed"}

CurrentInputs ==
  /\ \A s \in Required :
       /\ latest[s] # NoData /\ Fresh(s, latest[s], started[lock])
       /\ outcome[s] \in {"skipped", "success"}
  /\ \E s \in Required : outcome[s] = "success"

\* The generator only ever sees inputs that are all present and fresh at the
\* captured time, at least one of them fetched by this very cycle, in a cycle
\* in which no required source failed or came back stale.
PlanInputsAreCurrent == [][PlanMade => CurrentInputs]_vars

CycleEnds == lock # Nobody /\ lock' = Nobody /\ restarts' = restarts

InputsAllowPlan ==
  /\ PlanningEnabled /\ HasGenerator
  /\ Required \cap Refreshed # {} /\ Required \cap Blocked = {}
  /\ \A s \in Required :
       stored[s] # NoData /\ ~diverged[s] /\ Fresh(s, stored[s], started[lock])

\* The trigger is complete: a cycle that refreshed a required source, in which
\* none failed or was stale, calls the generator whenever the records in the
\* STORE are fresh and the orchestrator's copies have not been overtaken.
PlansWhenInputsAllow ==
  [][CycleEnds /\ InputsAllowPlan => PlanMade \/ \E c \in Callers : pc'[c] = "dead"]_vars

AttemptStarts(s) == outcome[s] # "planned" /\ outcome'[s] = "planned"
Spaced(s) == lastEnd[s] # Unscheduled => clock >= lastEnd[s] + Interval[s]

\* "A cycle never catches up missed intervals": within one process two fetches
\* of a source are at least its interval apart, from the end of one to the
\* start of the next, whatever thread ran them (orchestration.py:155, 579-587).
AttemptsAreSpaced == [][\A s \in Sources : AttemptStarts(s) => Spaced(s)]_vars

AllScheduled ==
  \A s \in Sources : nextDue[s] # Unscheduled /\ nextDue[s] > started[lock]

\* When a cycle ends every source has its next run scheduled after the time the
\* cycle captured, however its attempt went: no source is dropped from the
\* schedule and none is left due.
NothingStaysDue == [][CycleEnds => AllScheduled]_vars

\* A cycle always comes to its end and gives the lock back.
CyclesEnd == []<>(lock = Nobody)

\* run_forever: collection goes on until shutdown (here: the end of the
\* modelled time), whatever fails inside the cycles.
CollectionContinues == \A c \in Callers : <>[](wake[c] > MaxTime)
=============================================================================
